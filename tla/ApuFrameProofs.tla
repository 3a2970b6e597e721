----------------------------- MODULE ApuFrameProofs -----------------------------
(* The type invariant of ApuFrame and the room in the monitor FIFO, for any  *)
(* size of frame, buffer, FIFO and audio device.                             *)
EXTENDS ApuFrame, TLAPS

USE SizesAssumption

(* The smaller and the larger of two numbers.                                *)
LEMMA MinOfTwo ==
    ASSUME NEW a \in Int, NEW b \in Int
    PROVE  Min({a, b}) = IF a <= b THEN a ELSE b
  <1> DEFINE c == IF a <= b THEN a ELSE b
  <1>1. c \in {a, b} /\ \A y \in {a, b} : c <= y
    OBVIOUS
  <1>2. \A x \in {a, b} : (\A y \in {a, b} : x <= y) => x = c
    OBVIOUS
  <1> QED BY <1>1, <1>2 DEF Min
(* ... and the larger.                                                       *)
LEMMA MaxOfTwo ==
    ASSUME NEW a \in Int, NEW b \in Int
    PROVE  Max({a, b}) = IF a >= b THEN a ELSE b
  <1> DEFINE c == IF a >= b THEN a ELSE b
  <1>1. c \in {a, b} /\ \A y \in {a, b} : c >= y
    OBVIOUS
  <1>2. \A x \in {a, b} : (\A y \in {a, b} : x >= y) => x = c
    OBVIOUS
  <1> QED BY <1>1, <1>2 DEF Max

(* monitor_init's high watermark leaves room for one buffer.                 *)
LEMMA HighLeavesRoom ==
    /\ Capacity \in Nat /\ QueuedHigh \in Nat
    /\ QueuedHigh + FrameBytes <= Capacity
  <1>1. Capacity \in Nat /\ Capacity >= 3 * FrameBytes
    BY DEF Capacity
  <1>2. Drain \in Nat
    BY MaxOfTwo DEF Drain
  <1>3. Max({Capacity - FrameBytes, FrameBytes}) = Capacity - FrameBytes
    BY <1>1, MaxOfTwo
  <1>4. /\ QueuedHigh = Min({3 * Drain, Capacity - FrameBytes})
        /\ 3 * Drain \in Int /\ Capacity - FrameBytes \in Int
    BY <1>1, <1>2, <1>3 DEF QueuedHigh
  <1> QED BY <1>1, <1>2, <1>4, MinOfTwo

(* The callback takes no more than there is.                                 *)
LEMMA DrainInBounds ==
    ASSUME NEW u \in 0 .. Capacity
    PROVE  u - Min({DeviceBytes, u}) \in 0 .. u
  <1>1. u \in Int /\ DeviceBytes \in Int /\ u >= 0
    BY HighLeavesRoom
  <1> QED BY <1>1, MinOfTwo, HighLeavesRoom

(* From the throttle's look at the FIFO to the end of the buffer there is    *)
(* room for the buffer: throttle looks only when the count of frames is      *)
(* zero, and the count becomes zero without a look only while a frame, which *)
(* has been let through, gives d->lock up.                                   *)
LetThrough == {"frame", "mix", "sleep", "rested", "stalled", "available"}
RoomKept == pc \in LetThrough \/ div # 0 => used + FrameBytes <= Capacity

(* The parts of the type invariant, by who changes them.                     *)
RegTypes  == regs \in Registers /\ line \in BOOLEAN /\ setIrq \in BOOLEAN
Places    == Holding \cup Waiting \cup DOMAIN Resumed \cup {"irq", "served"}
FifoTypes == div \in 0 .. FramesPerBuf - 1 /\ used \in 0 .. Capacity /\ failed \in BOOLEAN
HostTypes ==
    /\ cpu \in {"idle", "ep"} /\ running \in BOOLEAN
    /\ main \in [op : {"none", "save", "load", "reset"},
                 pc : {"idle", "reset", "lock", "locked"}, was : BOOLEAN]
IInv == RegTypes /\ pc \in Places /\ FifoTypes /\ HostTypes /\ RoomKept

(* What the invariant is for.                                                *)
LEMMA IInvImplies == IInv => TypeOK /\ FifoRoom
  <1> SUFFICES ASSUME IInv PROVE TypeOK /\ FifoRoom
    OBVIOUS
  <1>1. TypeOK
    BY DEF IInv, RegTypes, Places, FifoTypes, HostTypes, TypeOK
  <1>2. FifoRoom
    BY HighLeavesRoom DEF IInv, FifoTypes, RoomKept, LetThrough, FifoRoom
  <1> QED BY <1>1, <1>2

(* The machine starts with an empty FIFO.                                    *)
LEMMA InitIInv == Init => IInv
  <1> SUFFICES ASSUME Init PROVE IInv
    OBVIOUS
  <1>1. RegTypes
    BY DEF Init, RegTypes, Registers, ZeroRegs
  <1>2. pc \in Places /\ pc \notin LetThrough /\ div = 0
    BY DEF Init, Places, Resumed, LetThrough
  <1>3. FifoTypes
    <2>1. div \in 0 .. FramesPerBuf - 1 /\ used \in 0 .. Capacity
      BY HighLeavesRoom DEF Init
    <2>2. failed \in BOOLEAN
      BY DEF Init
    <2> QED BY <2>1, <2>2 DEF FifoTypes
  <1>4. HostTypes
    BY DEF Init, HostTypes
  <1> QED BY <1>1, <1>2, <1>3, <1>4 DEF IInv, RoomKept

(* A wake-up moves the frame thread to a place it had been let through to,   *)
(* or to one before the throttle.                                            *)
LEMMA SignalKeeps ==
    ASSUME pc \in Places, Signal
    PROVE  pc' \in Places /\ (pc' \in LetThrough => pc \in LetThrough)
  BY DEF Signal, Waiting, After, Places, Holding, Resumed, LetThrough

(* Whoever leaves the FIFO and the count alone and does not let the thread   *)
(* through keeps the room.                                                   *)
LEMMA RoomUntouched ==
    ASSUME FifoTypes, RoomKept, UNCHANGED <<div, used, failed>>,
           pc' \in LetThrough => pc \in LetThrough
    PROVE  FifoTypes' /\ RoomKept'
  BY DEF FifoTypes, RoomKept

(* Acknowledging and raising keeps the registers' types.                     *)
LEMMA UpdateKeepsRegs ==
    ASSUME NEW r \in Registers, UpdateIrq(r), setIrq' \in BOOLEAN
    PROVE  RegTypes'
  <1>1. r.ists \cup {"fet"} \in SUBSET Sources
    BY DEF Registers, Sources
  <1>2. Updated(r) \in Registers
    BY <1>1 DEF Updated, Registers
  <1>3. line' \in BOOLEAN
    BY DEF UpdateIrq, Registers
  <1> QED BY <1>2, <1>3 DEF UpdateIrq, RegTypes

(* Steps of the frame thread that only move it.                              *)
LEMMA FrameMoves ==
    ASSUME IInv, FrameTop \/ FrameServed \/ FrameRelock \/ FrameCheck \/ FramePark \/ Timeout
                 \/ FrameMix \/ VoiceStall \/ FrameIrq
    PROVE  IInv'
  <1> USE DEF IInv
  <1>1. HostTypes'
    BY DEF FrameTop, FrameServed, FrameRelock, FrameCheck, FramePark, Timeout, FrameMix,
           VoiceStall, FrameIrq, ThreadOnly, HostTypes
  <1>2. pc' \in Places /\ (pc' \in LetThrough => pc \in LetThrough)
    <2>1. CASE FrameTop \/ FrameServed \/ FrameCheck \/ FramePark \/ FrameMix \/ VoiceStall
               \/ FrameIrq
      BY <2>1 DEF FrameTop, FrameServed, FrameCheck, FramePark, FrameMix, VoiceStall, FrameIrq,
                  Here, Places, Holding, Waiting, LetThrough
    <2>2. CASE FrameRelock
      BY <2>2 DEF FrameRelock, Resumed, Places, Holding, LetThrough
    <2>3. CASE Timeout
      BY <2>3, SignalKeeps DEF Timeout
    <2> QED BY <2>1, <2>2, <2>3
  <1>3. FifoTypes' /\ RoomKept'
    <2>1. UNCHANGED <<div, used, failed>>
      BY DEF FrameTop, FrameServed, FrameRelock, FrameCheck, FramePark, Timeout, FrameMix,
             VoiceStall, FrameIrq
    <2> QED BY <2>1, <1>2, RoomUntouched
  <1>4. RegTypes'
    <2>1. CASE FrameIrq
      BY <2>1, UpdateKeepsRegs DEF FrameIrq, RegTypes
    <2>2. CASE FrameTop
      BY <2>2 DEF FrameTop, RegTypes, Blocked, Registers
    <2>3. CASE FrameServed \/ FrameRelock \/ FrameCheck \/ FramePark \/ Timeout \/ FrameMix
               \/ VoiceStall
      BY <2>3 DEF FrameServed, FrameRelock, FrameCheck, FramePark, Timeout, FrameMix, VoiceStall,
                  RegTypes
    <2> QED BY <2>1, <2>2, <2>3
  <1> QED BY <1>1, <1>2, <1>3, <1>4

(* The throttle lets a new buffer begin only below the high watermark.       *)
LEMMA ThrottleKeeps == ASSUME IInv, Throttle PROVE IInv'
  <1> USE DEF IInv
  <1>1. RegTypes' /\ HostTypes' /\ FifoTypes' /\ UNCHANGED <<div, used>>
    BY DEF Throttle, ThreadOnly, RegTypes, HostTypes, FifoTypes
  <1>2. pc = "throttle" /\ pc' \in Places
    BY DEF Throttle, Here, Places, Holding, Waiting
  <1>3. RoomKept'
    <2>1. CASE div # 0
      BY <2>1, <1>1 DEF RoomKept
    <2>2. CASE div = 0 /\ Full
      BY <2>2, <1>1 DEF Throttle, Here, RoomKept, LetThrough
    <2>3. CASE div = 0 /\ ~Full
      <3>1. used + FrameBytes <= Capacity
        BY <2>3, HighLeavesRoom DEF Full, FifoTypes
      <3> QED BY <3>1, <1>1 DEF RoomKept
    <2> QED BY <2>1, <2>2, <2>3
  <1> QED BY <1>1, <1>2, <1>3

(* The end of a frame: the buffer that was let through fits; what comes next *)
(* looks again.                                                              *)
LEMMA FrameEndKeeps == ASSUME IInv, FrameEnd PROVE IInv'
  <1> USE DEF IInv
  <1>1. RegTypes' /\ HostTypes'
    BY DEF FrameEnd, ThreadOnly, RegTypes, HostTypes
  <1>2. pc = "mix" /\ pc' = "top" /\ pc' \in Places /\ pc' \notin LetThrough
    BY DEF FrameEnd, Here, Places, Holding, LetThrough
  <1>3. used + FrameBytes <= Capacity /\ used + FrameBytes \in Nat /\ used \in Nat
    BY <1>2, HighLeavesRoom DEF RoomKept, LetThrough, FifoTypes
  <1>4. Min({used + FrameBytes, Capacity}) = used + FrameBytes
    BY <1>3, MinOfTwo, HighLeavesRoom
  <1>5. failed' \in BOOLEAN
    BY DEF FrameEnd, FifoTypes
  <1>6. CASE div + 1 = FramesPerBuf
    <2>1. div' = 0 /\ used' = used + FrameBytes
      BY <1>6, <1>4 DEF FrameEnd
    <2>2. FifoTypes'
      BY <2>1, <1>3, <1>5, HighLeavesRoom DEF FifoTypes
    <2> QED BY <1>1, <1>2, <2>1, <2>2 DEF RoomKept
  <1>7. CASE div + 1 # FramesPerBuf
    <2>1. div + 1 \in 1 .. FramesPerBuf - 1
      BY <1>7 DEF FifoTypes
    <2>2. div' = div + 1 /\ used' = used
      BY <1>7, <2>1 DEF FrameEnd
    <2>3. FifoTypes' /\ RoomKept'
      BY <2>1, <2>2, <1>3, <1>5, HighLeavesRoom DEF FifoTypes, RoomKept
    <2> QED BY <1>1, <1>2, <2>3
  <1> QED BY <1>6, <1>7

(* What a voice does in a frame: trap and notify.                            *)
LEMMA VoiceKeeps == ASSUME IInv, VoiceIdle \/ VoiceEnds PROVE IInv'
  <1> USE DEF IInv
  <1>1. HostTypes' /\ UNCHANGED pc /\ UNCHANGED <<div, used>> /\ failed' \in BOOLEAN
    BY DEF VoiceIdle, VoiceEnds, ThreadOnly, HostTypes, FifoTypes, RegTypes, Registers
  <1>2. RegTypes'
    <2>1. regs.ists \cup {"fev"} \in SUBSET Sources
      BY DEF RegTypes, Registers, Sources
    <2> QED BY <2>1 DEF VoiceIdle, VoiceEnds, RegTypes, Registers
  <1> QED BY <1>1, <1>2 DEF FifoTypes, RoomKept

(* The audio callback only makes room.                                       *)
LEMMA CallbackKeeps == ASSUME IInv, AudioCallback PROVE IInv'
  <1> USE DEF IInv
  <1>1. RegTypes' /\ HostTypes' /\ UNCHANGED <<div, failed>>
    BY DEF AudioCallback, RegTypes, HostTypes
  <1>2. pc' \in Places /\ (pc' \in LetThrough => pc \in LetThrough)
    BY SignalKeeps DEF AudioCallback
  <1>3. used' \in 0 .. used
    BY DrainInBounds DEF AudioCallback, FifoTypes
  <1>4. used \in 0 .. Capacity /\ used' \in 0 .. Capacity /\ used' <= used
    BY <1>3, HighLeavesRoom DEF FifoTypes
  <1>5. FifoTypes'
    BY <1>1, <1>4 DEF FifoTypes
  <1>6. RoomKept'
    <2>1. used + FrameBytes <= Capacity => used' + FrameBytes <= Capacity
      <3> DEFINE u == used
                 w == used'
      <3>1. u \in Int /\ w \in Int /\ w <= u /\ Capacity \in Int
        BY <1>4, HighLeavesRoom
      <3> HIDE DEF u, w
      <3>2. u + FrameBytes <= Capacity => w + FrameBytes <= Capacity
        BY <3>1
      <3> QED BY <3>2 DEF u, w
    <2>2. pc' \in LetThrough \/ div' # 0 => pc \in LetThrough \/ div # 0
      BY <1>1, <1>2
    <2> QED BY <2>1, <2>2 DEF RoomKept
  <1> QED BY <1>1, <1>2, <1>5, <1>6

(* The vCPU's writes change registers and wake the thread; EPRST restarts    *)
(* the count, which only weakens what has to be kept.                        *)
LEMMA CpuKeeps == ASSUME IInv, CpuStep \/ CpuEpLocked PROVE IInv'
  <1> USE DEF IInv
  <1>1. CASE \E ack \in SUBSET Sources : WriteIsts(ack)
    <2>1. PICK ack \in SUBSET Sources : WriteIsts(ack)
      BY <1>1
    <2>2. [regs EXCEPT !.ists = @ \ ack] \in Registers
      BY DEF RegTypes, Registers
    <2>3. RegTypes'
      BY <2>1, <2>2, UpdateKeepsRegs DEF WriteIsts, RegTypes
    <2>4. HostTypes' /\ UNCHANGED <<div, used, failed>> /\ Signal
      BY <2>1 DEF WriteIsts, CpuOnly, HostTypes
    <2> QED BY <2>3, <2>4, SignalKeeps, RoomUntouched
  <1>2. CASE CpuVoiceUnlock \/ (\E mode \in {"free", "halted"} : WriteFectl(mode))
             \/ (\E b \in BOOLEAN : WriteSectl(b))
    <2>1. HostTypes' /\ UNCHANGED <<div, used, failed>> /\ Signal
      BY <1>2 DEF CpuVoiceUnlock, WriteFectl, WriteSectl, CpuOnly, HostTypes
    <2>2. RegTypes'
      <3>1. CASE CpuVoiceUnlock
        BY <3>1 DEF CpuVoiceUnlock, RegTypes
      <3>2. CASE \E mode \in {"free", "halted"} : WriteFectl(mode)
        BY <3>2 DEF WriteFectl, RegTypes, Registers
      <3>3. CASE \E b \in BOOLEAN : WriteSectl(b)
        BY <3>3 DEF WriteSectl, RegTypes, Registers
      <3> QED BY <1>2, <3>1, <3>2, <3>3
    <2> QED BY <2>1, <2>2, SignalKeeps, RoomUntouched
  <1>3. CASE WriteFetforce \/ CpuVoiceOff \/ CpuEpReset \/ (\E b \in BOOLEAN : WriteIen(b))
    <2>1. HostTypes' /\ UNCHANGED <<div, used, failed>> /\ UNCHANGED pc
      BY <1>3 DEF WriteFetforce, CpuVoiceOff, CpuEpReset, WriteIen, CpuOnly, HostTypes
    <2>2. regs.ists \cup {"fev"} \in SUBSET Sources
      BY DEF RegTypes, Registers, Sources
    <2>3. RegTypes'
      BY <1>3, <2>2 DEF WriteFetforce, CpuVoiceOff, CpuEpReset, WriteIen, RegTypes, Registers
    <2> QED BY <2>1, <2>3, RoomUntouched
  <1>4. CASE CpuEpLocked
    <2>1. RegTypes' /\ HostTypes' /\ UNCHANGED <<pc, used, failed>> /\ div' = 0
      BY <1>4 DEF CpuEpLocked, RegTypes, HostTypes
    <2> QED BY <2>1 DEF FifoTypes, RoomKept
  <1> QED BY <1>1, <1>2, <1>3, <1>4 DEF CpuStep

(* Pauses, resets and snapshots do not touch the FIFO.                       *)
LEMMA MainKeeps ==
    ASSUME IInv, TogglePause \/ (\E op \in {"save", "load", "reset"} : Begin(op)) \/ MainStep
    PROVE  IInv'
  <1> USE DEF IInv
  <1>1. UNCHANGED <<div, used, failed>> /\ (UNCHANGED pc \/ Signal)
    BY DEF TogglePause, Begin, MainStep, MainReset, MainLock, SaveDone, LoadDone, Done, MainOnly
  <1>2. pc' \in Places /\ FifoTypes' /\ RoomKept'
    BY <1>1, SignalKeeps, RoomUntouched
  <1>3. HostTypes'
    <2>1. CASE TogglePause
      BY <2>1 DEF TogglePause, MainOnly, HostTypes
    <2>2. CASE \E op \in {"save", "load", "reset"} : Begin(op)
      <3>1. PICK op \in {"save", "load", "reset"} : Begin(op)
        BY <2>2
      <3>2. running' \in BOOLEAN
        BY <3>1 DEF Begin
      <3> QED BY <3>1, <3>2 DEF Begin, MainOnly, HostTypes
    <2>3. CASE MainReset \/ MainLock
      BY <2>3 DEF MainReset, MainLock, MainOnly, HostTypes
    <2>4. CASE SaveDone \/ LoadDone
      BY <2>4 DEF SaveDone, LoadDone, Done, MainOnly, HostTypes
    <2> QED BY <2>1, <2>2, <2>3, <2>4 DEF MainStep
  <1>4. RegTypes'
    <2>1. CASE MainReset
      BY <2>1 DEF MainReset, RegTypes, Registers, ZeroRegs
    <2>2. CASE LoadDone
      BY <2>2 DEF LoadDone, Done, RegTypes
    <2>3. CASE TogglePause \/ (\E op \in {"save", "load", "reset"} : Begin(op)) \/ MainLock
               \/ SaveDone
      BY <2>3 DEF TogglePause, Begin, MainLock, SaveDone, Done, RegTypes
    <2> QED BY <2>1, <2>2, <2>3 DEF MainStep
  <1> QED BY <1>2, <1>3, <1>4

(* Every step keeps the invariant.                                           *)
LEMMA NextIInv == IInv /\ [Next]_vars => IInv'
  <1> SUFFICES ASSUME IInv, [Next]_vars PROVE IInv'
    OBVIOUS
  <1>1. CASE FrameLock
    BY <1>1, FrameMoves DEF FrameLock
  <1>2. CASE FrameRun
    BY <1>2, FrameMoves, ThrottleKeeps, FrameEndKeeps DEF FrameRun
  <1>3. CASE VoiceIdle \/ VoiceStall \/ VoiceEnds
    BY <1>3, FrameMoves, VoiceKeeps
  <1>4. CASE AudioCallback
    BY <1>4, CallbackKeeps
  <1>5. CASE CpuStep \/ CpuEpLocked
    BY <1>5, CpuKeeps
  <1>6. CASE TogglePause \/ (\E op \in {"save", "load", "reset"} : Begin(op)) \/ MainStep
    BY <1>6, MainKeeps
  <1>7. CASE UNCHANGED vars
    BY <1>7 DEF vars, IInv, RegTypes, FifoTypes, HostTypes, RoomKept
  <1> QED BY <1>1, <1>2, <1>3, <1>4, <1>5, <1>6, <1>7 DEF Next

(* Registers, positions and the monitor FIFO's level keep their types, for   *)
(* any sizes and any guest (mcpx_apu_frame_thread, monitor_sink_cb).         *)
THEOREM ApuTypeCorrect == Spec => []TypeOK
  BY InitIInv, NextIInv, IInvImplies, PTL DEF Spec

(* se_frame's assertion on the monitor FIFO never fails: with watermarks as  *)
(* monitor_init computes them and a FIFO of at least three buffers, a buffer *)
(* that throttle has let begin fits, although EPRST may restart the count of *)
(* frames while a frame stalls.                                              *)
THEOREM MonitorHasRoom == Spec => []FifoRoom
  BY InitIInv, NextIInv, IInvImplies, PTL DEF Spec
================================================================================
