------------------------------ MODULE PgraphIntr ------------------------------
(***************************************************************************)
(* Interrupts of the NV2A GPU and the two ways PGRAPH stalls its command   *)
(* stream on the guest: the software method trap (NV097_NO_OPERATION with  *)
(* a non-zero parameter) and the channel context switch.                   *)
(*                                                                         *)
(* Three actors run.  The PFIFO thread pulls methods and executes them     *)
(* (pfifo.c, pgraph.c); it gives up pgraph.lock while it takes the BQL to  *)
(* raise an interrupt, and that is where the other two come in.  The vCPU  *)
(* makes register accesses with the BQL held; one access is one step.  The *)
(* vertical blank timer runs on the main loop, with the BQL held.          *)
(*                                                                         *)
(* A step of the PFIFO thread is what it does between two points at which  *)
(* it releases a lock, so no lock other than pfifo.lock is held between    *)
(* two steps, and pfifo.lock only while pf = "pusher".                     *)
(***************************************************************************)
EXTENDS Naturals

CONSTANTS Channels,   \* FIFO channel identifiers; 0 is what a cleared register names
          BlindAck,   \* may the guest write NV_PGRAPH_INTR without having read it?
          MaxConfig   \* bound: how often the guest reconfigures its interrupts

ASSUME ChannelsAssumption == Channels \subseteq Nat /\ 0 \in Channels
ASSUME GuestAssumption == BlindAck \in BOOLEAN /\ MaxConfig \in Nat

Units  == {"PFIFO", "PCRTC", "PGRAPH"}      \* NV_PMC_INTR_0_*
PgBits == {"ERROR", "CONTEXT_SWITCH"}       \* NV_PGRAPH_INTR_*
Method == [op : {"SET_OBJECT", "NO_OPERATION", "OTHER"}, ch : Channels]

VARIABLES
    pf,          \* where the PFIFO thread is
    cur,         \* the method at DMA_GET; ch is the channel of a SET_OBJECT's RAMHT entry
    more,        \* DMA_GET # DMA_PUT
    kick,        \* pfifo.fifo_kick
    fifoAccess,  \* NV_PGRAPH_FIFO_ACCESS
    ctxValid,    \* NV_PGRAPH_CTX_CONTROL_CHID
    ctxUser,     \* NV_PGRAPH_CTX_USER_CHID
    trapped,     \* NV_PGRAPH_TRAPPED_ADDR_CHID
    pending,     \* pgraph.pending_interrupts
    enabled,     \* pgraph.enabled_interrupts
    waitNop,     \* pgraph.waiting_for_nop
    waitCtx,     \* pgraph.waiting_for_context_switch
    pmcPending, pmcEnabled,     \* pmc.{pending,enabled}_interrupts
    crtcPending, crtcEnabled,   \* pcrtc.{pending,enabled}_interrupts, VBLANK
    irq,         \* the PCI interrupt line
    isr,         \* where the guest's interrupt service routine is
    seen,        \* what it last read from NV_PGRAPH_INTR
    config       \* reconfigurations so far

pfVars   == <<pf, cur, more>>
ctxVars  == <<ctxValid, ctxUser, trapped>>
stallVars == <<pending, waitNop, waitCtx>>
crtcVars == <<crtcPending, crtcEnabled>>
irqVars  == <<pmcPending, irq>>
isrVars  == <<isr, seen>>
vars == <<pf, cur, more, kick, fifoAccess, ctxValid, ctxUser, trapped, pending,
          enabled, waitNop, waitCtx, pmcPending, pmcEnabled, crtcPending,
          crtcEnabled, irq, isr, seen, config>>

PfStates  == {"pusher", "parked", "pull", "nop_irq", "ctx_irq", "ctx_relock",
              "done", "stop", "abort_nop", "abort_channel"}
IsrStates == {"off", "pmc", "pgraph", "context", "control", "ack", "crtc"}

(* The guest pushes a method that needs a context only once it has one.    *)
StreamMethods(valid) == {m \in Method : valid \/ m.op = "SET_OBJECT"}

Init ==
    /\ pf = "parked" /\ cur \in StreamMethods(FALSE) /\ more = FALSE /\ kick = FALSE
    /\ fifoAccess = TRUE /\ ctxValid = FALSE /\ ctxUser = 0 /\ trapped = 0
    /\ pending = {} /\ enabled = PgBits /\ waitNop = FALSE /\ waitCtx = FALSE
    /\ pmcPending = {} /\ pmcEnabled = Units
    /\ crtcPending = FALSE /\ crtcEnabled = TRUE /\ irq = FALSE
    /\ isr = "off" /\ seen = {} /\ config = 0
-------------------------------------------------------------------------------
(* nv2a_update_irq: recompute the PMC bits from the units, then the line.  *)
(* pfifo.pending_interrupts is never set: its only producer is commented   *)
(* out (pfifo.c:447).                                                      *)

Raised(u) == \/ u = "PCRTC" /\ crtcPending /\ crtcEnabled
             \/ u = "PGRAPH" /\ pending \cap enabled # {}

UpdateIrq ==
    /\ pmcPending' = {u \in Units : Raised(u)'}
    /\ irq' = (pmcPending' # {} /\ pmcEnabled' # {})

MutNoKick == UNCHANGED kick
Kick == kick' = TRUE
-------------------------------------------------------------------------------
(* The PFIFO thread.                                                       *)

(* pfifo_pusher_should_stall, pfifo_puller_should_stall: pfifo.lock held.  *)
MutStallNoCtx == waitNop \/ ~fifoAccess
ShouldStall == waitNop \/ waitCtx \/ ~fifoAccess

(* The pusher loop ends; the thread parks unless it was kicked meanwhile.  *)
EndOfPass ==
    /\ IF kick THEN kick' = FALSE /\ pf' = "pusher"
               ELSE UNCHANGED kick /\ pf' = "parked"
    /\ UNCHANGED <<cur, more, fifoAccess, ctxVars, stallVars, enabled, irqVars,
                   pmcEnabled, crtcVars, isrVars, config>>

PusherStops == pf = "pusher" /\ (ShouldStall \/ ~more) /\ EndOfPass

Wake ==
    /\ pf = "parked" /\ kick
    /\ kick' = FALSE /\ pf' = "pusher"
    /\ UNCHANGED <<cur, more, fifoAccess, ctxVars, stallVars, enabled, irqVars,
                   pmcEnabled, crtcVars, isrVars, config>>

(* pfifo_run_puller has decided to execute and released pfifo.lock.        *)
PullerStart ==
    /\ pf = "pusher" /\ ~ShouldStall /\ more
    /\ pf' = "pull"
    /\ UNCHANGED <<cur, more, kick, fifoAccess, ctxVars, stallVars, enabled, irqVars,
                   pmcEnabled, crtcVars, isrVars, config>>

(* can_fifo_access under pgraph.lock: access was withdrawn in between.     *)
PullerDenied ==
    /\ pf = "pull" /\ ~fifoAccess
    /\ pf' = "stop"
    /\ UNCHANGED <<cur, more, kick, fifoAccess, ctxVars, stallVars, enabled, irqVars,
                   pmcEnabled, crtcVars, isrVars, config>>

OnChannel(ch) == ctxValid /\ ctxUser = ch

(* pgraph_method: assert(channel_valid), then the handler.                 *)
RunMethod ==
    /\ pf' = IF ctxValid THEN "done" ELSE "abort_channel"
    /\ UNCHANGED <<ctxVars, stallVars>>

(* pgraph_context_switch on a channel that is not loaded: the stall is     *)
(* flagged under pgraph.lock, the interrupt is raised after it.            *)
MutSwitchNoStall ==
    /\ trapped' = cur.ch /\ pf' = "ctx_irq"
    /\ UNCHANGED <<ctxValid, ctxUser, pending, waitNop, waitCtx>>
MutSwitchWrongChannel ==
    /\ trapped' = cur.ch + 1 /\ waitCtx' = TRUE /\ pf' = "ctx_irq"
    /\ UNCHANGED <<ctxValid, ctxUser, pending, waitNop>>
MutSwitchNoTrap ==
    /\ waitCtx' = TRUE /\ pf' = "ctx_irq"
    /\ UNCHANGED <<ctxVars, pending, waitNop>>
SwitchStart ==
    /\ trapped' = cur.ch /\ waitCtx' = TRUE /\ pf' = "ctx_irq"
    /\ UNCHANGED <<ctxValid, ctxUser, pending, waitNop>>

PullSetObject ==
    /\ pf = "pull" /\ fifoAccess /\ cur.op = "SET_OBJECT"
    /\ \/ OnChannel(cur.ch) /\ waitCtx
          /\ pf' = "stop" /\ UNCHANGED <<ctxVars, stallVars>>
       \/ OnChannel(cur.ch) /\ ~waitCtx /\ RunMethod
       \/ ~OnChannel(cur.ch) /\ SwitchStart
    /\ UNCHANGED <<cur, more, kick, fifoAccess, enabled, irqVars, pmcEnabled, crtcVars,
                   isrVars, config>>

PullOther ==
    /\ pf = "pull" /\ fifoAccess /\ cur.op = "OTHER"
    /\ RunMethod
    /\ UNCHANGED <<cur, more, kick, fifoAccess, enabled, irqVars, pmcEnabled, crtcVars,
                   isrVars, config>>

(* NV097_NO_OPERATION with a parameter: trap to the guest.                 *)
MutTrapNoStall ==
    /\ trapped' = ctxUser /\ pending' = pending \cup {"ERROR"} /\ pf' = "nop_irq"
    /\ UNCHANGED <<ctxValid, ctxUser, waitNop, waitCtx>>
TrapStart ==
    /\ trapped' = ctxUser /\ pending' = pending \cup {"ERROR"}
    /\ waitNop' = TRUE /\ pf' = "nop_irq"
    /\ UNCHANGED <<ctxValid, ctxUser, waitCtx>>

PullNop ==
    /\ pf = "pull" /\ fifoAccess /\ cur.op = "NO_OPERATION"
    /\ \/ ~ctxValid /\ pf' = "abort_channel" /\ UNCHANGED <<ctxVars, stallVars>>
       \/ ctxValid /\ "ERROR" \in pending
          /\ pf' = "abort_nop" /\ UNCHANGED <<ctxVars, stallVars>>
       \/ ctxValid /\ "ERROR" \notin pending /\ TrapStart
    /\ UNCHANGED <<cur, more, kick, fifoAccess, enabled, irqVars, pmcEnabled, crtcVars,
                   isrVars, config>>

NopIrq ==
    /\ pf = "nop_irq" /\ pf' = "done"
    /\ UNCHANGED <<cur, more, kick, fifoAccess, ctxVars, stallVars, enabled, pmcEnabled,
                   crtcVars, isrVars, config>>
    /\ UpdateIrq

(* The context switch interrupt, raised under the BQL alone.               *)
MutCtxIrqLost ==
    /\ pf = "ctx_irq" /\ pf' = "ctx_relock"
    /\ UNCHANGED <<cur, more, kick, fifoAccess, ctxVars, stallVars, enabled, pmcEnabled,
                   crtcVars, isrVars, config>>
    /\ UpdateIrq
CtxIrq ==
    /\ pf = "ctx_irq" /\ pf' = "ctx_relock"
    /\ pending' = pending \cup {"CONTEXT_SWITCH"}
    /\ UNCHANGED <<cur, more, kick, fifoAccess, ctxVars, waitNop, waitCtx, enabled,
                   pmcEnabled, crtcVars, isrVars, config>>
    /\ UpdateIrq

(* Back under pgraph.lock: a guest that was quick has already answered.    *)
CtxRelock ==
    /\ pf = "ctx_relock"
    /\ \/ waitCtx /\ pf' = "stop" /\ UNCHANGED <<ctxVars, stallVars>>
       \/ ~waitCtx /\ RunMethod
    /\ UNCHANGED <<cur, more, kick, fifoAccess, enabled, irqVars, pmcEnabled, crtcVars,
                   isrVars, config>>

(* pfifo.lock is held again: DMA_GET moves past an executed method.        *)
MethodDone ==
    /\ pf = "done" /\ pf' = "pusher"
    /\ cur' \in StreamMethods(ctxValid) /\ more' \in BOOLEAN
    /\ UNCHANGED <<kick, fifoAccess, ctxVars, stallVars, enabled, irqVars, pmcEnabled,
                   crtcVars, isrVars, config>>

MethodStopped == pf = "stop" /\ EndOfPass

PfStep == \/ PusherStops \/ Wake \/ PullerStart \/ PullerDenied \/ PullSetObject
          \/ PullOther \/ PullNop \/ NopIrq \/ CtxIrq \/ CtxRelock \/ MethodDone
          \/ MethodStopped
-------------------------------------------------------------------------------
(* Register accesses of the vCPU.  Those that take pfifo.lock wait while   *)
(* the PFIFO thread has it.                                                *)

PfifoLockFree == pf # "pusher"

(* pgraph_write NV_PGRAPH_INTR.                                            *)
StillNop(left) == waitNop /\ "ERROR" \in left
StillCtx(left) == waitCtx /\ "CONTEXT_SWITCH" \in left
PgraphWriteIntr(val) ==
    /\ PfifoLockFree
    /\ pending' = pending \ val
    /\ waitNop' = StillNop(pending \ val)
    /\ waitCtx' = StillCtx(pending \ val)
    /\ Kick
    /\ UNCHANGED <<pfVars, fifoAccess, ctxVars, enabled, irqVars, pmcEnabled, crtcVars>>

PgraphWriteIntrEn(val) ==
    /\ PfifoLockFree
    /\ enabled' = val
    /\ UNCHANGED <<pfVars, kick, fifoAccess, ctxVars, stallVars, irqVars, pmcEnabled,
                   crtcVars>>

PgraphWriteFifo(on) ==
    /\ PfifoLockFree
    /\ fifoAccess' = on /\ Kick
    /\ UNCHANGED <<pfVars, ctxVars, stallVars, enabled, irqVars, pmcEnabled, crtcVars>>

PgraphWriteCtxUser(ch) ==
    /\ PfifoLockFree
    /\ ctxUser' = ch
    /\ UNCHANGED <<pfVars, kick, fifoAccess, ctxValid, trapped, stallVars, enabled,
                   irqVars, pmcEnabled, crtcVars>>

PgraphWriteCtxControl(valid) ==
    /\ PfifoLockFree
    /\ ctxValid' = valid
    /\ UNCHANGED <<pfVars, kick, fifoAccess, ctxUser, trapped, stallVars, enabled,
                   irqVars, pmcEnabled, crtcVars>>

PmcWriteIntrEn(val) ==
    /\ pmcEnabled' = val
    /\ UNCHANGED <<pfVars, kick, fifoAccess, ctxVars, stallVars, enabled, crtcVars>>
    /\ UpdateIrq

(* pmc_write NV_PMC_INTR_0: the bits are cleared and then computed afresh. *)
PmcWriteIntr ==
    /\ UNCHANGED <<pfVars, kick, fifoAccess, ctxVars, stallVars, enabled, pmcEnabled,
                   crtcVars>>
    /\ UpdateIrq

PcrtcWriteIntr ==
    /\ crtcPending' = FALSE
    /\ UNCHANGED <<pfVars, kick, fifoAccess, ctxVars, stallVars, enabled, pmcEnabled,
                   crtcEnabled>>
    /\ UpdateIrq

PcrtcWriteIntrEn(val) ==
    /\ crtcEnabled' = val
    /\ UNCHANGED <<pfVars, kick, fifoAccess, ctxVars, stallVars, enabled, pmcEnabled,
                   crtcPending>>
    /\ UpdateIrq

(* pfifo_write NV_PFIFO_INTR_0 and NV_PFIFO_INTR_EN_0.                     *)
PfifoWriteIntr ==
    /\ PfifoLockFree
    /\ Kick
    /\ UNCHANGED <<pfVars, fifoAccess, ctxVars, stallVars, enabled, pmcEnabled, crtcVars>>
    /\ UpdateIrq

(* user_write NV_USER_DMA_PUT.                                             *)
UserWritePut ==
    /\ PfifoLockFree
    /\ ~more /\ more' = TRUE /\ Kick
    /\ UNCHANGED <<pf, cur, fifoAccess, ctxVars, stallVars, enabled, irqVars, pmcEnabled,
                   crtcVars>>

(* nv2a_vblank_timer_cb.                                                   *)
MutVblankSilent ==
    /\ crtcPending' = TRUE
    /\ UNCHANGED <<pfVars, kick, fifoAccess, ctxVars, stallVars, enabled, irqVars,
                   pmcEnabled, crtcEnabled, isrVars, config>>
VblankTimer ==
    /\ crtcPending' = TRUE
    /\ UNCHANGED <<pfVars, kick, fifoAccess, ctxVars, stallVars, enabled, pmcEnabled,
                   crtcEnabled, isrVars, config>>
    /\ UpdateIrq
-------------------------------------------------------------------------------
(* The guest driver, modelled from how the device answers it.  Its service *)
(* routine reads NV_PMC_INTR_0, handles PGRAPH before PCRTC, loads the     *)
(* channel NV_PGRAPH_TRAPPED_ADDR names before it acknowledges a context   *)
(* switch, and acknowledges the bits it read.                              *)

GuestKeeps == UNCHANGED <<pfVars, kick, fifoAccess, ctxVars, stallVars, enabled, irqVars,
                          pmcEnabled, crtcVars, config>>

IsrEnter == isr = "off" /\ irq /\ isr' = "pmc" /\ UNCHANGED seen /\ GuestKeeps

IsrReadPmc ==
    /\ isr = "pmc"
    /\ isr' = IF "PGRAPH" \in pmcPending THEN "pgraph"
              ELSE IF "PCRTC" \in pmcPending THEN "crtc" ELSE "off"
    /\ UNCHANGED seen /\ GuestKeeps

IsrReadPgraph ==
    /\ isr = "pgraph"
    /\ seen' = pending
    /\ isr' = IF "CONTEXT_SWITCH" \in pending THEN "context"
              ELSE IF pending # {} THEN "ack" ELSE "crtc"
    /\ GuestKeeps

IsrLoadUser == /\ isr = "context" /\ isr' = "control" /\ PgraphWriteCtxUser(trapped)
               /\ UNCHANGED <<seen, config>>
IsrLoadControl == /\ isr = "control" /\ isr' = "ack" /\ PgraphWriteCtxControl(TRUE)
                  /\ UNCHANGED <<seen, config>>
IsrAck == /\ isr = "ack" /\ isr' = "off" /\ PgraphWriteIntr(seen)
          /\ UNCHANGED <<seen, config>>
IsrCrtc == isr = "crtc" /\ isr' = "off" /\ PcrtcWriteIntr /\ UNCHANGED <<seen, config>>

IsrStep == \/ IsrEnter \/ IsrReadPmc \/ IsrReadPgraph \/ IsrLoadUser \/ IsrLoadControl
           \/ IsrAck \/ IsrCrtc

(* Outside the routine the driver pushes methods and, a bounded number of  *)
(* times, reconfigures; access to the FIFO it always gives back.           *)
GuestPut == isr = "off" /\ UserWritePut /\ UNCHANGED <<isrVars, config>>
GuestFifoOn == /\ isr = "off" /\ ~fifoAccess /\ PgraphWriteFifo(TRUE)
               /\ UNCHANGED <<isrVars, config>>
GuestConfig ==
    /\ isr = "off" /\ config < MaxConfig /\ config' = config + 1
    /\ \/ \E val \in SUBSET PgBits : PgraphWriteIntrEn(val)
       \/ fifoAccess /\ PgraphWriteFifo(FALSE)
       \/ \E val \in {{}, {"PCRTC"}, Units} : PmcWriteIntrEn(val)
       \/ PmcWriteIntr
       \/ \E val \in BOOLEAN : PcrtcWriteIntrEn(val)
       \/ PfifoWriteIntr
    /\ UNCHANGED isrVars
GuestBlindAck ==
    /\ BlindAck /\ isr = "off" /\ config < MaxConfig /\ config' = config + 1
    /\ \E val \in SUBSET PgBits : PgraphWriteIntr(val)
    /\ UNCHANGED isrVars
-------------------------------------------------------------------------------
(* nv2a_reset, once the FIFO is quiescent and the vCPU stopped: PFIFO and  *)
(* PGRAPH registers are zeroed, the stalls dropped, the pending interrupts *)
(* of PMC, PFIFO and PCRTC cleared; those of PGRAPH, and every enable, are *)
(* not touched.  The PCI core lowers the line (external).                  *)
Reset ==
    /\ pf = "parked"
    /\ cur' \in StreamMethods(FALSE) /\ more' = FALSE /\ Kick
    /\ fifoAccess' = FALSE /\ ctxValid' = FALSE /\ ctxUser' = 0 /\ trapped' = 0
    /\ waitNop' = FALSE /\ waitCtx' = FALSE
    /\ pmcPending' = {} /\ crtcPending' = FALSE /\ irq' = FALSE
    /\ isr' = "off" /\ seen' = {}
    /\ UNCHANGED <<pf, pending, enabled, pmcEnabled, crtcEnabled, config>>

Next == \/ PfStep \/ VblankTimer \/ IsrStep \/ GuestPut \/ GuestFifoOn \/ GuestConfig
        \/ GuestBlindAck
NextWithReset == Next \/ Reset

Spec == Init /\ [][Next]_vars
SpecWithReset == Init /\ [][NextWithReset]_vars

(* The PFIFO thread is always scheduled, the timer re-arms itself, and the *)
(* guest services its interrupts.  Between two interrupts the guest's own  *)
(* code runs on, so it gets to re-enable the FIFO: strong fairness.        *)
FairSpec == /\ Spec
            /\ WF_vars(PfStep) /\ WF_vars(VblankTimer)
            /\ WF_vars(IsrStep) /\ SF_vars(GuestFifoOn)
-------------------------------------------------------------------------------
(* Properties.                                                             *)

(* Every variable keeps its type; no register of the model leaves the       *)
(* values the code can put there.                                          *)
TypeOK ==
    /\ pf \in PfStates /\ cur \in Method /\ more \in BOOLEAN /\ kick \in BOOLEAN
    /\ fifoAccess \in BOOLEAN /\ ctxValid \in BOOLEAN
    /\ ctxUser \in Channels /\ trapped \in Channels
    /\ pending \in SUBSET PgBits /\ enabled \in SUBSET PgBits
    /\ waitNop \in BOOLEAN /\ waitCtx \in BOOLEAN
    /\ pmcPending \in SUBSET Units /\ pmcEnabled \in SUBSET Units
    /\ crtcPending \in BOOLEAN /\ crtcEnabled \in BOOLEAN /\ irq \in BOOLEAN
    /\ isr \in IsrStates /\ seen \in SUBSET PgBits /\ config \in 0..MaxConfig

(* The stalls always have a cause the guest can acknowledge: a GPU that    *)
(* waits for a software method has NV_PGRAPH_INTR_ERROR pending, and one   *)
(* that waits for a context switch has NV_PGRAPH_INTR_CONTEXT_SWITCH       *)
(* pending or is on its way to the BQL to raise it.  pgraph_write releases *)
(* a stall only through those bits, so a stall without its bit would be    *)
(* one that only an unrelated acknowledgement ends.                        *)
StallHasCause ==
    /\ waitNop => "ERROR" \in pending
    /\ waitCtx => "CONTEXT_SWITCH" \in pending \/ pf = "ctx_irq"

(* The assertions of the PFIFO thread hold: no software method traps while *)
(* the previous trap is unacknowledged (pgraph.c:941).                     *)
TrapAssertHolds == pf # "abort_nop"

(* No method reaches pgraph_method without a valid channel (pgraph.c:735). *)
ChannelAssertHolds == pf # "abort_channel"

(* The service routine finds the right channel in NV_PGRAPH_TRAPPED_ADDR:  *)
(* from the moment the stall is flagged until it is released, whatever     *)
(* else is trapped or serviced meanwhile, the register names the channel   *)
(* of the method that is waiting.                                          *)
TrapNamesWaiter == waitCtx => cur.op = "SET_OBJECT" /\ trapped = cur.ch

(* A SET_OBJECT takes effect only on the channel of its RAMHT entry, on    *)
(* the direct path and after a context switch alike, although the switch   *)
(* releases pgraph.lock twice before the method runs.                      *)
OwnChannelStep ==
    (pf # "done" /\ pf' = "done" /\ cur.op = "SET_OBJECT") => OnChannel(cur.ch)
OwnChannel == [][OwnChannelStep]_vars

(* What the PMC register shows of PGRAPH disagrees with PGRAPH itself.     *)
PmcStale == ("PGRAPH" \in pmcPending) # (pending \cap enabled # {})

(* pgraph_write changes the pending and enabled interrupts of PGRAPH and   *)
(* leaves PMC and the line alone, so they can be wrong in both directions. *)
(* They do not stay wrong: the vertical blank timer recomputes them.       *)
PmcCatchesUp == PmcStale ~> ~PmcStale

Masked(bit) == bit \notin enabled \/ pmcEnabled = {}

(* Every stall ends: the interrupt reaches the guest, its acknowledgement  *)
(* releases the stall, and the kick that comes with it is not lost while   *)
(* the PFIFO thread is between its locks, so that the thread pulls again.  *)
StallsEnd ==
    /\ waitNop ~> (~waitNop \/ Masked("ERROR"))
    /\ waitCtx ~> (~waitCtx \/ Masked("CONTEXT_SWITCH"))
    /\ (pf = "parked" /\ more /\ fifoAccess) ~>
          (pf = "pull" \/ Masked("ERROR") \/ Masked("CONTEXT_SWITCH"))
===============================================================================
