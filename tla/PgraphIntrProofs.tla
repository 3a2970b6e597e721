-------------------------- MODULE PgraphIntrProofs --------------------------
(***************************************************************************)
(* Proofs about PgraphIntr: for every set of channels, every sequence of   *)
(* methods and register accesses and every interleaving of the PFIFO       *)
(* thread, the timer and the guest.                                        *)
(***************************************************************************)
EXTENDS PgraphIntr, TLAPS

(* A software-method stall and its interrupt bit come and go together.     *)
NopInv == waitNop <=> "ERROR" \in pending

(* So do a context-switch stall and its bit, but for the window in which   *)
(* the PFIFO thread has flagged the stall and not yet raised the bit.      *)
CtxInv == /\ waitCtx => "CONTEXT_SWITCH" \in pending \/ pf = "ctx_irq"
          /\ "CONTEXT_SWITCH" \in pending => waitCtx

(* The PFIFO thread is past its stall checks: nothing is unacknowledged.   *)
PullInv ==
    /\ pf \in {"pull", "ctx_irq", "ctx_relock"} => ~waitNop
    /\ pf \in {"ctx_irq", "ctx_relock"} => cur.op = "SET_OBJECT"
    /\ pf = "nop_irq" => cur.op = "NO_OPERATION"
    /\ pf = "pull" => ~waitCtx
    /\ pf \in {"done", "nop_irq"} => ~waitCtx
    /\ pf = "ctx_irq" => waitCtx /\ "CONTEXT_SWITCH" \notin pending

(* What the service routine read is still pending, and a context it has    *)
(* loaded is the one that was asked for.                                   *)
IsrInv ==
    /\ isr \in {"context", "control", "ack"} => seen \subseteq pending /\ seen # {}
    /\ isr \in {"context", "control"} => "CONTEXT_SWITCH" \in seen
    /\ isr = "control" => ctxUser = trapped
    /\ isr = "ack" /\ "CONTEXT_SWITCH" \in seen => ctxValid /\ ctxUser = trapped

(* A context switch answered before the thread is back under its lock.     *)
SwitchInv == pf = "ctx_relock" /\ ~waitCtx => OnChannel(cur.ch)

StreamInv == cur.op # "SET_OBJECT" => ctxValid

IInv == /\ TypeOK /\ NopInv /\ CtxInv /\ PullInv /\ IsrInv /\ SwitchInv /\ StreamInv
        /\ TrapNamesWaiter /\ TrapAssertHolds /\ ChannelAssertHolds
-----------------------------------------------------------------------------
(* Type correctness, whatever the guest does: every step of the PFIFO      *)
(* thread, the timer, the guest and nv2a_update_irq keeps the registers    *)
(* and flags in range.                                                     *)

(* The power-on registers have their types.                               *)
LEMMA InitTypeOK == Init => TypeOK
<1> SUFFICES ASSUME Init PROVE TypeOK
  OBVIOUS
<1>1. cur \in Method /\ config \in 0 .. MaxConfig
  BY GuestAssumption DEF Init, StreamMethods
<1>2. /\ more \in BOOLEAN /\ kick \in BOOLEAN /\ fifoAccess \in BOOLEAN /\ ctxValid \in BOOLEAN
      /\ waitNop \in BOOLEAN /\ waitCtx \in BOOLEAN /\ crtcPending \in BOOLEAN
      /\ crtcEnabled \in BOOLEAN /\ irq \in BOOLEAN
  BY Zenon DEF Init
<1>3. QED
  BY <1>1, <1>2, ChannelsAssumption DEF Init, TypeOK, PfStates, IsrStates

(* Every action keeps them: one step per operation of the PFIFO thread,    *)
(* the service routine and the guest.                                      *)
LEMMA NextTypeOK ==
  ASSUME TypeOK, [Next]_vars
  PROVE  TypeOK'
<1> USE ChannelsAssumption, GuestAssumption
    DEF TypeOK, PfStates, IsrStates, PgBits, Units, Method, pfVars, ctxVars, stallVars,
        crtcVars, irqVars, isrVars
<1>1. CASE PusherStops
  <2>1. kick' \in BOOLEAN
    BY <1>1, Zenon DEF PusherStops, EndOfPass
  <2>2. QED
    BY <1>1, <2>1 DEF PusherStops, EndOfPass
<1>2. CASE Wake
  <2>1. kick' \in BOOLEAN
    BY <1>2, Zenon DEF Wake
  <2>2. QED
    BY <1>2, <2>1 DEF Wake
<1>3. CASE PullerStart
  BY <1>3 DEF PullerStart, ShouldStall
<1>4. CASE PullerDenied
  BY <1>4 DEF PullerDenied
<1>5. CASE PullSetObject
  <2>1. CASE OnChannel(cur.ch)
    BY <1>5, <2>1 DEF PullSetObject, RunMethod
  <2>2. CASE ~OnChannel(cur.ch)
    BY <1>5, <2>2 DEF PullSetObject, SwitchStart
  <2>3. QED
    BY <2>1, <2>2
<1>6. CASE PullOther
  BY <1>6 DEF PullOther, RunMethod
<1>7. CASE PullNop
  BY <1>7 DEF PullNop, TrapStart
<1>8. CASE NopIrq
  BY <1>8 DEF NopIrq, UpdateIrq
<1>9. CASE CtxIrq
  BY <1>9 DEF CtxIrq, UpdateIrq
<1>10. CASE CtxRelock
  <2>1. pf' \in PfStates
    BY <1>10 DEF CtxRelock, RunMethod
  <2>2. UNCHANGED <<cur, more, kick, fifoAccess, ctxVars, stallVars, enabled, irqVars,
                    pmcEnabled, crtcVars, isrVars, config>>
    BY <1>10 DEF CtxRelock, RunMethod
  <2>3. QED
    BY <2>1, <2>2
<1>11. CASE MethodDone
  BY <1>11 DEF MethodDone, StreamMethods
<1>12. CASE MethodStopped
  <2>1. kick' \in BOOLEAN
    BY <1>12, Zenon DEF MethodStopped, EndOfPass
  <2>2. QED
    BY <1>12, <2>1 DEF MethodStopped, EndOfPass
<1>13. CASE VblankTimer
  BY <1>13 DEF VblankTimer, UpdateIrq
<1>14. CASE IsrEnter
  BY <1>14 DEF IsrEnter, GuestKeeps
<1>15. CASE IsrReadPmc
  BY <1>15 DEF IsrReadPmc, GuestKeeps
<1>16. CASE IsrReadPgraph
  BY <1>16 DEF IsrReadPgraph, GuestKeeps
<1>17. CASE IsrLoadUser
  BY <1>17 DEF IsrLoadUser, PgraphWriteCtxUser
<1>18. CASE IsrLoadControl
  BY <1>18 DEF IsrLoadControl, PgraphWriteCtxControl
<1>19. CASE IsrAck
  BY <1>19 DEF IsrAck, PgraphWriteIntr, Kick, StillNop, StillCtx
<1>20. CASE IsrCrtc
  <2>1. crtcPending' \in BOOLEAN /\ irq' \in BOOLEAN
    BY <1>20, Zenon DEF IsrCrtc, PcrtcWriteIntr, UpdateIrq
  <2>2. QED
    BY <1>20, <2>1 DEF IsrCrtc, PcrtcWriteIntr, UpdateIrq
<1>21. CASE GuestPut
  BY <1>21 DEF GuestPut, UserWritePut, Kick
<1>22. CASE GuestFifoOn
  BY <1>22 DEF GuestFifoOn, PgraphWriteFifo, Kick
<1>23. CASE GuestConfig
  <2> config' \in 0 .. MaxConfig /\ UNCHANGED isrVars
    BY <1>23 DEF GuestConfig
  <2>1. CASE \E val \in SUBSET PgBits : PgraphWriteIntrEn(val)
    BY <2>1 DEF PgraphWriteIntrEn
  <2>2. CASE fifoAccess /\ PgraphWriteFifo(FALSE)
    <3>1. fifoAccess' \in BOOLEAN /\ kick' \in BOOLEAN
      BY <2>2, Zenon DEF PgraphWriteFifo, Kick
    <3>2. QED
      BY <2>2, <3>1 DEF PgraphWriteFifo
  <2>3. CASE \E val \in {{}, {"PCRTC"}, Units} : PmcWriteIntrEn(val)
    BY <2>3 DEF PmcWriteIntrEn, UpdateIrq
  <2>4. CASE PmcWriteIntr
    BY <2>4 DEF PmcWriteIntr, UpdateIrq
  <2>5. CASE \E val \in BOOLEAN : PcrtcWriteIntrEn(val)
    BY <2>5 DEF PcrtcWriteIntrEn, UpdateIrq
  <2>6. CASE PfifoWriteIntr
    BY <2>6 DEF PfifoWriteIntr, UpdateIrq, Kick
  <2>7. QED
    BY <1>23, <2>1, <2>2, <2>3, <2>4, <2>5, <2>6 DEF GuestConfig
<1>24. CASE GuestBlindAck
  BY <1>24 DEF GuestBlindAck, PgraphWriteIntr, Kick, StillNop, StillCtx
<1>25. CASE UNCHANGED vars
  BY <1>25 DEF vars
<1>26. QED
  BY <1>1, <1>2, <1>3, <1>4, <1>5, <1>6, <1>7, <1>8, <1>9, <1>10, <1>11, <1>12, <1>13,
     <1>14, <1>15, <1>16, <1>17, <1>18, <1>19, <1>20, <1>21, <1>22, <1>23, <1>24, <1>25
     DEF Next, PfStep, IsrStep

(* Every register and flag of PMC, PCRTC, PFIFO and PGRAPH that the model  *)
(* keeps stays in its range, for any channels and any guest.               *)
THEOREM TypeCorrect == Spec => []TypeOK
<1>1. Init => TypeOK
  BY InitTypeOK
<1>2. TypeOK /\ [Next]_vars => TypeOK'
  BY NextTypeOK
<1>3. QED
  BY <1>1, <1>2, PTL DEF Spec
-----------------------------------------------------------------------------
(* The initial states satisfy the invariant.                               *)
LEMMA InitIInv == Init => IInv
  BY InitTypeOK, ChannelsAssumption
     DEF Init, IInv, NopInv, CtxInv, PullInv, IsrInv, SwitchInv, StreamInv,
         TrapNamesWaiter, TrapAssertHolds, ChannelAssertHolds, StreamMethods, Method

(* Every step preserves it, as long as the guest acknowledges only what it *)
(* has read.                                                               *)
LEMMA NextIInv ==
  ASSUME ~BlindAck, IInv, [Next]_vars
  PROVE  IInv'
<1> TypeOK /\ TypeOK'
  BY NextTypeOK DEF IInv
<1> USE DEF IInv, NopInv, CtxInv, PullInv, IsrInv, SwitchInv, StreamInv,
            TrapNamesWaiter, TrapAssertHolds, ChannelAssertHolds, OnChannel,
            pfVars, ctxVars, stallVars, crtcVars, irqVars, isrVars
<1>1. CASE PusherStops
  BY <1>1 DEF PusherStops, EndOfPass
<1>2. CASE Wake
  BY <1>2 DEF Wake
<1>3. CASE PullerStart
  BY <1>3 DEF PullerStart, ShouldStall
<1>4. CASE PullerDenied
  BY <1>4 DEF PullerDenied
<1>5. CASE PullSetObject
  BY <1>5 DEF PullSetObject, RunMethod, SwitchStart
<1>6. CASE PullOther
  BY <1>6 DEF PullOther, RunMethod
<1>7. CASE PullNop
  <2>1. ctxValid /\ "ERROR" \notin pending
    BY <1>7 DEF PullNop
  <2>2. TrapStart /\ UNCHANGED <<cur, isrVars>>
    BY <1>7, <2>1 DEF PullNop
  <2>3. NopInv' /\ CtxInv' /\ PullInv'
    BY <1>7, <2>2 DEF PullNop, TrapStart
  <2>4. IsrInv' /\ SwitchInv' /\ StreamInv'
    BY <1>7, <2>2 DEF PullNop, TrapStart
  <2>5. TrapNamesWaiter' /\ TrapAssertHolds' /\ ChannelAssertHolds'
    BY <1>7, <2>2 DEF PullNop, TrapStart
  <2>6. QED
    BY <2>3, <2>4, <2>5
<1>8. CASE NopIrq
  BY <1>8 DEF NopIrq, UpdateIrq
<1>9. CASE CtxIrq
  BY <1>9 DEF CtxIrq, UpdateIrq
<1>10. CASE CtxRelock
  BY <1>10 DEF CtxRelock, RunMethod
<1>11. CASE MethodDone
  BY <1>11 DEF MethodDone, StreamMethods
<1>12. CASE MethodStopped
  BY <1>12 DEF MethodStopped, EndOfPass
<1>13. CASE VblankTimer
  BY <1>13 DEF VblankTimer, UpdateIrq
<1>14. CASE IsrEnter
  BY <1>14 DEF IsrEnter, GuestKeeps
<1>15. CASE IsrReadPmc
  BY <1>15 DEF IsrReadPmc, GuestKeeps
<1>16. CASE IsrReadPgraph
  BY <1>16 DEF IsrReadPgraph, GuestKeeps
<1>17. CASE IsrLoadUser
  BY <1>17 DEF IsrLoadUser, PgraphWriteCtxUser
<1>18. CASE IsrLoadControl
  BY <1>18 DEF IsrLoadControl, PgraphWriteCtxControl
<1>19. CASE IsrAck
  <2>1. /\ seen \subseteq pending /\ pending' = pending \ seen
        /\ waitNop' = StillNop(pending') /\ waitCtx' = StillCtx(pending')
        /\ isr' = "off" /\ UNCHANGED <<pfVars, ctxVars>>
    BY <1>19 DEF IsrAck, PgraphWriteIntr
  <2>2. NopInv'
    BY <2>1 DEF StillNop
  <2>3. pf # "ctx_irq"
    <3>1. SUFFICES ASSUME pf = "ctx_irq" PROVE FALSE
      OBVIOUS
    <3>2. "ERROR" \notin pending /\ "CONTEXT_SWITCH" \notin pending
      BY <3>1
    <3>3. pending = {} /\ seen = {}
      BY <2>1, <3>2 DEF TypeOK, PgBits
    <3>4. QED
      BY <1>19, <3>3 DEF IsrAck
  <2>4. CtxInv' /\ PullInv'
    BY <2>1, <2>3 DEF StillCtx, StillNop
  <2>5. IsrInv' /\ StreamInv'
    BY <2>1
  <2>6. SwitchInv'
    BY <1>19, <2>1 DEF IsrAck, StillCtx
  <2>7. TrapNamesWaiter' /\ TrapAssertHolds' /\ ChannelAssertHolds'
    BY <2>1 DEF StillCtx
  <2>8. QED
    BY <2>2, <2>4, <2>5, <2>6, <2>7
<1>20. CASE IsrCrtc
  BY <1>20 DEF IsrCrtc, PcrtcWriteIntr, UpdateIrq
<1>21. CASE GuestPut
  BY <1>21 DEF GuestPut, UserWritePut, Kick
<1>22. CASE GuestFifoOn
  BY <1>22 DEF GuestFifoOn, PgraphWriteFifo, Kick
<1>23. CASE GuestConfig
  BY <1>23 DEF GuestConfig, PgraphWriteIntrEn, PgraphWriteFifo, PmcWriteIntrEn, PmcWriteIntr,
                   PcrtcWriteIntrEn, PfifoWriteIntr, UpdateIrq, Kick
<1>24. CASE GuestBlindAck
  BY <1>24 DEF GuestBlindAck, PgraphWriteIntr, Kick, StillNop, StillCtx
<1>25. CASE UNCHANGED vars
  BY <1>25 DEF vars
<1>26. QED
  BY <1>1, <1>2, <1>3, <1>4, <1>5, <1>6, <1>7, <1>8, <1>9, <1>10, <1>11, <1>12, <1>13,
     <1>14, <1>15, <1>16, <1>17, <1>18, <1>19, <1>20, <1>21, <1>22, <1>23, <1>24, <1>25
     DEF Next, PfStep, IsrStep
-----------------------------------------------------------------------------
(* With a guest that acknowledges what it has read, pgraph.c's assertions  *)
(* hold (941: no trap on top of an unacknowledged one; 735: no method      *)
(* without a channel) and NV_PGRAPH_TRAPPED_ADDR names the waiting method's *)
(* channel for as long as the switch is outstanding.                       *)
THEOREM AssertsHold ==
  ASSUME ~BlindAck
  PROVE  Spec => [](TrapAssertHolds /\ ChannelAssertHolds /\ TrapNamesWaiter)
<1>1. Init => IInv
  BY InitIInv
<1>2. IInv /\ [Next]_vars => IInv'
  BY NextIInv
<1>3. IInv => TrapAssertHolds /\ ChannelAssertHolds /\ TrapNamesWaiter
  BY DEF IInv
<1>4. QED
  BY <1>1, <1>2, <1>3, PTL DEF Spec

(* pgraph_method is never entered without a valid channel, for any set of  *)
(* channels (assert(channel_valid), pgraph.c:735).                         *)
THEOREM NoMethodWithoutChannel ==
  ASSUME ~BlindAck
  PROVE  Spec => []ChannelAssertHolds
BY AssertsHold, PTL

(* NV_PGRAPH_TRAPPED_ADDR names the waiting method's channel for as long   *)
(* as its context switch is outstanding.                                   *)
THEOREM TrappedAddrNamesWaiter ==
  ASSUME ~BlindAck
  PROVE  Spec => []TrapNamesWaiter
BY AssertsHold, PTL

(* A SET_OBJECT takes effect on the channel its RAMHT entry names, although *)
(* pgraph_context_switch gives up pgraph.lock between the check and the use. *)

(* In a state of the invariant, a step that completes a SET_OBJECT         *)
(* completes it on the loaded channel.                                     *)
LEMMA OwnChannelAtStep ==
  ASSUME ~BlindAck, IInv, [Next]_vars
  PROVE  [OwnChannelStep]_vars
<1> SUFFICES ASSUME pf # "done", pf' = "done", cur.op = "SET_OBJECT", Next
             PROVE  OnChannel(cur.ch)
  BY DEF OwnChannelStep, vars
<1> USE DEF pfVars
<1>1. CASE PfStep
  <2>1. PullSetObject \/ CtxRelock \/ NopIrq \/ PullOther
    BY <1>1 DEF PfStep, PusherStops, EndOfPass, Wake, PullerStart, PullerDenied, PullNop,
                TrapStart, CtxIrq, MethodDone, MethodStopped
  <2>2. CASE PullSetObject
    BY <2>2 DEF PullSetObject, RunMethod, SwitchStart
  <2>3. CASE CtxRelock
    BY <2>3 DEF CtxRelock, RunMethod, IInv, SwitchInv
  <2>4. CASE NopIrq
    BY <2>4 DEF NopIrq, IInv, PullInv
  <2>5. CASE PullOther
    BY <2>5 DEF PullOther
  <2>6. QED
    BY <2>1, <2>2, <2>3, <2>4, <2>5
<1>2. CASE ~PfStep
  <2>1. UNCHANGED pf
    BY <1>2 DEF Next, VblankTimer, IsrStep, IsrEnter, IsrReadPmc, IsrReadPgraph, IsrLoadUser,
                IsrLoadControl, IsrAck, IsrCrtc, GuestKeeps, GuestPut, GuestFifoOn, GuestConfig,
                GuestBlindAck, PgraphWriteCtxUser, PgraphWriteCtxControl, PgraphWriteIntr,
                PcrtcWriteIntr, UserWritePut, PgraphWriteFifo, PgraphWriteIntrEn,
                PmcWriteIntrEn, PmcWriteIntr, PcrtcWriteIntrEn, PfifoWriteIntr
  <2>2. QED
    BY <2>1
<1>3. QED
  BY <1>1, <1>2

(* pgraph_method runs a SET_OBJECT only while CTX_USER names the channel   *)
(* of its RAMHT entry, directly or after the switch it waited for.         *)
THEOREM SetObjectOnOwnChannel ==
  ASSUME ~BlindAck
  PROVE  Spec => OwnChannel
<1>1. Init => IInv
  BY InitIInv
<1>2. IInv /\ [Next]_vars => IInv'
  BY NextIInv
<1>3. IInv /\ [Next]_vars => [OwnChannelStep]_vars
  BY OwnChannelAtStep
<1>4. QED
  BY <1>1, <1>2, <1>3, PTL DEF Spec, OwnChannel
-----------------------------------------------------------------------------
(* Every stall has the pending bit that ends it, or the thread that will   *)
(* raise it, for a guest that acknowledges anything at any time and across *)
(* resets: the order in which pgraph_context_switch sets the flag and the  *)
(* bit, and in which pgraph_write tests them, never strands a stall.       *)

(* Every step, nv2a_reset included, preserves it together with the types.  *)
LEMMA StallHasCauseStep ==
  ASSUME StallHasCause, [NextWithReset]_vars
  PROVE  StallHasCause'
<1> USE DEF StallHasCause, pfVars, stallVars
<1>1. CASE PfStep
  <2>1. CASE PullSetObject
    BY <2>1 DEF PullSetObject, RunMethod, SwitchStart
  <2>2. CASE PullNop
    BY <2>2 DEF PullNop, TrapStart
  <2>3. CASE CtxIrq
    BY <2>3 DEF CtxIrq
  <2>4. CASE CtxRelock \/ PullOther
    BY <2>4 DEF CtxRelock, PullOther, RunMethod
  <2>5. CASE PusherStops \/ MethodStopped \/ Wake \/ PullerStart \/ PullerDenied
    BY <2>5 DEF PusherStops, MethodStopped, EndOfPass, Wake, PullerStart, PullerDenied
  <2>6. CASE NopIrq \/ MethodDone
    BY <2>6 DEF NopIrq, MethodDone
  <2>7. QED
    BY <1>1, <2>1, <2>2, <2>3, <2>4, <2>5, <2>6 DEF PfStep
<1>2. ASSUME NEW val, PgraphWriteIntr(val)
      PROVE  StallHasCause'
  BY <1>2 DEF PgraphWriteIntr, StillNop, StillCtx
<1>3. CASE IsrAck \/ GuestBlindAck
  BY <1>2, <1>3 DEF IsrAck, GuestBlindAck
<1>4. CASE UNCHANGED <<pf, stallVars>>
  BY <1>4
<1>5. CASE Reset
  BY <1>5 DEF Reset
<1>6. UNCHANGED <<pf, stallVars>> \/ PfStep \/ IsrAck \/ GuestBlindAck \/ Reset
  <2>1. CASE GuestConfig
    BY <2>1 DEF GuestConfig, PgraphWriteFifo, PgraphWriteIntrEn, PmcWriteIntrEn,
                PmcWriteIntr, PcrtcWriteIntrEn, PfifoWriteIntr
  <2>2. CASE IsrStep
    BY <2>2 DEF IsrStep, IsrEnter, IsrReadPmc, IsrReadPgraph, IsrLoadUser, IsrLoadControl,
                IsrCrtc, GuestKeeps, PgraphWriteCtxUser, PgraphWriteCtxControl,
                PcrtcWriteIntr
  <2>3. CASE VblankTimer \/ GuestPut \/ GuestFifoOn \/ UNCHANGED vars
    BY <2>3 DEF VblankTimer, GuestPut, UserWritePut, GuestFifoOn, PgraphWriteFifo, vars
  <2>4. QED
    BY <2>1, <2>2, <2>3 DEF Next, NextWithReset
<1>7. QED
  BY <1>1, <1>3, <1>4, <1>5, <1>6

(* A stalled PGRAPH always has pending, or is about to raise, the          *)
(* interrupt whose acknowledgement pgraph_write turns into its release.    *)
THEOREM StallsHaveCauses == SpecWithReset => []StallHasCause
<1>1. Init => StallHasCause
  BY DEF Init, StallHasCause
<1>2. StallHasCause /\ [NextWithReset]_vars => StallHasCause'
  BY StallHasCauseStep
<1>3. QED
  BY <1>1, <1>2, PTL DEF SpecWithReset
=============================================================================
