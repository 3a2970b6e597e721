--------------------------------- MODULE NvNet ---------------------------------
(* The nForce Ethernet controller (hw/xbox/mcpx/nvnet/nvnet.c): descriptor   *)
(* rings, interrupt status and line, the link and its negotiation, reset and *)
(* snapshots.  Every handler runs under the big QEMU lock, so the handlers   *)
(* of the guest's writes, of the host's packets, of the timer and of the     *)
(* user interface's link changes are the steps.                              *)
EXTENDS Naturals, Sequences

CONSTANTS
    TxSize, RxSize,   \* descriptors in the rings
    Lens,             \* the packets the guest sends: the number of parts of each
    MaxHeld,          \* bound on the packets the network queue holds back
    Torn,             \* snapshots are taken in the middle of a packet too
    LiveClear         \* the driver writes BIT1 at any time, not only to open the device

ASSUME SizesAssumption == {TxSize, RxSize} \subseteq Nat \ {0} /\ MaxHeld \in Nat
ASSUME LensAssumption == Lens \in Seq(Nat \ {0})
ASSUME FlagsAssumption == {Torn, LiveClear} \subseteq BOOLEAN

Bits == {"RX", "TX", "MII"}
Part == [pkt : 1 .. Len(Lens), no : Nat \ {0}]
None == [pkt |-> 0, no |-> 0]
Whole(k) == [i \in 1 .. Lens[k] |-> [pkt |-> k, no |-> i]]
Last(d) == d.no = Lens[d.pkt]

VARIABLES
    tx,     \* the TX ring: what a descriptor with NV_TX_VALID holds, or None
    next,   \* TX_RING_NEXT_DESC
    buf,    \* tx_dma_buf up to tx_dma_buf_offset
    sent,   \* the parts of the last packet given to the network
    rx,     \* the RX ring: "avail" (NV_RX_AVAIL), or "full"
    rxNext, \* RX_RING_NEXT_DESC
    on,     \* of "tx", "rx", "dma": what is started; "dma" is BIT2 clear
    irq,    \* [status, mask, line]: the two registers and the PCI line
    phy,    \* [link, comp, auto]: LINK_ST, AN_COMP, AUTOEN
    down,   \* link_down of the net client
    timer,  \* autoneg_timer is running
    held,   \* packets in the network queue
    guest   \* the driver: [pc, seen, pkt, no, tail, take]

nic  == <<tx, next, buf, sent, rx, rxNext>>
vars == <<nic, on, irq, phy, down, timer, held, guest>>

Idle == [pc |-> "idle", seen |-> {}, pkt |-> 1, no |-> 1, tail |-> 0, take |-> 0]
NoIrq == [status |-> {}, mask |-> {}, line |-> FALSE]

Init ==
    /\ tx = [i \in 0 .. TxSize - 1 |-> None] /\ next = 0 /\ buf = <<>> /\ sent = <<>>
    /\ rx = [i \in 0 .. RxSize - 1 |-> "avail"] /\ rxNext = 0
    /\ on = {} /\ irq = NoIrq /\ held = 0 /\ guest = Idle
    /\ phy = [link |-> TRUE, comp |-> TRUE, auto |-> TRUE] /\ down = FALSE /\ timer = FALSE
-------------------------------------------------------------------------------
(* update_irq and set_intr_status.                                           *)
UpdateIrq(q) == [q EXCEPT !.line = q.status \cap q.mask # {}]
SetIntrStatusQuiet(q, bits) == [q EXCEPT !.status = @ \cup bits]
SetIntrStatus(q, bits) == UpdateIrq([q EXCEPT !.status = @ \cup bits])

(* Writes to IRQ_STATUS and IRQ_MASK.                                        *)
WriteStatusAll(q, bits) == UpdateIrq([q EXCEPT !.status = {}])
WriteStatus(q, bits) == UpdateIrq([q EXCEPT !.status = @ \ bits])
WriteMask(q, bits) == UpdateIrq([q EXCEPT !.mask = bits])
-------------------------------------------------------------------------------
(* Transmission.  dma_packet_from_guest takes descriptors up to one that     *)
(* ends a packet, or to one that is not valid.                               *)

TxAt(i) == tx[(next + i) % TxSize]
Ends(n) == n > 0 /\ Last(TxAt(n - 1))
Taken(n) ==
    /\ \A i \in 0 .. n - 1 : TxAt(i) # None
    /\ \A i \in 1 .. n - 1 : ~Ends(i)
    /\ Ends(n) \/ n = TxSize \/ TxAt(n) = None
CanTransmit(started) == {"tx", "dma"} \subseteq started /\ phy.link

DmaPacketFromGuestKeepsBuf(n, parts, ends) ==
    /\ sent' = IF ends THEN parts ELSE sent
    /\ buf' = parts
    /\ tx' = [i \in DOMAIN tx |-> IF (i + TxSize - next) % TxSize < n THEN None ELSE tx[i]]
    /\ next' = (next + n) % TxSize
    /\ irq' = IF ends THEN SetIntrStatus(irq, {"TX"}) ELSE irq
DmaPacketFromGuest(n, parts, ends) ==
    /\ sent' = IF ends THEN parts ELSE sent
    /\ buf' = IF ends THEN <<>> ELSE parts
    /\ tx' = [i \in DOMAIN tx |-> IF (i + TxSize - next) % TxSize < n THEN None ELSE tx[i]]
    /\ next' = (next + n) % TxSize
    /\ irq' = IF ends THEN SetIntrStatus(irq, {"TX"}) ELSE irq

(* TX_RX_CONTROL with KICK; BIT2 is clear in what is written.                *)
Kick(n) ==
    /\ Taken(n) /\ on' = on \cup {"dma"} /\ UNCHANGED <<rx, rxNext, phy, down, timer, held>>
    /\ IF CanTransmit(on')
       THEN DmaPacketFromGuest(n, buf \o [i \in 1 .. n |-> TxAt(i - 1)], Ends(n))
       ELSE UNCHANGED <<tx, next, buf, sent, irq>>
-------------------------------------------------------------------------------
(* Reception.  The network delivers a packet if nvnet_can_receive, then what *)
(* its queue holds back; what finds no descriptor is dropped.                *)

RxAvail(i) == rx[(rxNext + i) % RxSize] = "avail"
CanReceive == {"rx", "dma"} \subseteq on /\ phy.link /\ RxAvail(0)

(* dma_packet_to_guest for n packets in a row.                               *)
DmaPacketToGuestNoWrap(n) ==
    /\ rx' = [i \in DOMAIN rx |-> IF (i + RxSize - rxNext) % RxSize < n THEN "full" ELSE rx[i]]
    /\ rxNext' = rxNext + n
    /\ irq' = IF n > 0 THEN SetIntrStatus(irq, {"RX"}) ELSE irq
DmaPacketToGuest(n) ==
    /\ rx' = [i \in DOMAIN rx |-> IF (i + RxSize - rxNext) % RxSize < n THEN "full" ELSE rx[i]]
    /\ rxNext' = (rxNext + n) % RxSize
    /\ irq' = IF n > 0 THEN SetIntrStatus(irq, {"RX"}) ELSE irq

(* A packet comes; of it and of what was held back some are accepted by the  *)
(* filter and find a descriptor.                                             *)
PacketHeld ==
    /\ ~CanReceive /\ held < MaxHeld /\ held' = held + 1
    /\ UNCHANGED <<nic, on, irq, phy, down, timer, guest>>
PacketArrives(n) ==
    /\ CanReceive /\ held' = 0
    /\ n <= held + 1 /\ (\A i \in 0 .. n - 1 : RxAvail(i)) /\ DmaPacketToGuest(n)
    /\ UNCHANGED <<tx, next, buf, sent, on, phy, down, timer, guest>>
-------------------------------------------------------------------------------
(* The link: nvnet_set_link_status for qmp_set_link, and the timer.          *)

LinkDown ==
    /\ down' = TRUE
    /\ phy' = [phy EXCEPT !.link = FALSE, !.comp = FALSE]
    /\ irq' = SetIntrStatus(irq, {"MII"})
    /\ UNCHANGED <<nic, on, timer, held, guest>>
LinkUp ==
    /\ down' = FALSE
    /\ IF phy.auto /\ ~phy.comp
       THEN timer' = TRUE /\ UNCHANGED <<phy, irq>>
       ELSE /\ phy' = [phy EXCEPT !.link = TRUE] /\ irq' = SetIntrStatus(irq, {"MII"})
            /\ UNCHANGED timer
    /\ UNCHANGED <<nic, on, held, guest>>
AutonegTimerBlind ==
    /\ timer /\ timer' = FALSE
    /\ phy' = [phy EXCEPT !.link = TRUE, !.comp = TRUE]
    /\ irq' = SetIntrStatus(irq, {"MII"})
    /\ UNCHANGED <<nic, on, down, held, guest>>
AutonegTimer ==
    /\ timer /\ timer' = FALSE
    /\ IF down THEN UNCHANGED <<phy, irq>>
       ELSE /\ phy' = [phy EXCEPT !.link = TRUE, !.comp = TRUE]
            /\ irq' = SetIntrStatus(irq, {"MII"})
    /\ UNCHANGED <<nic, on, down, held, guest>>
-------------------------------------------------------------------------------
(* nvnet_reset; the guest boots again.  The PCI core lowers the line.        *)
Reset ==
    /\ tx' = [i \in DOMAIN tx |-> None] /\ next' = 0 /\ buf' = <<>> /\ UNCHANGED sent
    /\ rx' = [i \in DOMAIN rx |-> "avail"] /\ rxNext' = 0 /\ on' = {} /\ irq' = NoIrq
    /\ phy' = [link |-> ~down, comp |-> ~down, auto |-> TRUE] /\ timer' = FALSE
    /\ guest' = [Idle EXCEPT !.pkt = guest.pkt + (IF guest.no = 1 THEN 0 ELSE 1)]
    /\ UNCHANGED <<down, held>>

(* A snapshot is saved and loaded; what happens in between is undone.  The   *)
(* load resets the machine first: what the snapshot does not hold is as      *)
(* nvnet_reset and nvnet_post_load leave it.                                 *)
Negotiating == phy.auto /\ ~phy.comp
LoadedDown == ~phy.link /\ ~Negotiating
Reload ==
    /\ (buf = <<>> \/ Torn) /\ buf' = <<>>
    /\ down' = LoadedDown /\ timer' = Negotiating
    /\ UNCHANGED <<tx, next, sent, rx, rxNext, on, irq, phy, held, guest>>
-------------------------------------------------------------------------------
(* The guest's driver.  It queues a packet part by part and kicks; its       *)
(* interrupt routine acknowledges what it has read before it serves it.      *)

GuestQueue ==
    /\ guest.pkt <= Len(Lens) /\ tx[guest.tail] = None
    /\ tx' = [tx EXCEPT ![guest.tail] = [pkt |-> guest.pkt, no |-> guest.no]]
    /\ guest' = [guest EXCEPT
                    !.tail = (@ + 1) % TxSize,
                    !.no = IF @ = Lens[guest.pkt] THEN 1 ELSE @ + 1,
                    !.pkt = IF guest.no = Lens[guest.pkt] THEN @ + 1 ELSE @]
    /\ UNCHANGED <<next, buf, sent, rx, rxNext, on, irq, phy, down, timer, held>>
GuestKick == (\E n \in 0 .. TxSize : Kick(n)) /\ UNCHANGED guest
GuestStart(part) ==
    /\ part \notin on /\ on' = on \cup {part}
    /\ UNCHANGED <<nic, irq, phy, down, timer, held, guest>>
GuestStop(part) ==
    /\ part \in on /\ on' = on \ {part}
    /\ UNCHANGED <<nic, irq, phy, down, timer, held, guest>>
GuestMask(bits) ==
    /\ guest.pc = "idle" /\ bits # irq.mask /\ irq' = WriteMask(irq, bits)
    /\ UNCHANGED <<nic, on, phy, down, timer, held, guest>>
GuestAutoneg ==
    /\ phy' = [phy EXCEPT !.auto = ~@]
    /\ UNCHANGED <<nic, on, irq, down, timer, held, guest>>

(* TX_RX_CONTROL without KICK.  RESET, BIT1 and BIT2 are bits of their own;  *)
(* BIT1 clears the status and does not call update_irq.                      *)
Control(bits) ==
    /\ on' = IF "BIT2" \in bits THEN on \ {"dma"} ELSE on \cup {"dma"}
    /\ irq' = IF "BIT1" \in bits THEN [irq EXCEPT !.status = {}] ELSE irq
    /\ IF "RESET" \in bits THEN next' = 0 /\ rxNext' = 0 /\ buf' = <<>>
       ELSE UNCHANGED <<next, rxNext, buf>>
ControlBits == {"RESET", "BIT1", "BIT2"}

(* With RESET the driver opens the device again and sets up its rings.  BIT1 *)
(* belongs to opening too: unless LiveClear, the driver writes it with its   *)
(* interrupts masked and nothing received in its rings.                      *)
GuestControl(bits) ==
    /\ guest.pc = "idle" /\ "RESET" \notin bits /\ Control(bits)
    /\ "BIT1" \in bits => LiveClear \/ (irq.mask = {} /\ \A i \in DOMAIN rx : rx[i] = "avail")
    /\ UNCHANGED <<tx, sent, rx, phy, down, timer, held, guest>>
GuestReopen(bits) ==
    /\ guest.pc = "idle" /\ "RESET" \in bits /\ Control(bits)
    /\ "BIT1" \in bits => LiveClear \/ irq.mask = {}
    /\ tx' = [i \in DOMAIN tx |-> None] /\ rx' = [i \in DOMAIN rx |-> "avail"]
    /\ guest' = [Idle EXCEPT !.pkt = guest.pkt + (IF guest.no = 1 THEN 0 ELSE 1)]
    /\ UNCHANGED <<sent, phy, down, timer, held>>

IsrRead ==
    /\ guest.pc = "idle" /\ irq.line
    /\ guest' = [guest EXCEPT !.pc = "ack", !.seen = irq.status]
    /\ UNCHANGED <<nic, on, irq, phy, down, timer, held>>
IsrAck ==
    /\ guest.pc = "ack" /\ irq' = WriteStatus(irq, guest.seen)
    /\ guest' = [guest EXCEPT !.pc = "isr"]
    /\ UNCHANGED <<nic, on, phy, down, timer, held>>
IsrTake ==
    /\ guest.pc = "isr" /\ "RX" \in guest.seen /\ rx[guest.take] = "full"
    /\ rx' = [rx EXCEPT ![guest.take] = "avail"]
    /\ guest' = [guest EXCEPT !.take = (@ + 1) % RxSize]
    /\ UNCHANGED <<tx, next, buf, sent, rxNext, on, irq, phy, down, timer, held>>
IsrDone ==
    /\ guest.pc = "isr" /\ ("RX" \in guest.seen => rx[guest.take] # "full")
    /\ guest' = [guest EXCEPT !.pc = "idle", !.seen = {}]
    /\ UNCHANGED <<nic, on, irq, phy, down, timer, held>>
Isr == IsrRead \/ IsrAck \/ IsrTake \/ IsrDone

Next ==
    \/ GuestQueue \/ GuestKick \/ GuestAutoneg \/ Isr
    \/ \E bits \in SUBSET ControlBits : GuestControl(bits) \/ GuestReopen(bits)
    \/ \E part \in {"tx", "rx"} : GuestStart(part) \/ GuestStop(part)
    \/ \E bits \in {{}, Bits} : GuestMask(bits)
    \/ PacketHeld \/ \E n \in 0 .. RxSize : PacketArrives(n)
    \/ LinkDown \/ LinkUp \/ AutonegTimer \/ Reset \/ Reload

Spec == Init /\ [][Next]_vars

(* The guest serves its interrupts and the timer fires.                      *)
FairSpec == Spec /\ WF_vars(Isr) /\ WF_vars(AutonegTimer)
-------------------------------------------------------------------------------
(* The registers, ring pointers and buffers stay in range: an index that     *)
(* runs past its ring would hand the guest somebody else's memory.           *)
TypeOK ==
    /\ tx \in [0 .. TxSize - 1 -> Part \cup {None}] /\ next \in 0 .. TxSize - 1
    /\ buf \in Seq(Part) /\ sent \in Seq(Part)
    /\ rx \in [0 .. RxSize - 1 -> {"avail", "full"}] /\ rxNext \in 0 .. RxSize - 1
    /\ on \subseteq {"tx", "rx", "dma"} /\ held \in 0 .. MaxHeld
    /\ irq \in [status : SUBSET Bits, mask : SUBSET Bits, line : BOOLEAN]
    /\ phy \in [link : BOOLEAN, comp : BOOLEAN, auto : BOOLEAN]
    /\ down \in BOOLEAN /\ timer \in BOOLEAN
    /\ guest \in [pc : {"idle", "ack", "isr"}, seen : SUBSET Bits, pkt : Nat \ {0}, no : Nat \ {0},
                  tail : 0 .. TxSize - 1, take : 0 .. RxSize - 1]

(* The line tells the truth: neither a lost interrupt nor one that nothing   *)
(* ends.  It rests on the driver: BIT1 clears the status without update_irq, *)
(* which leaves a raised line raised if interrupts are enabled (LiveClear).  *)
LineTrue == irq.line <=> irq.status \cap irq.mask # {}

(* What goes out is a whole packet of the guest, in the order in which it    *)
(* queued them and once, however kicks, pauses, resets and snapshots fall    *)
(* between its parts.  (A second copy of the packet that went out last would *)
(* leave sent as it is and is not seen here.)                                *)
TxWhole ==
    [][sent' # sent => \E k \in 1 .. Len(Lens) :
            sent' = Whole(k) /\ (sent = <<>> \/ k > sent[1].pkt)]_vars

(* The PHY shows a link only if there is one, and a link it does not show    *)
(* yet is being negotiated.                                                  *)
LinkTrue == /\ phy.link => ~down
            /\ ~down /\ ~phy.link => timer

(* A received packet is taken by the guest, unless it masks its interrupts:  *)
(* one that comes while the interrupt routine runs raises the line again.    *)
RxTaken == \A i \in 0 .. RxSize - 1 : (rx[i] = "full") ~> (rx[i] # "full" \/ irq.mask = {})
================================================================================
