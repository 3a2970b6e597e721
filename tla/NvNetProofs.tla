------------------------------ MODULE NvNetProofs ------------------------------
(* For rings of any size and any packets: the type invariant of NvNet, the   *)
(* truth of the link and, if the driver does not clear the status behind an  *)
(* enabled interrupt (~LiveClear), of the interrupt line; and, without       *)
(* snapshots in the middle of a packet (~Torn), that packets go out whole    *)
(* and in order.                                                             *)
(*                                                                           *)
(* The last rests on TxInv: the descriptors the driver has handed over are a *)
(* row from the device's own on, the driver writes behind it, and read in    *)
(* that order, its next part included, they continue what the device has     *)
(* collected so far.                                                         *)
EXTENDS NvNet, TLAPS

USE SizesAssumption, LensAssumption

(* Moving on in a ring stays in it.                                          *)
LEMMA InRing ==
    ASSUME NEW size \in Nat \ {0}, NEW i \in Nat
    PROVE  i % size \in 0 .. size - 1
  OBVIOUS

(* The parts of the type invariant, by who owns them.                        *)
RingTypes ==
    /\ tx \in [0 .. TxSize - 1 -> Part \cup {None}] /\ next \in 0 .. TxSize - 1
    /\ buf \in Seq(Part) /\ sent \in Seq(Part)
    /\ rx \in [0 .. RxSize - 1 -> {"avail", "full"}] /\ rxNext \in 0 .. RxSize - 1
IrqTypes == irq \in [status : SUBSET Bits, mask : SUBSET Bits, line : BOOLEAN]
LinkTypes ==
    /\ phy \in [link : BOOLEAN, comp : BOOLEAN, auto : BOOLEAN]
    /\ down \in BOOLEAN /\ timer \in BOOLEAN
GuestTypes ==
    guest \in [pc : {"idle", "ack", "isr"}, seen : SUBSET Bits, pkt : Nat \ {0}, no : Nat \ {0},
               tail : 0 .. TxSize - 1, take : 0 .. RxSize - 1]
HostTypes == on \subseteq {"tx", "rx", "dma"} /\ held \in 0 .. MaxHeld

(* A valid descriptor that a kick takes holds a part of a packet.            *)
LEMMA TakenParts ==
    ASSUME RingTypes, NEW n \in 0 .. TxSize, Taken(n)
    PROVE  buf \o [i \in 1 .. n |-> TxAt(i - 1)] \in Seq(Part)
  <1>1. ASSUME NEW i \in 1 .. n PROVE TxAt(i - 1) \in Part
    <2>1. i - 1 \in 0 .. n - 1 /\ next + (i - 1) \in Nat
      BY DEF RingTypes
    <2>2. (next + (i - 1)) % TxSize \in 0 .. TxSize - 1
      BY <2>1, InRing
    <2>3. TxAt(i - 1) # None
      BY <2>1 DEF Taken
    <2> QED BY <2>2, <2>3 DEF RingTypes, TxAt
  <1>2. [i \in 1 .. n |-> TxAt(i - 1)] \in Seq(Part)
    BY <1>1
  <1> QED BY <1>2 DEF RingTypes

(* Whatever raises or acknowledges an interrupt leaves registers of the      *)
(* right type and, unless BIT1 is written at any time, a line that is true.  *)
IrqOK == IrqTypes /\ (LiveClear \/ LineTrue)

(* Raising a cause keeps the line true.                                      *)
LEMMA SetKeepsIrq ==
    ASSUME IrqTypes, NEW bits \in SUBSET Bits, irq' = SetIntrStatus(irq, bits)
    PROVE  IrqOK'
  BY DEF IrqTypes, IrqOK, LineTrue, SetIntrStatus, UpdateIrq
(* A write to IRQ_STATUS.                                                    *)
LEMMA StatusKeepsIrq ==
    ASSUME IrqTypes, NEW bits \in SUBSET Bits, irq' = WriteStatus(irq, bits)
    PROVE  IrqOK'
  BY DEF IrqTypes, IrqOK, LineTrue, WriteStatus, UpdateIrq
(* A write to IRQ_MASK.                                                      *)
LEMMA MaskKeepsIrq ==
    ASSUME IrqTypes, NEW bits \in SUBSET Bits, irq' = WriteMask(irq, bits)
    PROVE  IrqOK'
  BY DEF IrqTypes, IrqOK, LineTrue, WriteMask, UpdateIrq
(* A step that leaves the registers and the line alone.                      *)
LEMMA SameIrq == ASSUME IrqOK, UNCHANGED irq PROVE IrqOK'
  BY DEF IrqTypes, IrqOK, LineTrue

(* The inductive invariant: each property with the types it needs.           *)
LinkOK == LinkTypes /\ LinkTrue
IInv == RingTypes /\ IrqOK /\ LinkOK /\ GuestTypes /\ HostTypes

(* The inductive invariant gives the properties.                             *)
LEMMA IInvImplies == IInv => TypeOK /\ (LiveClear \/ LineTrue) /\ LinkTrue
  BY DEF IInv, IrqOK, LinkOK, TypeOK, RingTypes, IrqTypes, LinkTypes, GuestTypes, HostTypes

(* Power-on.                                                                 *)
LEMMA InitIInv == Init => IInv
  <1> SUFFICES ASSUME Init PROVE IInv
    OBVIOUS
  <1>1. RingTypes
    BY DEF Init, RingTypes
  <1>2. IrqOK
    BY DEF Init, NoIrq, IrqOK, IrqTypes, LineTrue
  <1>3. LinkOK
    BY DEF Init, LinkOK, LinkTypes, LinkTrue
  <1>4. GuestTypes /\ HostTypes
    BY DEF Init, Idle, GuestTypes, HostTypes
  <1> QED BY <1>1, <1>2, <1>3, <1>4 DEF IInv

(* A step that leaves the rings alone.                                       *)
LEMMA SameRing == ASSUME RingTypes, UNCHANGED nic PROVE RingTypes'
  BY DEF RingTypes, nic
(* A step that leaves the link alone.                                        *)
LEMMA SameLink == ASSUME LinkOK, UNCHANGED <<phy, down, timer>> PROVE LinkOK'
  BY DEF LinkOK, LinkTypes, LinkTrue
(* A step that leaves the driver alone.                                      *)
LEMMA SameGuest == ASSUME GuestTypes, UNCHANGED guest PROVE GuestTypes'
  BY DEF GuestTypes
(* A step that starts and stops nothing and leaves the network queue alone.  *)
LEMMA SameHost == ASSUME HostTypes, UNCHANGED <<on, held>> PROVE HostTypes'
  BY DEF HostTypes

(* dma_packet_from_guest: a kick leaves the ring and the buffer in range and *)
(* a true line.                                                              *)
LEMMA KickKeeps == ASSUME IInv, GuestKick PROVE IInv'
  <1> USE DEF IInv
  <1>1. PICK n \in 0 .. TxSize : Kick(n)
    BY DEF GuestKick
  <1>2. UNCHANGED <<rx, rxNext, phy, down, timer, held, guest>> /\ on' = on \cup {"dma"}
    BY <1>1 DEF Kick, GuestKick
  <1>3. LinkOK' /\ GuestTypes' /\ HostTypes'
    BY <1>2, SameLink, SameGuest DEF HostTypes
  <1>4. ASSUME UNCHANGED <<tx, next, buf, sent, irq>> PROVE RingTypes' /\ IrqOK'
    BY <1>2, <1>4, SameIrq, SameRing DEF nic
  <1>5. ASSUME DmaPacketFromGuest(n, buf \o [i \in 1 .. n |-> TxAt(i - 1)], Ends(n))
        PROVE  RingTypes' /\ IrqOK'
    <2>1. buf \o [i \in 1 .. n |-> TxAt(i - 1)] \in Seq(Part)
      BY <1>1, TakenParts DEF Kick
    <2>2. next + n \in Nat
      BY DEF RingTypes
    <2>3. next' \in 0 .. TxSize - 1
      BY <2>2, <1>5, InRing DEF DmaPacketFromGuest
    <2>4. tx' \in [0 .. TxSize - 1 -> Part \cup {None}]
      BY <1>5 DEF DmaPacketFromGuest, RingTypes
    <2>5. <<>> \in Seq(Part)
      OBVIOUS
    <2>6. buf' \in Seq(Part) /\ sent' \in Seq(Part)
      BY <1>5, <2>1, <2>5 DEF DmaPacketFromGuest, RingTypes
    <2>7. RingTypes'
      BY <1>2, <2>3, <2>4, <2>6 DEF RingTypes
    <2>8. IrqOK'
      BY <1>5, SetKeepsIrq, SameIrq DEF DmaPacketFromGuest, IrqOK, Bits
    <2> QED BY <2>7, <2>8
  <1> QED BY <1>1, <1>3, <1>4, <1>5 DEF Kick

(* dma_packet_to_guest, and the network holding a packet back.               *)
LEMMA NetworkKeeps ==
    ASSUME IInv, PacketHeld \/ \E n \in 0 .. RxSize : PacketArrives(n) PROVE IInv'
  <1> USE DEF IInv
  <1>1. CASE PacketHeld
    <2>1. HostTypes'
      BY <1>1 DEF PacketHeld, HostTypes
    <2> QED BY <1>1, <2>1, SameRing, SameIrq, SameLink, SameGuest DEF PacketHeld
  <1>2. CASE \E n \in 0 .. RxSize : PacketArrives(n)
    <2>1. PICK n \in 0 .. RxSize : PacketArrives(n)
      BY <1>2
    <2>2. rxNext + n \in Nat
      BY DEF RingTypes
    <2>3. rxNext' \in 0 .. RxSize - 1
      BY <2>1, <2>2, InRing DEF PacketArrives, DmaPacketToGuest
    <2>4. rx' \in [0 .. RxSize - 1 -> {"avail", "full"}]
      BY <2>1 DEF PacketArrives, DmaPacketToGuest, RingTypes
    <2>5. RingTypes'
      BY <2>1, <2>3, <2>4 DEF PacketArrives, RingTypes
    <2>6. IrqOK'
      BY <2>1, SetKeepsIrq, SameIrq DEF PacketArrives, DmaPacketToGuest, IrqOK, Bits
    <2>7. HostTypes'
      BY <2>1 DEF PacketArrives, HostTypes
    <2> QED BY <2>1, <2>5, <2>6, <2>7, SameLink, SameGuest DEF PacketArrives
  <1> QED BY <1>1, <1>2

(* The link changes, negotiation, reset and snapshots: these decide LinkTrue. *)
LEMMA LinkKeeps == ASSUME IInv, LinkDown \/ LinkUp \/ AutonegTimer PROVE IInv'
  <1> USE DEF IInv
  <1>1. LinkOK'
    <2>1. CASE LinkDown
      BY <2>1 DEF LinkDown, LinkOK, LinkTypes, LinkTrue
    <2>2. CASE LinkUp
      BY <2>2, Zenon DEF LinkUp, LinkOK, LinkTypes, LinkTrue
    <2>3. CASE AutonegTimer
      BY <2>3 DEF AutonegTimer, LinkOK, LinkTypes, LinkTrue
    <2> QED BY <2>1, <2>2, <2>3
  <1>2. IrqOK'
    BY SetKeepsIrq, SameIrq DEF LinkDown, LinkUp, AutonegTimer, IrqOK, Bits
  <1>3. UNCHANGED <<nic, on, held, guest>>
    BY DEF LinkDown, LinkUp, AutonegTimer
  <1> QED BY <1>1, <1>2, <1>3, SameRing, SameGuest, SameHost

(* The driver's state when it, or the whole machine, starts again.           *)
Restarted(p) == [pc |-> "idle", seen |-> {}, no |-> 1, tail |-> 0, take |-> 0, pkt |-> p]

(* The driver that starts again is well typed.                               *)
LEMMA RestartedTypes ==
    ASSUME NEW p \in Nat \ {0}
    PROVE  Restarted(p) \in
               [pc : {"idle", "ack", "isr"}, seen : SUBSET Bits, pkt : Nat \ {0}, no : Nat \ {0},
                tail : 0 .. TxSize - 1, take : 0 .. RxSize - 1]
  BY DEF Restarted

(* A restart gives up the packet the driver was in the middle of.            *)
LEMMA RestartTypes ==
    ASSUME GuestTypes,
           guest' = [Idle EXCEPT !.pkt = guest.pkt + (IF guest.no = 1 THEN 0 ELSE 1)]
    PROVE  GuestTypes'
  <1> DEFINE p == guest.pkt + (IF guest.no = 1 THEN 0 ELSE 1)
  <1>1. p \in Nat \ {0}
    BY DEF GuestTypes
  <1>2. guest' = Restarted(p)
    BY DEF Idle, Restarted
  <1> HIDE DEF p
  <1> QED BY <1>1, <1>2, RestartedTypes, Zenon DEF GuestTypes

(* The rings as a driver, or the machine, starts with them.                  *)
LEMMA EmptyRings ==
    ASSUME RingTypes, tx' = [i \in DOMAIN tx |-> None], next' = 0, buf' = <<>>,
           rx' = [i \in DOMAIN rx |-> "avail"], rxNext' = 0, UNCHANGED sent
    PROVE  RingTypes'
  BY DEF RingTypes

(* nvnet_reset, and a snapshot saved and loaded with nvnet_post_load.        *)
LEMMA ResetKeeps == ASSUME IInv, Reset \/ Reload PROVE IInv'
  <1> USE DEF IInv
  <1>1. CASE Reset
    <2>1. RingTypes'
      BY <1>1, EmptyRings DEF Reset
    <2>2. IrqOK' /\ HostTypes'
      BY <1>1 DEF Reset, NoIrq, IrqOK, IrqTypes, LineTrue, HostTypes
    <2>3. LinkOK'
      BY <1>1 DEF Reset, LinkOK, LinkTypes, LinkTrue
    <2> QED BY <1>1, <2>1, <2>2, <2>3, RestartTypes DEF Reset
  <1>2. CASE Reload
    <2>1. RingTypes'
      BY <1>2 DEF Reload, RingTypes
    <2>2. LinkOK'
      BY <1>2 DEF Reload, LoadedDown, Negotiating, LinkOK, LinkTypes, LinkTrue
    <2> QED BY <1>2, <2>1, <2>2, SameIrq, SameGuest, SameHost DEF Reload
  <1> QED BY <1>1, <1>2

(* The driver: BIT1 clears the status without update_irq, but, unless        *)
(* LiveClear, only where nothing is enabled.                                 *)
LEMMA DriverKeeps ==
    ASSUME IInv,
           \/ GuestQueue \/ GuestAutoneg
           \/ \E bits \in SUBSET ControlBits : GuestControl(bits) \/ GuestReopen(bits)
           \/ \E part \in {"tx", "rx"} : GuestStart(part) \/ GuestStop(part)
           \/ \E bits \in {{}, Bits} : GuestMask(bits)
    PROVE  IInv'
  <1> USE DEF IInv
  <1>1. CASE GuestQueue
    <2>1. [pkt |-> guest.pkt, no |-> guest.no] \in Part
      BY <1>1 DEF GuestQueue, GuestTypes, Part
    <2>2. RingTypes'
      BY <1>1, <2>1 DEF GuestQueue, RingTypes
    <2>3. guest.tail + 1 \in Nat
      BY DEF GuestTypes
    <2>4. (guest.tail + 1) % TxSize \in 0 .. TxSize - 1
      BY <2>3, InRing
    <2>5. GuestTypes'
      <3> DEFINE no == IF guest.no = Lens[guest.pkt] THEN 1 ELSE guest.no + 1
                 pkt == IF guest.no = Lens[guest.pkt] THEN guest.pkt + 1 ELSE guest.pkt
      <3>1. no \in Nat \ {0} /\ pkt \in Nat \ {0}
        BY SMTT(20) DEF GuestTypes
      <3>2. guest' = [guest EXCEPT !.tail = (guest.tail + 1) % TxSize, !.no = no, !.pkt = pkt]
        BY <1>1 DEF GuestQueue, GuestTypes
      <3> QED BY <2>4, <3>1, <3>2 DEF GuestTypes
    <2> QED BY <1>1, <2>2, <2>5, SameIrq, SameLink, SameHost DEF GuestQueue
  <1>2. CASE GuestAutoneg
    <2>1. LinkOK'
      BY <1>2 DEF GuestAutoneg, LinkOK, LinkTypes, LinkTrue
    <2> QED BY <1>2, <2>1, SameRing, SameIrq, SameGuest, SameHost DEF GuestAutoneg
  <1>3. ASSUME NEW bits \in SUBSET ControlBits, GuestControl(bits) \/ GuestReopen(bits)
        PROVE  IInv'
    <2>1. RingTypes'
      <3>1. CASE GuestReopen(bits)
        BY <3>1, EmptyRings DEF GuestReopen, Control
      <3>2. CASE GuestControl(bits)
        BY <3>2, SameRing DEF GuestControl, Control, nic
      <3> QED BY <1>3, <3>1, <3>2
    <2>2. IrqOK'
      <3>1. CASE "BIT1" \notin bits
        BY <1>3, <3>1, SameIrq DEF GuestControl, GuestReopen, Control
      <3>2. CASE "BIT1" \in bits
        <4>1. irq' = [irq EXCEPT !.status = {}] /\ (LiveClear \/ irq.mask = {})
          BY <1>3, <3>2 DEF GuestControl, GuestReopen, Control
        <4> QED BY <4>1 DEF IrqOK, IrqTypes, LineTrue
      <3> QED BY <3>1, <3>2
    <2>3. HostTypes'
      BY <1>3 DEF GuestControl, GuestReopen, Control, HostTypes
    <2>4. GuestTypes'
      BY <1>3, RestartTypes, SameGuest DEF GuestControl, GuestReopen
    <2> QED BY <1>3, <2>1, <2>2, <2>3, <2>4, SameLink DEF GuestControl, GuestReopen
  <1>4. CASE \E part \in {"tx", "rx"} : GuestStart(part) \/ GuestStop(part)
    <2>1. HostTypes' /\ UNCHANGED <<nic, irq, phy, down, timer, guest>>
      BY <1>4 DEF GuestStart, GuestStop, HostTypes
    <2> QED BY <2>1, SameRing, SameIrq, SameLink, SameGuest
  <1>5. CASE \E bits \in {{}, Bits} : GuestMask(bits)
    <2>1. PICK bits \in {{}, Bits} : GuestMask(bits)
      BY <1>5
    <2>2. IrqOK'
      BY <2>1, MaskKeepsIrq DEF GuestMask, IrqOK
    <2> QED BY <2>1, <2>2, SameRing, SameLink, SameGuest, SameHost DEF GuestMask
  <1> QED BY <1>1, <1>2, <1>3, <1>4, <1>5

(* The interrupt routine.                                                    *)
LEMMA IsrKeeps == ASSUME IInv, Isr PROVE IInv'
  <1> USE DEF IInv
  <1>1. CASE IsrRead \/ IsrDone
    <2>1. GuestTypes'
      BY <1>1 DEF IsrRead, IsrDone, GuestTypes, IrqOK, IrqTypes
    <2> QED BY <1>1, <2>1, SameRing, SameIrq, SameLink, SameHost DEF IsrRead, IsrDone
  <1>2. CASE IsrAck
    <2>1. guest.seen \in SUBSET Bits
      BY DEF GuestTypes
    <2>2. IrqOK'
      BY <1>2, <2>1, StatusKeepsIrq DEF IsrAck, IrqOK
    <2>3. GuestTypes'
      BY <1>2 DEF IsrAck, GuestTypes
    <2> QED BY <1>2, <2>2, <2>3, SameRing, SameLink, SameHost DEF IsrAck
  <1>3. CASE IsrTake
    <2>1. guest.take + 1 \in Nat
      BY DEF GuestTypes
    <2>2. (guest.take + 1) % RxSize \in 0 .. RxSize - 1
      BY <2>1, InRing
    <2>3. GuestTypes'
      BY <1>3, <2>2 DEF IsrTake, GuestTypes
    <2>4. RingTypes'
      BY <1>3 DEF IsrTake, RingTypes
    <2> QED BY <1>3, <2>3, <2>4, SameIrq, SameLink, SameHost DEF IsrTake
  <1> QED BY <1>1, <1>2, <1>3 DEF Isr

(* Every step of the controller, the network and the driver.                 *)
LEMMA NextIInv == IInv /\ [Next]_vars => IInv'
  <1> SUFFICES ASSUME IInv, [Next]_vars PROVE IInv'
    OBVIOUS
  <1>1. CASE UNCHANGED vars
    BY <1>1, SameRing, SameIrq, SameLink, SameGuest, SameHost DEF vars, IInv
  <1> QED BY <1>1, KickKeeps, NetworkKeeps, LinkKeeps, ResetKeeps, DriverKeeps, IsrKeeps DEF Next

(* The registers, rings and buffers stay in range for rings of any size.     *)
THEOREM NetTypeCorrect == Spec => []TypeOK
  BY InitIInv, NextIInv, IInvImplies, PTL DEF Spec

(* The PCI line is asserted exactly while an enabled bit of the status is    *)
(* set, whatever the network, the timer, resets and snapshots do: if the     *)
(* driver writes BIT1, which clears the status without update_irq, only with *)
(* its interrupts masked (~LiveClear; with LiveClear it is false).           *)
THEOREM LineIsTrue == ASSUME ~LiveClear PROVE Spec => []LineTrue
  BY InitIInv, NextIInv, IInvImplies, PTL DEF Spec

(* The PHY never shows a link that is down, and a link it does not show yet  *)
(* has its negotiation timer running: across resets, snapshots and link      *)
(* changes at any moment.                                                    *)
THEOREM LinkIsTrue == Spec => []LinkTrue
  BY InitIInv, NextIInv, IInvImplies, PTL DEF Spec
-------------------------------------------------------------------------------
(* Transmission.  The driver fills the ring from its tail, the controller    *)
(* empties it from TX_RING_NEXT_DESC, so what is valid lies in a row.        *)

(* The part the driver queues next, and the parts of the ring in the order   *)
(* in which they are taken, c of them, with that one behind them.            *)
Upcoming == [pkt |-> guest.pkt, no |-> guest.no]
Elem(c, i) == IF i < c THEN TxAt(i) ELSE Upcoming

(* Exactly the first c descriptors are valid.                                *)
InRow(c) ==
    /\ \A i \in 0 .. TxSize - 1 : TxAt(i) # None <=> i < c
    /\ guest.tail = (next + c) % TxSize

(* Part i is queued before part j: the packets come in order, a packet is    *)
(* over with its last part, and up to there its parts are numbered through.  *)
Follow(c, i, j) ==
    /\ Elem(c, i).pkt <= Elem(c, j).pkt
    /\ Last(Elem(c, i)) => Elem(c, i).pkt < Elem(c, j).pkt
    /\ Last(Elem(c, i)) /\ j = i + 1 => Elem(c, j).no = 1
    /\ (\A m \in i .. j - 1 : ~Last(Elem(c, m)))
           => Elem(c, j) = [pkt |-> Elem(c, i).pkt, no |-> Elem(c, i).no + (j - i)]
Chain(c) == \A i, j \in 0 .. c : i < j => Follow(c, i, j)

(* tx_dma_buf holds the packet's parts up to the first one in the ring, and  *)
(* that packet comes after the last one sent.                                *)
Begun(c) ==
    /\ Elem(c, 0).no = Len(buf) + 1
    /\ \A i \in 1 .. Len(buf) : buf[i] = [pkt |-> Elem(c, 0).pkt, no |-> i]
    /\ sent # <<>> => sent[1].pkt < Elem(c, 0).pkt

Stream(c) == InRow(c) /\ Chain(c) /\ Begun(c)
TxInv == \E c \in 0 .. TxSize : Stream(c)

(* Moving on in a ring by at most its size wraps once.                       *)
LEMMA Once ==
    ASSUME NEW size \in Nat \ {0}, NEW d \in 0 .. size - 1
    PROVE  d % size = d /\ (size + d) % size = d
  OBVIOUS

(* The descriptor b after a.                                                 *)
Slot(a, b) == (a + b) % TxSize

(* A sum of two positions wraps around at most once.                         *)
LEMMA SlotWraps ==
    ASSUME NEW a \in 0 .. TxSize - 1, NEW b \in 0 .. TxSize
    PROVE  /\ Slot(a, b) = IF a + b < TxSize THEN a + b ELSE a + b - TxSize
           /\ Slot(a, b) \in 0 .. TxSize - 1
  <1>0. TxSize \in Nat \ {0}
    OBVIOUS
  <1>1. CASE a + b < TxSize
    <2>1. a + b \in 0 .. TxSize - 1
      BY <1>0, <1>1
    <2>2. Slot(a, b) = a + b
      BY <1>0, <2>1, Once, Zenon DEF Slot
    <2> QED BY <1>1, <2>1, <2>2
  <1>2. CASE ~(a + b < TxSize)
    <2> DEFINE d == a + b - TxSize
    <2>1. d \in 0 .. TxSize - 1 /\ a + b = TxSize + d
      BY <1>0, <1>2
    <2>2. (TxSize + d) % TxSize = d
      BY <1>0, <2>1, Once, Zenon
    <2> HIDE DEF d
    <2>3. Slot(a, b) = d
      BY <2>1, <2>2, Zenon DEF Slot
    <2> QED BY <1>2, <2>1, <2>3 DEF d
  <1> QED BY <1>1, <1>2

(* What DmaPacketFromGuest counts at a descriptor is its distance.           *)
LEMMA Distance ==
    ASSUME NEW a \in 0 .. TxSize - 1, NEW i \in 0 .. TxSize - 1
    PROVE  (Slot(a, i) + TxSize - a) % TxSize = i
  <1>0. TxSize \in Nat \ {0}
    OBVIOUS
  <1>1. Slot(a, i) = (IF a + i < TxSize THEN a + i ELSE a + i - TxSize)
        /\ Slot(a, i) \in 0 .. TxSize - 1
    <2>1. i \in 0 .. TxSize
      BY <1>0
    <2> QED BY <2>1, SlotWraps, Zenon
  <1>2. CASE a + i < TxSize
    <2>1. Slot(a, i) + TxSize - a = TxSize + i
      BY <1>0, <1>1, <1>2
    <2> QED BY <1>0, <2>1, Once, Zenon
  <1>3. CASE ~(a + i < TxSize)
    <2>1. Slot(a, i) + TxSize - a = i
      BY <1>0, <1>1, <1>3
    <2> QED BY <1>0, <2>1, Once, Zenon
  <1> QED BY <1>2, <1>3

(* Different distances are different descriptors.                            *)
LEMMA SlotsApart ==
    ASSUME NEW a \in 0 .. TxSize - 1, NEW i \in 0 .. TxSize - 1, NEW j \in 0 .. TxSize - 1
    PROVE  Slot(a, i) \in 0 .. TxSize - 1 /\ (Slot(a, i) = Slot(a, j) <=> i = j)
  <1>1. i \in 0 .. TxSize /\ j \in 0 .. TxSize /\ TxSize \in Nat
    OBVIOUS
  <1>2. /\ Slot(a, i) = IF a + i < TxSize THEN a + i ELSE a + i - TxSize
        /\ Slot(a, j) = IF a + j < TxSize THEN a + j ELSE a + j - TxSize
    BY <1>1, SlotWraps, Zenon
  <1> QED BY <1>1, <1>2

(* Two moves that stay within one turn are one move.                         *)
LEMMA SlotSum ==
    ASSUME NEW a \in 0 .. TxSize - 1, NEW i \in 0 .. TxSize, NEW j \in 0 .. TxSize,
           i + j <= TxSize
    PROVE  Slot(Slot(a, i), j) = Slot(a, i + j)
  <1>1. i + j \in 0 .. TxSize /\ TxSize \in Nat
    OBVIOUS
  <1>2. /\ Slot(a, i) = IF a + i < TxSize THEN a + i ELSE a + i - TxSize
        /\ Slot(a, i) \in 0 .. TxSize - 1
        /\ Slot(a, i + j) = IF a + (i + j) < TxSize THEN a + (i + j) ELSE a + (i + j) - TxSize
    BY <1>1, SlotWraps, Zenon
  <1>3. Slot(Slot(a, i), j)
            = IF Slot(a, i) + j < TxSize THEN Slot(a, i) + j ELSE Slot(a, i) + j - TxSize
    BY <1>2, SlotWraps, Zenon
  <1> QED BY <1>1, <1>2, <1>3

(* Two moves that go around the ring are one move of a turn less.            *)
LEMMA SlotSumOver ==
    ASSUME NEW a \in 0 .. TxSize - 1, NEW i \in 0 .. TxSize, NEW j \in 0 .. TxSize - 1,
           i + j >= TxSize
    PROVE  Slot(Slot(a, i), j) = Slot(a, i + j - TxSize)
  <1>1. i + j - TxSize \in 0 .. TxSize /\ j \in 0 .. TxSize /\ TxSize \in Nat
    OBVIOUS
  <1>2. /\ Slot(a, i) = IF a + i < TxSize THEN a + i ELSE a + i - TxSize
        /\ Slot(a, i) \in 0 .. TxSize - 1
        /\ Slot(a, i + j - TxSize)
              = IF a + (i + j - TxSize) < TxSize THEN a + (i + j - TxSize)
                ELSE a + (i + j - TxSize) - TxSize
    BY <1>1, SlotWraps, Zenon
  <1>3. Slot(Slot(a, i), j)
            = IF Slot(a, i) + j < TxSize THEN Slot(a, i) + j ELSE Slot(a, i) + j - TxSize
    BY <1>1, <1>2, SlotWraps, Zenon
  <1> QED BY <1>1, <1>2, <1>3

(* The ring seen from TX_RING_NEXT_DESC.                                     *)
LEMMA RingView == \A i : TxAt(i) = tx[Slot(next, i)]
  BY DEF TxAt, Slot

(* The same of the ring after a step.                                        *)
LEMMA NextRingView == \A i : TxAt(i)' = tx'[Slot(next', i)]
  BY DEF TxAt, Slot

(* GuestQueue: the driver's part goes to the end of the row.                 *)
LEMMA QueueRow ==
    ASSUME IInv, NEW c \in 0 .. TxSize, InRow(c), GuestQueue
    PROVE  /\ c < TxSize /\ InRow(c + 1)'
           /\ \A i \in 0 .. c : Elem(c + 1, i)' = Elem(c, i)
  <1>0. TxSize \in Nat \ {0}
    OBVIOUS
  <1>1. /\ tx \in [0 .. TxSize - 1 -> Part \cup {None}] /\ next \in 0 .. TxSize - 1
        /\ tx[guest.tail] = None
        /\ tx' = [tx EXCEPT ![guest.tail] = Upcoming] /\ next' = next
        /\ Upcoming # None
    BY DEF IInv, RingTypes, GuestTypes, GuestQueue, Upcoming, None
  <1>2. guest.tail = Slot(next, c)
    BY DEF InRow, Slot
  <1>3. c < TxSize
    <2>1. CASE c = TxSize
      <3>1. Slot(next, c) = Slot(next, 0)
        BY <1>0, <1>1, <2>1, SlotWraps
      <3>2. TxAt(0) # None
        BY <1>0, <2>1 DEF InRow
      <3> QED BY <1>1, <1>2, <3>1, <3>2, RingView
    <2> QED BY <1>0, <2>1
  <1>4. ASSUME NEW i \in 0 .. TxSize - 1
        PROVE  TxAt(i)' = IF i = c THEN Upcoming ELSE TxAt(i)
    <2>1. Slot(next, i) \in 0 .. TxSize - 1 /\ (Slot(next, i) = Slot(next, c) <=> i = c)
      BY <1>1, <1>3, SlotsApart
    <2> QED BY <1>1, <1>2, <2>1, RingView, NextRingView
  <1>5. guest'.tail = (next' + (c + 1)) % TxSize
    <2>1. guest'.tail = Slot(guest.tail, 1)
      BY DEF GuestQueue, IInv, GuestTypes, Slot
    <2>2. Slot(Slot(next, c), 1) = Slot(next, c + 1)
      BY <1>0, <1>1, <1>3, SlotSum
    <2> QED BY <1>1, <1>2, <2>1, <2>2 DEF Slot
  <1>6. InRow(c + 1)'
    <2>1. \A i \in 0 .. TxSize - 1 : TxAt(i)' # None <=> i < c + 1
      BY <1>1, <1>3, <1>4 DEF InRow
    <2> QED BY <1>5, <2>1 DEF InRow
  <1>7. \A i \in 0 .. c : Elem(c + 1, i)' = Elem(c, i)
    BY <1>3, <1>4 DEF Elem
  <1> QED BY <1>3, <1>6, <1>7

(* dma_packet_from_guest: n descriptors go from the front of the row.        *)
LEMMA KickRow ==
    ASSUME IInv, NEW c \in 0 .. TxSize, InRow(c), NEW n \in 0 .. c, UNCHANGED guest,
           tx' = [i \in DOMAIN tx |-> IF (i + TxSize - next) % TxSize < n THEN None ELSE tx[i]],
           next' = (next + n) % TxSize
    PROVE  /\ InRow(c - n)'
           /\ \A i \in 0 .. c - n : Elem(c - n, i)' = Elem(c, n + i)
  <1>0. TxSize \in Nat \ {0} /\ c \in Nat /\ n \in Nat /\ c <= TxSize /\ n <= c
    OBVIOUS
  <1>1. /\ tx \in [0 .. TxSize - 1 -> Part \cup {None}] /\ next \in 0 .. TxSize - 1
        /\ next' = Slot(next, n) /\ n \in 0 .. TxSize
    BY <1>0 DEF IInv, RingTypes, Slot
  <1>2. ASSUME NEW d \in 0 .. TxSize - 1
        PROVE  tx'[Slot(next, d)] = IF d < n THEN None ELSE TxAt(d)
    <2>1. Slot(next, d) \in 0 .. TxSize - 1 /\ (Slot(next, d) + TxSize - next) % TxSize = d
      BY <1>1, SlotsApart, Distance
    <2>2. tx'[Slot(next, d)]
              = IF (Slot(next, d) + TxSize - next) % TxSize < n THEN None ELSE tx[Slot(next, d)]
      BY <1>1, <2>1, Zenon
    <2> QED BY <2>1, <2>2, RingView, Zenon
  <1>3. ASSUME NEW i \in 0 .. TxSize - 1
        PROVE  TxAt(i)' = IF n + i < TxSize THEN TxAt(n + i) ELSE None
    <2>1. TxAt(i)' = tx'[Slot(Slot(next, n), i)]
      BY <1>1, NextRingView, Zenon
    <2>2. CASE n + i < TxSize
      <3>1. n + i \in 0 .. TxSize - 1 /\ n + i <= TxSize /\ i \in 0 .. TxSize /\ ~(n + i < n)
        BY <1>0, <2>2
      <3>2. Slot(Slot(next, n), i) = Slot(next, n + i)
        BY <1>1, <3>1, SlotSum, Zenon
      <3> QED BY <1>2, <2>1, <2>2, <3>1, <3>2, Zenon
    <2>3. CASE ~(n + i < TxSize)
      <3>1. n + i - TxSize \in 0 .. TxSize - 1 /\ n + i >= TxSize /\ n + i - TxSize < n
        BY <1>0, <2>3
      <3>2. Slot(Slot(next, n), i) = Slot(next, n + i - TxSize)
        BY <1>1, <3>1, SlotSumOver, Zenon
      <3> QED BY <1>2, <2>1, <2>3, <3>1, <3>2, Zenon
    <2> QED BY <2>2, <2>3
  <1>4. guest'.tail = (next' + (c - n)) % TxSize
    <2>1. c - n \in 0 .. TxSize /\ n + (c - n) <= TxSize /\ n + (c - n) = c
      BY <1>0
    <2>2. Slot(Slot(next, n), c - n) = Slot(next, c)
      BY <1>1, <2>1, SlotSum
    <2>3. guest'.tail = Slot(next, c)
      BY DEF InRow, Slot
    <2> QED BY <1>1, <2>2, <2>3 DEF Slot
  <1>5. InRow(c - n)'
    <2>1. \A i \in 0 .. TxSize - 1 : TxAt(i)' # None <=> i < c - n
      BY <1>0, <1>3 DEF InRow
    <2> QED BY <1>4, <2>1 DEF InRow
  <1>6. ASSUME NEW i \in 0 .. c - n
        PROVE  Elem(c - n, i)' = Elem(c, n + i)
    <2>1. CASE i < c - n
      BY <1>0, <1>3, <2>1 DEF Elem
    <2>2. CASE ~(i < c - n)
      BY <1>0, <2>2 DEF Elem, Upcoming
    <2> QED BY <2>1, <2>2
  <1> QED BY <1>5, <1>6

(* A step that leaves the ring and the driver's next part alone.             *)
LEMMA SameStream ==
    ASSUME NEW c, Stream(c), UNCHANGED <<tx, next, buf, sent>>,
           UNCHANGED <<guest.pkt, guest.no, guest.tail>>
    PROVE  Stream(c)'
  <1>1. \A i : TxAt(i)' = TxAt(i)
    BY DEF TxAt
  <1>2. \A i : Elem(c, i)' = Elem(c, i)
    BY <1>1 DEF Elem, Upcoming
  <1>3. InRow(c)'
    BY <1>1 DEF Stream, InRow
  <1>4. Chain(c)'
    <2>1. ASSUME NEW i \in 0 .. c, NEW j \in 0 .. c, i < j
          PROVE  Follow(c, i, j)'
      <3>1. Follow(c, i, j)
        BY <2>1 DEF Stream, Chain
      <3> QED BY <1>2, <3>1 DEF Follow, Last
    <2> QED BY <2>1 DEF Chain
  <1>5. Begun(c)'
    BY <1>2 DEF Stream, Begun
  <1> QED BY <1>3, <1>4, <1>5 DEF Stream

(* Power-on, and a driver or a machine that starts again: the ring and the   *)
(* buffer are empty and a packet that was begun is given up.                 *)
Fresh ==
    /\ tx = [i \in 0 .. TxSize - 1 |-> None] /\ next = 0 /\ buf = <<>>
    /\ guest.no = 1 /\ guest.tail = 0 /\ (sent # <<>> => sent[1].pkt < guest.pkt)

(* There is nothing to continue.                                             *)
LEMMA EmptyStream == Fresh => Stream(0)
  <1> SUFFICES ASSUME Fresh PROVE Stream(0)
    OBVIOUS
  <1> USE DEF Fresh
  <1>0. TxSize \in Nat \ {0}
    OBVIOUS
  <1>1. \A i \in 0 .. TxSize - 1 : TxAt(i) = None
    <2>1. 0 \in 0 .. TxSize - 1
      BY <1>0
    <2>2. \A i \in 0 .. TxSize - 1 : Slot(0, i) \in 0 .. TxSize - 1
      BY <2>1, SlotsApart, Zenon
    <2> QED BY <2>2, RingView
  <1>2. 0 % TxSize = 0
    BY <1>0, Once
  <1>3. InRow(0)
    BY <1>0, <1>1, <1>2 DEF InRow
  <1>4. Elem(0, 0) = Upcoming
    BY DEF Elem
  <1>5. Begun(0)
    BY <1>4 DEF Begun, Upcoming
  <1>6. Chain(0)
    BY DEF Chain
  <1> QED BY <1>3, <1>5, <1>6 DEF Stream

(* The same after a step.                                                    *)
LEMMA NextEmptyStream == Fresh' => Stream(0)'
  BY EmptyStream, PTL

(* The parts have a packet and a number.                                     *)
LEMMA ElemTyped ==
    ASSUME IInv, NEW c \in 0 .. TxSize, InRow(c)
    PROVE  /\ \A i \in 0 .. c : Elem(c, i) \in [pkt : Nat \ {0}, no : Nat \ {0}]
           /\ \A i \in 0 .. c : i < c => Elem(c, i) = TxAt(i) /\ TxAt(i) \in Part
  <1>1. /\ tx \in [0 .. TxSize - 1 -> Part \cup {None}] /\ next \in 0 .. TxSize - 1
        /\ TxSize \in Nat \ {0}
    BY DEF IInv, RingTypes
  <1>2. ASSUME NEW i \in 0 .. c, i < c
        PROVE  Elem(c, i) = TxAt(i) /\ TxAt(i) \in Part
    <2>1. i \in 0 .. TxSize - 1
      BY <1>1, <1>2
    <2>2. Slot(next, i) \in 0 .. TxSize - 1
      BY <1>1, <2>1, SlotsApart
    <2>3. TxAt(i) # None
      BY <1>2, <2>1 DEF InRow
    <2> QED BY <1>1, <1>2, <2>2, <2>3, RingView DEF Elem
  <1>3. Upcoming \in [pkt : Nat \ {0}, no : Nat \ {0}]
    BY DEF IInv, GuestTypes, Upcoming
  <1>4. Part \subseteq [pkt : Nat \ {0}, no : Nat \ {0}]
    BY DEF Part
  <1> QED BY <1>2, <1>3, <1>4 DEF Elem

(* GuestQueue: the part it queues is followed by the next one of the packet, *)
(* or by the first one of the next packet.                                   *)
LEMMA QueueKeepsStream ==
    ASSUME IInv, NEW c \in 0 .. TxSize, Stream(c), GuestQueue
    PROVE  c + 1 \in 0 .. TxSize /\ Stream(c + 1)'
  <1>1. /\ c < TxSize /\ InRow(c + 1)' /\ c \in Nat
        /\ \A i \in 0 .. c : Elem(c + 1, i)' = Elem(c, i)
    BY QueueRow DEF Stream
  <1>2. \A i \in 0 .. c : Elem(c, i) \in [pkt : Nat \ {0}, no : Nat \ {0}]
    BY ElemTyped DEF Stream
  <1> DEFINE old == Elem(c, c)
             new == Elem(c + 1, c + 1)'
  <1>3. /\ Last(old) => new = [pkt |-> old.pkt + 1, no |-> 1]
        /\ ~Last(old) => new = [pkt |-> old.pkt, no |-> old.no + 1]
    <2>1. old = [pkt |-> guest.pkt, no |-> guest.no]
          /\ new = [pkt |-> guest'.pkt, no |-> guest'.no]
      BY DEF Elem, Upcoming
    <2>2. /\ guest'.no = IF guest.no = Lens[guest.pkt] THEN 1 ELSE guest.no + 1
          /\ guest'.pkt = IF guest.no = Lens[guest.pkt] THEN guest.pkt + 1 ELSE guest.pkt
      BY DEF GuestQueue, IInv, GuestTypes
    <2> QED BY <2>1, <2>2 DEF Last
  <1>4. Chain(c + 1)'
    <2>1. ASSUME NEW i \in 0 .. c, NEW j \in 0 .. c, i < j
          PROVE  Follow(c + 1, i, j)'
      <3>1. Follow(c, i, j)
        BY <2>1 DEF Stream, Chain
      <3>2. \A m \in i .. j - 1 : Elem(c + 1, m)' = Elem(c, m)
        BY <1>1
      <3> QED BY <1>1, <3>1, <3>2 DEF Follow, Last
    <2>2. ASSUME NEW i \in 0 .. c
          PROVE  Follow(c + 1, i, c + 1)'
      <3>1. \A m \in i .. c : Elem(c + 1, m)' = Elem(c, m)
        BY <1>1
      <3>2. /\ Elem(c, i).pkt \in Nat /\ Elem(c, i).no \in Nat
            /\ old.pkt \in Nat /\ old.no \in Nat
        BY <1>2
      <3>3. CASE i = c
        <4>1. Elem(c + 1, c)' = old
          BY <1>1
        <4>2. c \in c .. (c + 1) - 1 /\ (c + 1) - c = 1
          BY <1>1
        <4>3. /\ old.pkt <= new.pkt /\ (Last(old) => old.pkt < new.pkt /\ new.no = 1)
              /\ ~Last(old) => new = [pkt |-> old.pkt, no |-> old.no + 1]
          BY <1>3, <3>2
        <4> HIDE DEF old, new
        <4>4. Elem(c + 1, c + 1)' = new
          BY DEF new
        <4> QED BY <3>3, <4>1, <4>2, <4>3, <4>4 DEF Follow, Last
      <3>4. CASE i < c
        <4>1. Follow(c, i, c)
          BY <3>4 DEF Stream, Chain
        <4>2. /\ Elem(c, i).pkt <= old.pkt /\ (Last(Elem(c, i)) => Elem(c, i).pkt < old.pkt)
              /\ (\A m \in i .. c - 1 : ~Last(Elem(c, m)))
                     => old = [pkt |-> Elem(c, i).pkt, no |-> Elem(c, i).no + (c - i)]
          BY <4>1 DEF Follow
        <4>3. new.pkt \in {old.pkt, old.pkt + 1}
          BY <1>3
        <4>4. (\A m \in i .. c : ~Last(Elem(c, m)))
                  => new = [pkt |-> Elem(c, i).pkt, no |-> Elem(c, i).no + ((c + 1) - i)]
          <5>1. SUFFICES ASSUME \A m \in i .. c : ~Last(Elem(c, m))
                         PROVE  new = [pkt |-> Elem(c, i).pkt,
                                       no |-> Elem(c, i).no + ((c + 1) - i)]
            OBVIOUS
          <5>2. c \in i .. c /\ i .. c - 1 \subseteq i .. c
            BY <1>1, <3>4
          <5>3. ~Last(old) /\ old = [pkt |-> Elem(c, i).pkt, no |-> Elem(c, i).no + (c - i)]
            BY <4>2, <5>1, <5>2
          <5>4. new = [pkt |-> old.pkt, no |-> old.no + 1]
            BY <1>3, <5>3
          <5> HIDE DEF old, new
          <5> QED BY <1>1, <3>2, <5>3, <5>4
        <4> HIDE DEF old, new
        <4>5. Elem(c, i).pkt <= new.pkt /\ (Last(Elem(c, i)) => Elem(c, i).pkt < new.pkt)
          BY <3>2, <4>2, <4>3
        <4>6. c + 1 # i + 1 /\ i .. (c + 1) - 1 = i .. c
          BY <1>1, <3>4
        <4>7. Elem(c + 1, i)' = Elem(c, i)
          BY <1>1
        <4>8. Elem(c + 1, c + 1)' = new
          BY DEF new
        <4> QED BY <3>1, <4>4, <4>5, <4>6, <4>7, <4>8 DEF Follow, Last
      <3> QED BY <1>1, <3>3, <3>4
    <2> QED BY <1>1, <2>1, <2>2 DEF Chain
  <1>5. Begun(c + 1)'
    <2>1. Elem(c + 1, 0)' = Elem(c, 0) /\ UNCHANGED <<buf, sent>>
      BY <1>1 DEF GuestQueue
    <2> QED BY <2>1 DEF Stream, Begun
  <1> QED BY <1>1, <1>4, <1>5 DEF Stream

(* What is left of the row when n parts have been taken.                     *)
LEMMA ChainShift ==
    ASSUME NEW c \in Nat, NEW n \in 0 .. c, Chain(c),
           \A i \in 0 .. c - n : Elem(c - n, i)' = Elem(c, n + i),
           \A i \in 0 .. c : Elem(c, i).no \in Nat
    PROVE  Chain(c - n)'
  <1>1. ASSUME NEW i \in 0 .. c - n, NEW j \in 0 .. c - n, i < j
        PROVE  Follow(c - n, i, j)'
    <2>1. n + i \in 0 .. c /\ n + j \in 0 .. c /\ n + i < n + j
      BY <1>1
    <2>2. Follow(c, n + i, n + j)
      BY <2>1 DEF Chain
    <2>3. Elem(c - n, i)' = Elem(c, n + i) /\ Elem(c - n, j)' = Elem(c, n + j)
      OBVIOUS
    <2>4. ASSUME \A m \in i .. j - 1 : ~Last(Elem(c - n, m)')
          PROVE  \A m \in n + i .. n + j - 1 : ~Last(Elem(c, m))
      <3>1. ASSUME NEW m \in n + i .. n + j - 1
            PROVE  ~Last(Elem(c, m))
        <4>1. m - n \in i .. j - 1 /\ m - n \in 0 .. c - n /\ n + (m - n) = m
          BY <1>1
        <4> QED BY <2>4, <4>1
      <3> QED BY <3>1
    <2>5. (n + j) - (n + i) = j - i /\ (j = i + 1 => n + j = (n + i) + 1)
      BY <1>1
    <2> DEFINE a == Elem(c, n + i)
               b == Elem(c, n + j)
    <2>6. /\ a.pkt <= b.pkt /\ (Last(a) => a.pkt < b.pkt)
          /\ Last(a) /\ j = i + 1 => b.no = 1
          /\ (\A m \in n + i .. n + j - 1 : ~Last(Elem(c, m)))
                 => b = [pkt |-> a.pkt, no |-> a.no + (j - i)]
      BY <2>2, <2>5, SMTT(20) DEF Follow
    <2>7. Elem(c - n, i)' = a /\ Elem(c - n, j)' = b
      BY <2>3
    <2> HIDE DEF a, b
    <2> QED BY <2>4, <2>6, <2>7 DEF Follow, Last
  <1> QED BY <1>1 DEF Chain

(* What a concatenation holds.                                               *)
LEMMA Concatenated ==
    ASSUME NEW s \in Seq(Part), NEW t \in Seq(Part)
    PROVE  /\ Len(s \o t) = Len(s) + Len(t)
           /\ \A i \in 1 .. Len(s) + Len(t) :
                  (s \o t)[i] = IF i <= Len(s) THEN s[i] ELSE t[i - Len(s)]
  OBVIOUS

(* Up to the first part that ends a packet, what a kick takes continues what *)
(* is in tx_dma_buf.                                                         *)
LEMMA TakenContinues ==
    ASSUME IInv, NEW c \in 0 .. TxSize, Stream(c), NEW n \in 0 .. c,
           \A i \in 1 .. n - 1 : ~Last(TxAt(i - 1))
    PROVE  LET parts == buf \o [i \in 1 .. n |-> TxAt(i - 1)]
           IN  /\ Len(parts) = Len(buf) + n
               /\ \A i \in 1 .. Len(buf) + n :
                      parts[i] = [pkt |-> Elem(c, 0).pkt, no |-> i]
  <1>1. /\ \A i \in 0 .. c : Elem(c, i) \in [pkt : Nat \ {0}, no : Nat \ {0}]
        /\ \A i \in 0 .. c : i < c => Elem(c, i) = TxAt(i) /\ TxAt(i) \in Part
    BY ElemTyped DEF Stream
  <1>2. buf \in Seq(Part) /\ c \in Nat /\ n \in Nat /\ n <= c
    BY DEF IInv, RingTypes
  <1> DEFINE take == [i \in 1 .. n |-> TxAt(i - 1)]
  <1>3. take \in Seq(Part) /\ Len(take) = n
    <2>1. ASSUME NEW i \in 1 .. n PROVE TxAt(i - 1) \in Part
      <3>1. i - 1 \in 0 .. c /\ i - 1 < c
        BY <1>2
      <3> QED BY <1>1, <3>1
    <2> QED BY <1>2, <2>1
  <1>4. ASSUME NEW i \in 1 .. n
        PROVE  TxAt(i - 1) = [pkt |-> Elem(c, 0).pkt, no |-> Len(buf) + i]
    <2>1. i - 1 \in 0 .. c /\ i - 1 < c /\ 0 \in 0 .. c /\ 0 < c
      BY <1>2
    <2>2. Elem(c, i - 1) = TxAt(i - 1) /\ Elem(c, 0).no = Len(buf) + 1
      BY <1>1, <2>1 DEF Stream, Begun
    <2>3. CASE i = 1
      <3>1. Elem(c, 0) = [pkt |-> Elem(c, 0).pkt, no |-> Elem(c, 0).no]
        BY <1>1, <2>1
      <3> QED BY <2>2, <2>3, <3>1
    <2>4. CASE i > 1
      <3>1. Follow(c, 0, i - 1)
        BY <2>1, <2>4 DEF Stream, Chain
      <3>2. ASSUME NEW m \in 0 .. (i - 1) - 1
            PROVE  ~Last(Elem(c, m))
        <4>1. m + 1 \in 1 .. n - 1 /\ (m + 1) - 1 = m /\ m \in 0 .. c /\ m < c
          BY <1>2
        <4> QED BY <1>1, <4>1
      <3>3. Elem(c, i - 1) = [pkt |-> Elem(c, 0).pkt, no |-> Elem(c, 0).no + ((i - 1) - 0)]
        BY <3>1, <3>2 DEF Follow
      <3>4. Len(buf) \in Nat /\ (Len(buf) + 1) + ((i - 1) - 0) = Len(buf) + i
        BY <1>2
      <3> QED BY <2>2, <3>3, <3>4
    <2> QED BY <1>2, <2>3, <2>4
  <1>5. \A i \in 1 .. Len(buf) : buf[i] = [pkt |-> Elem(c, 0).pkt, no |-> i]
    BY DEF Stream, Begun
  <1>6. \A i \in 1 .. n : take[i] = [pkt |-> Elem(c, 0).pkt, no |-> Len(buf) + i]
    BY <1>4
  <1> HIDE DEF take
  <1>7. /\ Len(buf \o take) = Len(buf) + n /\ Len(buf) \in Nat
        /\ \A i \in 1 .. Len(buf) + n :
               (buf \o take)[i] = IF i <= Len(buf) THEN buf[i] ELSE take[i - Len(buf)]
    <2>1. /\ Len(buf \o take) = Len(buf) + Len(take)
          /\ \A i \in 1 .. Len(buf) + Len(take) :
                 (buf \o take)[i] = IF i <= Len(buf) THEN buf[i] ELSE take[i - Len(buf)]
      BY <1>2, <1>3, Concatenated, Zenon
    <2>2. Len(buf) \in Nat
      BY <1>2
    <2> QED BY <1>3, <2>1, <2>2, Zenon
  <1>8. ASSUME NEW i \in 1 .. Len(buf) + n
        PROVE  (buf \o take)[i] = [pkt |-> Elem(c, 0).pkt, no |-> i]
    <2>1. CASE i <= Len(buf)
      BY <1>5, <1>7, <2>1
    <2>2. CASE ~(i <= Len(buf))
      <3>1. i - Len(buf) \in 1 .. n /\ Len(buf) + (i - Len(buf)) = i
        BY <1>2, <1>7, <2>2
      <3>2. (buf \o take)[i] = take[i - Len(buf)]
        BY <1>7, <2>2
      <3> QED BY <1>6, <3>1, <3>2
    <2> QED BY <2>1, <2>2
  <1> QED BY <1>7, <1>8 DEF take

(* The last part a kick takes is the last one of what it has together.       *)
LEMMA TakenLast ==
    ASSUME buf \in Seq(Part), NEW n \in Nat \ {0}, \A i \in 1 .. n : TxAt(i - 1) \in Part
    PROVE  (buf \o [i \in 1 .. n |-> TxAt(i - 1)])[Len(buf) + n] = TxAt(n - 1)
  <1> DEFINE take == [i \in 1 .. n |-> TxAt(i - 1)]
  <1>1. take \in Seq(Part) /\ Len(take) = n /\ take[n] = TxAt(n - 1)
    OBVIOUS
  <1> HIDE DEF take
  <1>2. (buf \o take)[Len(buf) + n] = take[n]
    BY <1>1
  <1> QED BY <1>1, <1>2 DEF take

(* nvnet_dma_packet_from_guest: a packet that ends goes out whole, after the *)
(* last one; one that does not stays in tx_dma_buf for the next kick.        *)
LEMMA TakeKeepsStream ==
    ASSUME IInv, NEW c \in 0 .. TxSize, Stream(c), NEW n \in 0 .. TxSize, Taken(n),
           DmaPacketFromGuest(n, buf \o [i \in 1 .. n |-> TxAt(i - 1)], Ends(n)),
           UNCHANGED guest
    PROVE  /\ c - n \in 0 .. TxSize /\ Stream(c - n)'
           /\ sent' # sent => \E k \in 1 .. Len(Lens) :
                  sent' = Whole(k) /\ (sent = <<>> \/ k > sent[1].pkt)
  <1> DEFINE parts == buf \o [i \in 1 .. n |-> TxAt(i - 1)]
             k == Elem(c, 0).pkt
  <1>0. TxSize \in Nat /\ c \in Nat /\ n \in Nat /\ Len(buf) \in Nat
    BY DEF IInv, RingTypes
  <1>1. n <= c
    <2>1. SUFFICES ASSUME n > c PROVE FALSE
      BY <1>0
    <2>2. c \in 0 .. n - 1 /\ c \in 0 .. TxSize - 1 /\ ~(c < c)
      BY <1>0, <2>1
    <2> QED BY <2>2 DEF Taken, Stream, InRow
  <1>2. n \in 0 .. c /\ c - n \in 0 .. TxSize
    BY <1>0, <1>1
  <1>3. /\ InRow(c - n)'
        /\ \A i \in 0 .. c - n : Elem(c - n, i)' = Elem(c, n + i)
    BY <1>2, KickRow DEF Stream, DmaPacketFromGuest
  <1>4. /\ \A i \in 0 .. c : Elem(c, i) \in [pkt : Nat \ {0}, no : Nat \ {0}]
        /\ \A i \in 0 .. c : i < c => Elem(c, i) = TxAt(i) /\ TxAt(i) \in Part
    BY ElemTyped DEF Stream
  <1>5. Chain(c - n)'
    BY <1>0, <1>2, <1>3, <1>4, ChainShift DEF Stream
  <1>6. \A i \in 1 .. n - 1 : ~Last(TxAt(i - 1))
    BY <1>0 DEF Taken, Ends
  <1>7. /\ Len(parts) = Len(buf) + n
        /\ \A i \in 1 .. Len(buf) + n : parts[i] = [pkt |-> k, no |-> i]
    BY <1>2, <1>6, TakenContinues
  <1>8. Elem(c - n, 0)' = Elem(c, n)
    BY <1>0, <1>2, <1>3
  <1>9. parts \in Seq(Part)
    BY TakenParts DEF IInv
  <1>10. /\ sent' = IF Ends(n) THEN parts ELSE sent
         /\ buf' = IF Ends(n) THEN <<>> ELSE parts
    BY DEF DmaPacketFromGuest
  <1> HIDE DEF parts
  <1>11. CASE Ends(n)
    <2>1. n > 0 /\ Last(TxAt(n - 1)) /\ n - 1 \in 0 .. c /\ n - 1 < c /\ n - 1 < n
          /\ n = (n - 1) + 1 /\ n \in 0 .. c /\ 0 \in 0 .. c
      BY <1>0, <1>2, <1>11 DEF Ends
    <2>2. Elem(c, n - 1) = TxAt(n - 1) /\ TxAt(n - 1) \in Part
      BY <1>4, <2>1
    <2>3. Follow(c, n - 1, n)
      BY <2>1 DEF Stream, Chain
    <2>4. Elem(c, n).no = 1 /\ TxAt(n - 1).pkt < Elem(c, n).pkt
      BY <2>1, <2>2, <2>3 DEF Follow
    <2>5. TxAt(n - 1) = [pkt |-> k, no |-> Len(buf) + n]
      <3>1. Len(buf) + n \in 1 .. Len(buf) + n /\ n \in 1 .. n
        BY <1>0, <2>1
      <3>2. ASSUME NEW i \in 1 .. n PROVE TxAt(i - 1) \in Part
        <4>1. i - 1 \in 0 .. c /\ i - 1 < c
          BY <1>0, <1>1
        <4> QED BY <1>4, <4>1
      <3>3. n \in Nat \ {0} /\ buf \in Seq(Part)
        BY <1>0, <2>1 DEF IInv, RingTypes
      <3>4. parts[Len(buf) + n] = TxAt(n - 1)
        BY <3>2, <3>3, TakenLast DEF parts
      <3> QED BY <1>7, <3>1, <3>4
    <2>6. k \in 1 .. Len(Lens) /\ Len(parts) = Lens[k]
      BY <1>7, <2>1, <2>2, <2>5 DEF Part, Last
    <2>7. parts = Whole(k)
      <3>1. parts = [i \in 1 .. Len(parts) |-> parts[i]]
        BY <1>9
      <3> QED BY <1>7, <2>6, <3>1 DEF Whole
    <2>8. sent = <<>> \/ k > sent[1].pkt
      <3>1. sent # <<>> => sent[1].pkt < k
        BY DEF Stream, Begun
      <3>2. ASSUME sent # <<>> PROVE sent[1].pkt \in Nat
        <4>1. sent \in Seq(Part)
          BY DEF IInv, RingTypes
        <4>2. sent[1] \in Part
          BY <3>2, <4>1
        <4> QED BY <4>2 DEF Part
      <3>3. k \in Nat
        BY <1>4, <2>1
      <3> HIDE DEF k
      <3> QED BY <3>1, <3>2, <3>3
    <2>9. Begun(c - n)'
      <3>1. sent' = parts /\ buf' = <<>>
        BY <1>10, <1>11
      <3>2. parts[1].pkt = k /\ k < Elem(c, n).pkt
        <4>1. 1 \in 1 .. Len(buf) + n
          BY <1>0, <2>1
        <4> QED BY <1>7, <2>4, <2>5, <4>1
      <3>3. Elem(c - n, 0)'.no = Len(buf') + 1 /\ Len(buf') = 0
        BY <1>8, <2>4, <3>1
      <3>4. sent'[1].pkt < Elem(c - n, 0)'.pkt
        BY <1>8, <3>1, <3>2
      <3> QED BY <3>3, <3>4 DEF Begun
    <2> QED BY <1>2, <1>3, <1>5, <1>10, <1>11, <2>6, <2>7, <2>8, <2>9 DEF Stream
  <1>12. CASE ~Ends(n)
    <2>1. n = c
      <3>1. CASE n = TxSize
        BY <1>0, <1>1, <3>1
      <3>2. CASE n # TxSize
        <4>1. TxAt(n) = None /\ n \in 0 .. TxSize - 1
          BY <1>0, <1>12, <3>2 DEF Taken
        <4>2. ~(n < c)
          BY <4>1 DEF Stream, InRow
        <4> QED BY <1>0, <1>1, <4>2
      <3> QED BY <3>1, <3>2
    <2>2. sent' = sent /\ buf' = parts
      BY <1>10, <1>12
    <2>3. Elem(c, c).pkt = k /\ Elem(c, c).no = Len(buf) + n + 1
      <3>1. CASE c = 0
        BY <1>0, <2>1, <3>1 DEF Stream, Begun
      <3>2. CASE c > 0
        <4>1. Follow(c, 0, c) /\ 0 \in 0 .. c
          BY <1>0, <3>2 DEF Stream, Chain
        <4>2. ASSUME NEW m \in 0 .. c - 1
              PROVE  ~Last(Elem(c, m))
          <5>1. m \in 0 .. c /\ m < c /\ (m + 1) - 1 = m /\ m + 1 \in 1 .. n
            BY <1>0, <2>1
          <5>2. ~Last(TxAt(m))
            <6>1. CASE m + 1 = n
              <7>1. n > 0 /\ n - 1 = m
                BY <1>0, <5>1, <6>1
              <7> QED BY <1>12, <7>1 DEF Ends
            <6>2. CASE m + 1 # n
              <7>1. m + 1 \in 1 .. n - 1
                BY <1>0, <5>1, <6>2
              <7> QED BY <1>6, <5>1, <7>1
            <6> QED BY <6>1, <6>2
          <5> QED BY <1>4, <5>1, <5>2
        <4>3. Elem(c, c) = [pkt |-> k, no |-> Elem(c, 0).no + (c - 0)]
          BY <4>1, <4>2 DEF Follow
        <4>4. Elem(c, 0).no = Len(buf) + 1 /\ (Len(buf) + 1) + (c - 0) = Len(buf) + n + 1
          BY <1>0, <2>1 DEF Stream, Begun
        <4> QED BY <4>3, <4>4
      <3> QED BY <1>0, <3>1, <3>2
    <2>4. Begun(c - n)'
      <3>1. Elem(c - n, 0)'.pkt = k /\ Elem(c - n, 0)'.no = Len(buf') + 1
        BY <1>7, <1>8, <2>1, <2>2, <2>3
      <3>2. \A i \in 1 .. Len(buf') : buf'[i] = [pkt |-> k, no |-> i]
        BY <1>7, <2>2
      <3>3. sent # <<>> => sent[1].pkt < k
        BY DEF Stream, Begun
      <3> HIDE DEF k
      <3> QED BY <2>2, <3>1, <3>2, <3>3 DEF Begun
    <2> QED BY <1>2, <1>3, <1>5, <2>2, <2>4 DEF Stream
  <1> QED BY <1>11, <1>12

(* What a step does to the stream and what it sends: nothing, unless it is   *)
(* one of the driver's or a kick.                                            *)
SendsWhole ==
    sent' # sent => \E k \in 1 .. Len(Lens) :
        sent' = Whole(k) /\ (sent = <<>> \/ k > sent[1].pkt)

(* nvnet_reset, and the driver opening the device again.                     *)
LEMMA RestartKeepsStream ==
    ASSUME IInv, TxInv, Reset \/ \E bits \in SUBSET ControlBits : GuestReopen(bits)
    PROVE  TxInv' /\ UNCHANGED sent
  <1>1. PICK c \in 0 .. TxSize : Stream(c)
    BY DEF TxInv
  <1> DEFINE p == guest.pkt + (IF guest.no = 1 THEN 0 ELSE 1)
  <1>2. /\ tx' = [i \in DOMAIN tx |-> None] /\ next' = 0 /\ buf' = <<>> /\ sent' = sent
        /\ guest' = [Idle EXCEPT !.pkt = p]
    BY DEF Reset, GuestReopen, Control
  <1>3. tx' = [i \in 0 .. TxSize - 1 |-> None]
    BY <1>2 DEF IInv, RingTypes
  <1>4. guest'.pkt = p /\ guest'.no = 1 /\ guest'.tail = 0
    BY <1>2 DEF Idle
  <1>5. guest.pkt \in Nat /\ guest.pkt <= p /\ p \in Nat /\ c \in Nat
    BY DEF IInv, GuestTypes
  <1> HIDE DEF p
  <1>6. ASSUME sent # <<>> PROVE sent[1].pkt < p
    <2>1. sent[1].pkt < Elem(c, 0).pkt
      BY <1>1, <1>6 DEF Stream, Begun
    <2>2. Elem(c, 0).pkt <= Elem(c, c).pkt
      <3>1. CASE c = 0
        <4>1. Elem(c, 0).pkt \in Nat
          BY <1>1, <1>5, ElemTyped DEF Stream
        <4> QED BY <3>1, <4>1
      <3>2. CASE c > 0
        <4>1. Follow(c, 0, c)
          BY <1>1, <1>5, <3>2 DEF Stream, Chain
        <4> QED BY <4>1 DEF Follow
      <3> QED BY <1>5, <3>1, <3>2
    <2>3. Elem(c, c).pkt = guest.pkt
      BY <1>5 DEF Elem, Upcoming
    <2>4. Elem(c, 0).pkt \in Nat
      BY <1>1, <1>5, ElemTyped DEF Stream
    <2>5. sent[1].pkt \in Nat
      <3>1. sent \in Seq(Part)
        BY DEF IInv, RingTypes
      <3>2. sent[1] \in Part
        BY <1>6, <3>1
      <3> QED BY <3>2 DEF Part
    <2> QED BY <1>5, <2>1, <2>2, <2>3, <2>4, <2>5
  <1>7. Stream(0)'
    <2>1. sent' # <<>> => sent'[1].pkt < guest'.pkt
      BY <1>2, <1>4, <1>6
    <2> QED BY <1>2, <1>3, <1>4, <2>1, NextEmptyStream DEF Fresh
  <1>8. 0 \in 0 .. TxSize
    OBVIOUS
  <1> QED BY <1>2, <1>7, <1>8 DEF TxInv

(* Every step keeps the stream and sends whole packets, in order: as long as *)
(* no snapshot is taken in the middle of one.                                *)
LEMMA NextTxInv ==
    ASSUME ~Torn, IInv, TxInv, [Next]_vars
    PROVE  TxInv' /\ SendsWhole
  <1>1. PICK c \in 0 .. TxSize : Stream(c)
    BY DEF TxInv
  <1>2. ASSUME UNCHANGED <<tx, next, buf, sent>>,
               UNCHANGED <<guest.pkt, guest.no, guest.tail>>
        PROVE  TxInv' /\ SendsWhole
    BY <1>1, <1>2, SameStream DEF TxInv, SendsWhole
  <1>3. CASE Reset \/ \E bits \in SUBSET ControlBits : GuestReopen(bits)
    BY <1>3, RestartKeepsStream DEF SendsWhole
  <1>4. CASE Reload
    <2>1. UNCHANGED <<tx, next, buf, sent, guest>>
      BY <1>4 DEF Reload
    <2> QED BY <1>2, <2>1
  <1>5. CASE GuestQueue
    <2>1. UNCHANGED sent
      BY <1>5 DEF GuestQueue
    <2>2. c + 1 \in 0 .. TxSize /\ Stream(c + 1)'
      BY <1>1, <1>5, QueueKeepsStream
    <2> QED BY <2>1, <2>2 DEF TxInv, SendsWhole
  <1>6. CASE GuestKick
    <2>1. PICK n \in 0 .. TxSize : Kick(n)
      BY <1>6 DEF GuestKick
    <2>2. UNCHANGED guest /\ Taken(n)
      BY <1>6, <2>1 DEF GuestKick, Kick
    <2>3. CASE UNCHANGED <<tx, next, buf, sent>>
      BY <1>2, <2>2, <2>3
    <2>4. CASE DmaPacketFromGuest(n, buf \o [i \in 1 .. n |-> TxAt(i - 1)], Ends(n))
      <3>1. c - n \in 0 .. TxSize /\ Stream(c - n)' /\ SendsWhole
        BY <1>1, <2>2, <2>4, TakeKeepsStream DEF SendsWhole
      <3> QED BY <3>1 DEF TxInv
    <2> QED BY <2>1, <2>3, <2>4 DEF Kick
  <1>7. CASE Isr
    <2>1. UNCHANGED <<tx, next, buf, sent>>
      BY <1>7 DEF Isr, IsrRead, IsrAck, IsrTake, IsrDone, nic
    <2>2. UNCHANGED <<guest.pkt, guest.no, guest.tail>>
      BY <1>7 DEF Isr, IsrRead, IsrAck, IsrTake, IsrDone, IInv, GuestTypes
    <2> QED BY <1>2, <2>1, <2>2
  <1>8. CASE \/ GuestAutoneg \/ PacketHeld \/ LinkDown \/ LinkUp \/ AutonegTimer
             \/ \E part \in {"tx", "rx"} : GuestStart(part) \/ GuestStop(part)
             \/ \E bits \in SUBSET ControlBits : GuestControl(bits)
             \/ \E bits \in {{}, Bits} : GuestMask(bits)
             \/ \E n \in 0 .. RxSize : PacketArrives(n)
             \/ UNCHANGED vars
    <2>1. UNCHANGED <<tx, next, buf, sent, guest>>
      BY <1>8 DEF GuestAutoneg, PacketHeld, LinkDown, LinkUp, AutonegTimer, GuestStart,
         GuestStop, GuestControl, Control, GuestMask, PacketArrives, nic, vars
    <2> QED BY <1>2, <2>1
  <1> QED BY <1>3, <1>4, <1>5, <1>6, <1>7, <1>8 DEF Next

(* TxWhole: for rings of any size and any packets, what                      *)
(* nvnet_dma_packet_from_guest gives to the network is a whole packet of the *)
(* driver, later than the last one sent, however kicks, stops, resets and    *)
(* snapshots fall between its parts; but not if a snapshot is taken while a  *)
(* packet's first parts wait in tx_dma_buf, which it does not hold (Torn).   *)
THEOREM PacketsAreWhole == ASSUME ~Torn PROVE Spec => TxWhole
  <1>1. Init => IInv /\ TxInv
    <2>1. ASSUME Init PROVE TxInv
      <3>1. Stream(0)
        BY <2>1, EmptyStream DEF Init, Idle, Fresh
      <3>2. 0 \in 0 .. TxSize
        OBVIOUS
      <3> QED BY <3>1, <3>2 DEF TxInv
    <2> QED BY <2>1, InitIInv
  <1>2. IInv /\ TxInv /\ [Next]_vars => IInv' /\ TxInv' /\ [SendsWhole]_vars
    BY NextIInv, NextTxInv
  <1>3. [][SendsWhole]_vars => TxWhole
    BY PTL DEF SendsWhole, TxWhole
  <1> QED BY <1>1, <1>2, <1>3, PTL DEF Spec
================================================================================
