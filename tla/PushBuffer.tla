------------------------------ MODULE PushBuffer ------------------------------
(***************************************************************************)
(* The DMA pusher and puller of PFIFO as the code has them, and that they  *)
(* implement PushStream.  The code differs from the promise in three ways: *)
(* a handler may be given several data words and consume them in one call  *)
(* (pgraph_method_inc, pgraph_method_non_inc); DMA_GET and DMA_STATE are   *)
(* written back only after that call, under pfifo.lock which the puller    *)
(* has given up in between; and a refused call is tried again later.       *)
(***************************************************************************)
EXTENDS Naturals

CONSTANTS Size, Words, Programs, Rewrites, NumMethods, Handler, MaxPath, \* as in PushStream
          Batch,      \* how a method's handler takes words: "single", "inc", "non_inc"
          RangeEnd,   \* the end of the range of an "inc" handler's methods
          AddrSpace,  \* DMA addresses wrap here
          MaxPuts,    \* bound: writes of DMA_PUT
          MaxWrites,  \* bound: words written once the GPU is running
          MaxAccess   \* bound: times the guest withdraws FIFO access

VARIABLES mem, fetch, put, last,   \* as in PushStream
          pf,        \* where the PFIFO thread is
          avail,     \* num_words_available of the call under way
          done,      \* words its handler has consumed
          access,    \* NV_PGRAPH_FIFO_ACCESS
          kick,      \* pfifo.fifo_kick
          puts, writes, withdrawals

regs   == <<mem, fetch, put>>
guest  == <<access, puts, writes, withdrawals>>
vars   == <<mem, fetch, put, last, pf, avail, done, access, kick, puts, writes, withdrawals>>

(* The registers as they stand once the words already handled are counted. *)
Ahead ==
    [get |-> fetch.get + done, sub |-> fetch.sub, count |-> fetch.count - done,
     inc |-> fetch.inc,
     method |-> IF fetch.inc THEN (fetch.method + done) % NumMethods ELSE fetch.method]

Stream == INSTANCE PushStream WITH fetch <- Ahead

ASSUME StreamAssumption ==
    /\ Size \in Nat \ {0} /\ NumMethods \in Nat \ {0} /\ MaxPath \in Nat
    /\ Programs \subseteq [0 .. Size - 1 -> Words] /\ Rewrites \subseteq Words
    /\ \A w \in Words :
          w.op \in {"method", "jump", "call", "return"} /\ w.to \in 0 .. Size - 1
          /\ w.method \in 0 .. NumMethods - 1 /\ w.count \in Nat /\ w.inc \in BOOLEAN

ASSUME BatchAssumption ==
    /\ Batch \in [0 .. NumMethods - 1 -> {"single", "inc", "non_inc"}]
    /\ RangeEnd \in [0 .. NumMethods - 1 -> 0 .. NumMethods]
    /\ DOMAIN Handler = 0 .. NumMethods - 1
    /\ \A m \in 0 .. NumMethods - 1 :
          m < RangeEnd[m] /\ \A k \in m .. RangeEnd[m] - 1 : Handler[k] = Handler[m]
    /\ AddrSpace \in Nat /\ Size <= AddrSpace
    /\ {MaxPuts, MaxWrites, MaxAccess} \subseteq Nat

Addr == 0 .. Size - 1
Smaller(a, b) == IF a < b THEN a ELSE b

Init ==
    /\ mem \in Programs /\ fetch = Stream!Start /\ put = 0 /\ last = <<>>
    /\ pf = "parked" /\ avail = 0 /\ done = 0 /\ access = TRUE /\ kick = FALSE
    /\ puts = 0 /\ writes = 0 /\ withdrawals = 0
-------------------------------------------------------------------------------
(* pfifo_run_pusher: the first word of a command.                          *)
MutKeepSub(f, w) ==
    IF w.op = "return" /\ f.sub # Size THEN [f EXCEPT !.get = f.sub] ELSE Stream!Decode(f, w)
Command(f, w) == Stream!Decode(f, w)

PusherCommand ==
    /\ pf = "pusher" /\ access /\ fetch.get # put /\ fetch.get \in Addr /\ fetch.count = 0
    /\ Command(fetch, mem[fetch.get]).get # Stream!Error
    /\ fetch' = Command(fetch, mem[fetch.get])
    /\ UNCHANGED <<mem, put, last, pf, avail, done, kick, guest>>

(* A data word: the puller is offered what is published of the command,    *)
(* and releases pfifo.lock.                                                *)
MutAllWords(f, p) == f.count
Available(f, p) == Smaller(f.count, (AddrSpace + p - f.get) % AddrSpace)

PusherData ==
    /\ pf = "pusher" /\ access /\ fetch.get # put /\ fetch.get \in Addr /\ fetch.count > 0
    /\ avail' = Available(fetch, put)
    /\ pf' = "puller"
    /\ UNCHANGED <<regs, last, done, kick, guest>>

EndOfPass ==
    /\ IF kick THEN kick' = FALSE /\ pf' = "pusher"
               ELSE UNCHANGED kick /\ pf' = "parked"
    /\ avail' = 0
    /\ UNCHANGED <<regs, last, done, guest>>

PusherStops == pf = "pusher" /\ (~access \/ fetch.get = put) /\ EndOfPass

(* assert(false): an address outside the DMA object, a second call, or a   *)
(* return from no call.  The process ends there.                           *)
PusherAborts ==
    /\ pf = "pusher" /\ access /\ fetch.get # put
    /\ \/ fetch.get \notin Addr
       \/ fetch.count = 0 /\ Command(fetch, mem[fetch.get]).get = Stream!Error

Wake ==
    /\ pf = "parked" /\ kick /\ kick' = FALSE /\ pf' = "pusher"
    /\ UNCHANGED <<regs, last, avail, done, guest>>

(* can_fifo_access under pgraph.lock: refused, nothing is consumed.        *)
PullerRefused == pf = "puller" /\ ~access /\ EndOfPass

(* The handler consumes this many words in its one call.                   *)
Consumed(m, inc, n) ==
    IF Batch[m] = "inc" /\ inc THEN Smaller(n, RangeEnd[m] - m)
    ELSE IF Batch[m] = "non_inc" /\ ~inc THEN n
    ELSE 1

PullerCalls ==
    /\ pf = "puller" /\ access
    /\ pf' = "handler" /\ avail' = Consumed(fetch.method, fetch.inc, avail)
    /\ UNCHANGED <<regs, last, done, kick, guest>>

(* One word of it; pgraph.lock is held, pfifo.lock is not.                 *)
HandleWord ==
    /\ pf = "handler" /\ done < avail
    /\ last' = <<Handler[fetch.method],
                 (IF fetch.inc THEN fetch.method + done ELSE fetch.method) % NumMethods,
                 mem[fetch.get + done]>>
    /\ done' = done + 1
    /\ UNCHANGED <<regs, pf, avail, kick, guest>>

(* Back under pfifo.lock: DMA_GET, DMA_STATE and DMA_DCOUNT catch up.      *)
MutNoMask ==
    /\ pf = "handler" /\ done = avail
    /\ fetch' = [Ahead EXCEPT !.method = IF fetch.inc THEN fetch.method + done ELSE fetch.method]
    /\ done' = 0 /\ avail' = 0 /\ pf' = "pusher"
    /\ UNCHANGED <<mem, put, last, kick, guest>>
WriteBack ==
    /\ pf = "handler" /\ done = avail
    /\ fetch' = Ahead
    /\ done' = 0 /\ avail' = 0 /\ pf' = "pusher"
    /\ UNCHANGED <<mem, put, last, kick, guest>>

PfStep == \/ PusherCommand \/ PusherData \/ PusherStops \/ Wake \/ PullerRefused
          \/ PullerCalls \/ HandleWord \/ WriteBack
-------------------------------------------------------------------------------
(* The guest sees DMA_GET as the register has it, and keeps the contract   *)
(* of the ring: it publishes legal streams and writes no word in use.      *)

PfifoLockFree == pf # "pusher"

(* user_write NV_USER_DMA_PUT.                                             *)
MutPutQuietly(p) == put' = p /\ UNCHANGED kick
UserWritePut(p) == put' = p /\ kick' = TRUE

GuestPut ==
    /\ PfifoLockFree /\ puts < MaxPuts /\ puts' = puts + 1
    /\ \E p \in Addr \ {put} :
          /\ Stream!Leads(mem, fetch, p)
          /\ Stream!InUse(mem, fetch, put) \subseteq Stream!InUse(mem, fetch, p)
          /\ UserWritePut(p)
    /\ UNCHANGED <<mem, fetch, last, pf, avail, done, access, writes, withdrawals>>

GuestWriteWord ==
    /\ writes < MaxWrites /\ writes' = writes + 1
    /\ \E a \in Addr \ Stream!InUse(mem, fetch, put), w \in Rewrites :
          mem' = [mem EXCEPT ![a] = w]
    /\ UNCHANGED <<fetch, put, last, pf, avail, done, access, kick, puts, withdrawals>>

(* pgraph_write NV_PGRAPH_FIFO.                                            *)
PgraphWriteFifo(on) ==
    /\ PfifoLockFree /\ pf # "handler" /\ access' = on /\ kick' = TRUE
    /\ UNCHANGED <<regs, last, pf, avail, done, puts, writes>>
GuestFifoOff == /\ access /\ withdrawals < MaxAccess /\ withdrawals' = withdrawals + 1
                /\ PgraphWriteFifo(FALSE)
GuestFifoOn  == ~access /\ PgraphWriteFifo(TRUE) /\ UNCHANGED withdrawals

Next == PfStep \/ GuestPut \/ GuestWriteWord \/ GuestFifoOff \/ GuestFifoOn

Spec == Init /\ [][Next]_vars
FairSpec == Spec /\ WF_vars(PfStep) /\ WF_vars(GuestFifoOn)
-------------------------------------------------------------------------------
(* Type correctness; the method field stays in its width across batches.   *)
TypeOK ==
    /\ mem \in [Addr -> Words] /\ fetch \in Stream!Fetch /\ put \in Addr
    /\ pf \in {"parked", "pusher", "puller", "handler"}
    /\ avail \in 0 .. Size /\ done \in 0 .. avail
    /\ access \in BOOLEAN /\ kick \in BOOLEAN

(* The pusher implements the stream: whatever a handler takes at a time,   *)
(* however often a call is refused, and while the guest moves DMA_PUT and  *)
(* rewrites the ring behind the DMA_GET it reads, every data word reaches  *)
(* the right method once, in order, and with the value it was published    *)
(* with.                                                                   *)
Implements == Stream!Spec

(* No stream that is legal up to DMA_PUT trips the pusher's assertions.    *)
NoAbort == ~PusherAborts

(* What is published is executed: no kick is lost between the pusher's     *)
(* look at DMA_PUT and its sleep.                                          *)
Drains == fetch.get # put ~> fetch.get = put
===============================================================================
