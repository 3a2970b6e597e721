------------------------------ MODULE PushStream ------------------------------
(***************************************************************************)
(* What the DMA pusher of an NV2A channel promises: the words between      *)
(* DMA_GET and DMA_PUT are fetched one at a time, in the order that jumps, *)
(* calls and returns give them, and every data word of a command reaches   *)
(* its method exactly once.  The buffer is a ring the guest writes: words  *)
(* the pusher has passed are the guest's again.                            *)
(*                                                                         *)
(* Addresses count words, not bytes.  A word is what the pusher's decoder  *)
(* tells apart; as a data word it stands for its whole 32 bits.            *)
(***************************************************************************)
EXTENDS Naturals

CONSTANTS Size,       \* words in the DMA object of the push buffer
          Words,      \* the words of a push buffer
          Programs,   \* the push buffers the guest may start with
          Rewrites,   \* the words it may write while the GPU runs
          NumMethods, \* the method field of DMA_STATE wraps here
          Handler,    \* the handler of each method
          MaxPath     \* bound: words the guest publishes ahead of DMA_GET

VARIABLES mem,    \* the push buffer
          fetch,  \* DMA_GET, DMA_SUBROUTINE and DMA_STATE
          put,    \* DMA_PUT
          last    \* the last word handled: by which handler, as which method's parameter

streamVars == <<mem, fetch, put, last>>

Addr == 0 .. Size - 1
NoSub == Size                  \* DMA_SUBROUTINE_STATE clear
Error == Size                  \* a fetch that stops the pusher for good
Fetch == [get : 0 .. Size, sub : 0 .. Size, method : 0 .. NumMethods - 1, count : Nat,
          inc : BOOLEAN]
Start == [get |-> 0, sub |-> NoSub, method |-> 0, count |-> 0, inc |-> FALSE]

(* A data word: the count goes down and, for increasing methods, the       *)
(* method goes up, modulo the width of its field.                          *)
Consume(f, n) ==
    [get |-> f.get + n, sub |-> f.sub, count |-> f.count - n, inc |-> f.inc,
     method |-> IF f.inc THEN (f.method + n) % NumMethods ELSE f.method]

(* The first word of a command.                                            *)
Goto(f, to, sub) ==
    [get |-> to, sub |-> sub, method |-> f.method, count |-> f.count, inc |-> f.inc]
Decode(f, w) ==
    CASE w.op = "jump"   -> Goto(f, w.to, f.sub)
      [] w.op = "call"   -> IF f.sub = NoSub THEN Goto(f, w.to, f.get + 1)
                            ELSE Goto(f, Error, f.sub)
      [] w.op = "return" -> IF f.sub # NoSub THEN Goto(f, f.sub, NoSub)
                            ELSE Goto(f, Error, f.sub)
      [] w.op = "method" -> [get |-> f.get + 1, sub |-> f.sub, method |-> w.method,
                             count |-> w.count, inc |-> w.inc]

After(m, f) == IF f.get \notin Addr THEN f
               ELSE IF f.count > 0 THEN Consume(f, 1)
               ELSE Decode(f, m[f.get])

(* What becomes of the pusher from f on if it may read n words and p is    *)
(* DMA_PUT: whether it gets to p without an error, and which words it reads. *)
Walk(m, p) ==
    LET W[n \in 0 .. MaxPath] == [f \in Fetch |->
            IF f.get = p THEN [leads |-> TRUE, reads |-> {}]
            ELSE IF n = 0 \/ f.get \notin Addr THEN [leads |-> FALSE, reads |-> {}]
            ELSE LET w == W[n - 1][After(m, f)]
                 IN  [leads |-> w.leads, reads |-> {f.get} \cup w.reads]]
    IN  W

(* The words from f up to p are published in full: in at most MaxPath of   *)
(* them they lead to p without an error.                                   *)
Leads(m, f, p) == Walk(m, p)[MaxPath][f].leads

(* The addresses the pusher has yet to read from f up to p.                *)
InUse(m, f, p) == Walk(m, p)[MaxPath][f].reads

Init == /\ mem \in Programs
        /\ fetch = Start /\ put = 0 /\ last = <<>>

FetchWord ==
    /\ fetch.get # put /\ fetch.get \in Addr
    /\ fetch' = After(mem, fetch)
    /\ last' = IF fetch.count > 0 THEN <<Handler[fetch.method], fetch.method, mem[fetch.get]>>
              ELSE last
    /\ UNCHANGED <<mem, put>>

(* The guest publishes more words, none of them before the ones in use.    *)
WritePut(p) ==
    /\ put' = p /\ UNCHANGED <<mem, fetch, last>>
    /\ Leads(mem, fetch, p) /\ InUse(mem, fetch, put) \subseteq InUse(mem, fetch, p)

(* It writes anew what lies outside the words the pusher has before it.    *)
WriteWord(a, w) ==
    /\ mem' = [mem EXCEPT ![a] = w] /\ UNCHANGED <<fetch, put, last>>
    /\ a \notin InUse(mem, fetch, put)

Next == \/ FetchWord
        \/ \E p \in Addr : WritePut(p)
        \/ \E a \in Addr, w \in Rewrites : WriteWord(a, w)

Spec == Init /\ [][Next]_streamVars
===============================================================================
