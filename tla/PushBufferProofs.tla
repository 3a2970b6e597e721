---------------------------- MODULE PushBufferProofs ----------------------------
(* The pusher and the puller implement PushStream, for push buffers of any   *)
(* size over any set of words, any table of handlers and any bound on what   *)
(* the guest publishes at once.                                              *)
(*                                                                           *)
(* What the guest promises is stated with the recursive Walk, so the proof   *)
(* has two halves.  The first is about Walk: one step of it, that it leads   *)
(* to DMA_PUT within any larger bound as well, and what happens to it when   *)
(* DMA_PUT moves or a word is written.  The second is the inductive          *)
(* invariant IInv and, from it, the steps of the stream.                     *)
EXTENDS PushBuffer, NaturalInduction

(* The fields of DMA_STATE and the DMA addresses wrap.                     *)
LEMMA ModUnique ==
    ASSUME NEW n \in Nat \ {0}, NEW q \in Nat, NEW r \in 0 .. n - 1
    PROVE  (n * q + r) % n = r
  OBVIOUS

LEMMA ModStep ==
    ASSUME NEW n \in Nat \ {0}, NEW a \in Nat
    PROVE  ((a % n) + 1) % n = (a + 1) % n
  <1> DEFINE q == a \div n
             r == a % n
  <1>1. a = n * q + r /\ r \in 0 .. n - 1 /\ q \in Nat
    OBVIOUS
  <1> HIDE DEF q, r
  <1>2. CASE r + 1 < n
    <2>1. a + 1 = n * q + (r + 1) /\ r + 1 \in 0 .. n - 1
      BY <1>1, <1>2
    <2>2. (a + 1) % n = r + 1
      BY <2>1, <1>1, ModUnique
    <2>3. (r + 1) % n = r + 1
      BY <1>1, <1>2
    <2> QED BY <2>2, <2>3 DEF r
  <1>3. CASE r + 1 = n
    <2>1. a + 1 = n * (q + 1) + 0 /\ q + 1 \in Nat /\ 0 \in 0 .. n - 1
      BY <1>1, <1>3
    <2>2. (a + 1) % n = 0
      BY <2>1, ModUnique
    <2>3. (r + 1) % n = 0
      BY <1>3
    <2> QED BY <2>2, <2>3 DEF r
  <1> QED BY <1>1, <1>2, <1>3

LEMMA ModWrap ==
    ASSUME NEW n \in Nat \ {0}, NEW d \in 0 .. n - 1
    PROVE  d % n = d /\ (n + d) % n = d
  OBVIOUS
-------------------------------------------------------------------------------
(* Walk.  The bounds and fields the assumptions give.                      *)
LEMMA Numbers ==
    /\ Size \in Nat \ {0} /\ NumMethods \in Nat \ {0} /\ MaxPath \in Nat
    /\ AddrSpace \in Nat \ {0} /\ Size <= AddrSpace
  BY StreamAssumption, BatchAssumption

LEMMA WordTyped ==
    ASSUME NEW w \in Words
    PROVE  /\ w.op \in {"method", "jump", "call", "return"} /\ w.to \in 0 .. Size - 1
           /\ w.method \in 0 .. NumMethods - 1 /\ w.count \in Nat /\ w.inc \in BOOLEAN
  BY StreamAssumption

(* The recursion of Walk, which is well defined since the bound goes down. *)
WalkBody(m, p, F, n) ==
    [f \in Stream!Fetch |->
        IF f.get = p THEN [leads |-> TRUE, reads |-> {}]
        ELSE IF n = 0 \/ f.get \notin Stream!Addr THEN [leads |-> FALSE, reads |-> {}]
        ELSE LET w == F[n - 1][Stream!After(m, f)]
             IN  [leads |-> w.leads, reads |-> {f.get} \cup w.reads]]

LEMMA WalkDefined ==
    ASSUME NEW m, NEW p, NEW n \in 0 .. MaxPath
    PROVE  Stream!Walk(m, p)[n] = WalkBody(m, p, Stream!Walk(m, p), n)
  <1> DEFINE Good(F, k) == \A i \in 0 .. MaxPath : i <= k => F[i] = WalkBody(m, p, F, i)
             S == {k \in Nat : \E F : Good(F, k)}
             Up(F) == [i \in 0 .. MaxPath |-> WalkBody(m, p, F, i)]
  <1>1. ASSUME NEW F, NEW G, NEW i \in Nat, i > 0 => F[i - 1] = G[i - 1]
        PROVE  WalkBody(m, p, F, i) = WalkBody(m, p, G, i)
    <2>1. ASSUME NEW f \in Stream!Fetch
          PROVE  WalkBody(m, p, F, i)[f] = WalkBody(m, p, G, i)[f]
      <3>1. CASE i = 0
        BY <3>1, Zenon DEF WalkBody
      <3>2. CASE i # 0
        <4>1. F[i - 1] = G[i - 1]
          BY <1>1, <3>2
        <4> QED BY <4>1, Zenon DEF WalkBody
      <3> QED BY <3>1, <3>2
    <2>2. /\ WalkBody(m, p, F, i) = [f \in Stream!Fetch |-> WalkBody(m, p, F, i)[f]]
          /\ WalkBody(m, p, G, i) = [f \in Stream!Fetch |-> WalkBody(m, p, G, i)[f]]
      BY DEF WalkBody
    <2> HIDE DEF WalkBody
    <2> QED BY <2>1, <2>2
  <1> HIDE DEF Up
  <1>2. ASSUME NEW F, NEW i \in 0 .. MaxPath
        PROVE  Up(F)[i] = WalkBody(m, p, F, i)
    BY DEF Up
  <1>3. 0 \in S
    <2>1. ASSUME NEW i \in 0 .. MaxPath, i <= 0
          PROVE  Up(<<>>)[i] = WalkBody(m, p, Up(<<>>), i)
      <3>1. WalkBody(m, p, <<>>, i) = WalkBody(m, p, Up(<<>>), i)
        BY <1>1, <2>1
      <3> QED BY <1>2, <3>1
    <2> QED BY <2>1
  <1>4. ASSUME NEW k \in Nat, NEW F, Good(F, k)
        PROVE  Good(Up(F), k + 1)
    <2>1. ASSUME NEW i \in 0 .. MaxPath, i <= k + 1
          PROVE  Up(F)[i] = WalkBody(m, p, Up(F), i)
      <3>1. i > 0 => F[i - 1] = Up(F)[i - 1]
        <4>1. ASSUME i > 0 PROVE i - 1 \in 0 .. MaxPath /\ i - 1 <= k
          BY <4>1, <2>1, Numbers
        <4> QED BY <1>2, <1>4, <4>1
      <3> QED BY <1>1, <1>2, <2>1, <3>1
    <2> QED BY <2>1
  <1>5. Nat \subseteq S
    <2>1. ASSUME NEW k \in Nat, k \in S
          PROVE  k + 1 \in S
      <3>1. PICK F : Good(F, k)
        BY <2>1
      <3>2. Good(Up(F), k + 1)
        BY <1>4, <3>1
      <3> HIDE DEF Good
      <3> QED BY <3>2
    <2> HIDE DEF S
    <2> QED BY <1>3, <2>1, Induction
  <1>6. PICK F : Good(F, MaxPath)
    BY <1>5, Numbers
  <1>7. Up(F) = [i \in 0 .. MaxPath |-> WalkBody(m, p, Up(F), i)]
    <2>1. ASSUME NEW i \in 0 .. MaxPath
          PROVE  WalkBody(m, p, F, i) = WalkBody(m, p, Up(F), i)
      <3>1. i > 0 => F[i - 1] = Up(F)[i - 1]
        <4>1. ASSUME i > 0 PROVE i - 1 \in 0 .. MaxPath /\ i - 1 <= MaxPath
          BY <4>1, Numbers
        <4> QED BY <1>2, <1>6, <4>1
      <3> QED BY <1>1, <3>1
    <2> QED BY <2>1 DEF Up
  <1>8. Stream!Walk(m, p) = [i \in 0 .. MaxPath |-> WalkBody(m, p, Stream!Walk(m, p), i)]
    BY <1>7, Zenon DEF Stream!Walk, WalkBody
  <1> QED BY <1>8

(* The push buffer, and that a fetch from it leaves proper registers.      *)
Mem == [Stream!Addr -> Words]

LEMMA AfterTyped ==
    ASSUME NEW m \in Mem, NEW f \in Stream!Fetch, f.get \in Stream!Addr
    PROVE  Stream!After(m, f) \in Stream!Fetch
  <1> USE DEF Stream!Fetch, Stream!Addr
  <1>0. Size \in Nat /\ NumMethods \in Nat \ {0}
    BY Numbers
  <1>1. CASE f.count > 0
    <2>1. (f.method + 1) % NumMethods \in 0 .. NumMethods - 1
      BY <1>0
    <2>2. Stream!Consume(f, 1) \in Stream!Fetch
      BY <1>0, <1>1, <2>1 DEF Stream!Consume
    <2> QED BY <1>1, <2>2 DEF Stream!After
  <1>2. CASE ~(f.count > 0)
    <2> DEFINE w == m[f.get]
    <2>1. w \in Words
      BY DEF Mem
    <2>2. Stream!After(m, f) = Stream!Decode(f, w)
      BY <1>2 DEF Stream!After
    <2> HIDE DEF w
    <2>3. ASSUME NEW a \in 0 .. Size, NEW b \in 0 .. Size
          PROVE  Stream!Goto(f, a, b) \in Stream!Fetch
      BY DEF Stream!Goto
    <2>4. /\ w.op = "jump" => \E a, b \in 0 .. Size : Stream!Decode(f, w) = Stream!Goto(f, a, b)
          /\ w.op = "call" => \E a, b \in 0 .. Size : Stream!Decode(f, w) = Stream!Goto(f, a, b)
          /\ w.op = "return" => \E a, b \in 0 .. Size : Stream!Decode(f, w) = Stream!Goto(f, a, b)
      <3>1. /\ Size \in 0 .. Size /\ f.get + 1 \in 0 .. Size /\ f.sub \in 0 .. Size
            /\ w.to \in 0 .. Size
        BY <1>0, <2>1, WordTyped
      <3> QED BY <3>1 DEF Stream!Decode, Stream!Error, Stream!NoSub
    <2>5. CASE w.op = "method"
      <3>1. Stream!Decode(f, w) = [get |-> f.get + 1, sub |-> f.sub, method |-> w.method,
                                   count |-> w.count, inc |-> w.inc]
        BY <2>5 DEF Stream!Decode
      <3> QED BY <1>0, <2>1, <2>2, <3>1, WordTyped
    <2> HIDE DEF Stream!Fetch
    <2> QED BY <2>1, <2>2, <2>3, <2>4, <2>5, WordTyped
  <1> QED BY <1>1, <1>2

(* One step of Walk.                                                       *)
Steps(W, m, p) ==
    \A n \in 0 .. MaxPath, f \in Stream!Fetch :
        /\ f.get = p => W[n][f].leads /\ W[n][f].reads = {}
        /\ f.get # p /\ (n = 0 \/ f.get \notin Stream!Addr) =>
               ~W[n][f].leads /\ W[n][f].reads = {}
        /\ f.get # p /\ n # 0 /\ f.get \in Stream!Addr =>
               /\ W[n][f].leads = W[n - 1][Stream!After(m, f)].leads
               /\ W[n][f].reads = {f.get} \cup W[n - 1][Stream!After(m, f)].reads

LEMMA WalkSteps ==
    ASSUME NEW m, NEW p
    PROVE  Steps(Stream!Walk(m, p), m, p)
  <1> DEFINE W == Stream!Walk(m, p)
  <1> HIDE DEF W
  <1>1. ASSUME NEW n \in 0 .. MaxPath, NEW f \in Stream!Fetch
        PROVE  W[n][f] = WalkBody(m, p, W, n)[f]
    BY WalkDefined DEF W
  <1>2. ASSUME NEW n \in 0 .. MaxPath, NEW f \in Stream!Fetch, f.get = p
        PROVE  W[n][f].leads /\ W[n][f].reads = {}
    <2>1. W[n][f] = [leads |-> TRUE, reads |-> {}]
      BY <1>1, <1>2, Zenon DEF WalkBody
    <2> QED BY <2>1
  <1>3. ASSUME NEW n \in 0 .. MaxPath, NEW f \in Stream!Fetch, f.get # p,
               n = 0 \/ f.get \notin Stream!Addr
        PROVE  ~W[n][f].leads /\ W[n][f].reads = {}
    <2>1. W[n][f] = [leads |-> FALSE, reads |-> {}]
      BY <1>1, <1>3, Zenon DEF WalkBody
    <2> QED BY <2>1
  <1>4. ASSUME NEW n \in 0 .. MaxPath, NEW f \in Stream!Fetch, f.get # p, n # 0,
               f.get \in Stream!Addr
        PROVE  /\ W[n][f].leads = W[n - 1][Stream!After(m, f)].leads
               /\ W[n][f].reads = {f.get} \cup W[n - 1][Stream!After(m, f)].reads
    <2> DEFINE w == W[n - 1][Stream!After(m, f)]
    <2>1. W[n][f] = [leads |-> w.leads, reads |-> {f.get} \cup w.reads]
      BY <1>1, <1>4, Zenon DEF WalkBody
    <2> HIDE DEF w
    <2>2. W[n][f].leads = w.leads /\ W[n][f].reads = {f.get} \cup w.reads
      BY <2>1
    <2> QED BY <2>2 DEF w
  <1> QED BY <1>2, <1>3, <1>4 DEF Steps, W

(* A way to p within n words is one within MaxPath, and reads the same.    *)
LEMMA WalkEnough ==
    ASSUME NEW m \in Mem, NEW p, NEW f \in Stream!Fetch, NEW n \in 0 .. MaxPath,
           Stream!Walk(m, p)[n][f].leads
    PROVE  Stream!Leads(m, f, p) /\ Stream!InUse(m, f, p) = Stream!Walk(m, p)[n][f].reads
  <1> DEFINE W == Stream!Walk(m, p)
             Enough(i, g) == W[i][g].leads =>
                 \A k \in i .. MaxPath : W[k][g].leads /\ W[k][g].reads = W[i][g].reads
             S == {i \in Nat : i <= MaxPath => \A g \in Stream!Fetch : Enough(i, g)}
  <1> HIDE DEF W
  <1>0. Steps(W, m, p) /\ MaxPath \in Nat
    BY WalkSteps, Numbers DEF W
  <1>1. 0 \in S
    <2>1. ASSUME NEW g \in Stream!Fetch, W[0][g].leads, NEW k \in 0 .. MaxPath
          PROVE  W[k][g].leads /\ W[k][g].reads = W[0][g].reads
      <3>1. 0 \in 0 .. MaxPath
        BY <1>0
      <3>2. g.get = p
        BY <2>1, <3>1, <1>0 DEF Steps
      <3> QED BY <3>1, <3>2, <1>0 DEF Steps
    <2> QED BY <2>1
  <1>2. ASSUME NEW i \in Nat, i \in S
        PROVE  i + 1 \in S
    <2>1. ASSUME i + 1 <= MaxPath, NEW g \in Stream!Fetch, W[i + 1][g].leads,
                 NEW k \in i + 1 .. MaxPath
          PROVE  W[k][g].leads /\ W[k][g].reads = W[i + 1][g].reads
      <3>1. i + 1 \in 0 .. MaxPath /\ k \in 0 .. MaxPath /\ k # 0 /\ i + 1 # 0
        BY <1>0, <2>1
      <3>2. CASE g.get = p
        BY <3>1, <3>2, <1>0 DEF Steps
      <3>3. CASE g.get # p
        <4> DEFINE h == Stream!After(m, g)
        <4>1. g.get \in Stream!Addr
          BY <2>1, <3>1, <3>3, <1>0 DEF Steps
        <4>2. h \in Stream!Fetch
          BY <4>1, AfterTyped
        <4>3. W[i + 1][g].leads = W[i][h].leads /\ W[i + 1][g].reads = {g.get} \cup W[i][h].reads
          <5>1. (i + 1) - 1 = i
            OBVIOUS
          <5> QED BY <3>1, <3>3, <4>1, <5>1, <1>0 DEF Steps
        <4>4. W[k][g].leads = W[k - 1][h].leads /\ W[k][g].reads = {g.get} \cup W[k - 1][h].reads
          BY <3>1, <3>3, <4>1, <1>0 DEF Steps
        <4> HIDE DEF h
        <4>5. k - 1 \in i .. MaxPath /\ i <= MaxPath
          BY <1>0, <2>1
        <4>6. W[k - 1][h].leads /\ W[k - 1][h].reads = W[i][h].reads
          BY <1>2, <2>1, <4>2, <4>3, <4>5
        <4> QED BY <4>3, <4>4, <4>6
      <3> QED BY <3>2, <3>3
    <2> QED BY <2>1
  <1>3. Nat \subseteq S
    <2> HIDE DEF S
    <2> QED BY <1>1, <1>2, Induction
  <1>4. Enough(n, f)
    BY <1>3
  <1> QED BY <1>0, <1>4 DEF W, Stream!Leads, Stream!InUse

(* From a word before p, on the way to p: the word is in the buffer, and   *)
(* the way goes on from what follows it.                                   *)
LEMMA WalkOn ==
    ASSUME NEW m \in Mem, NEW p, NEW f \in Stream!Fetch, f.get # p, Stream!Leads(m, f, p)
    PROVE  /\ f.get \in Stream!Addr
           /\ Stream!After(m, f) \in Stream!Fetch
           /\ Stream!Leads(m, Stream!After(m, f), p)
           /\ Stream!InUse(m, f, p) = {f.get} \cup Stream!InUse(m, Stream!After(m, f), p)
  <1> DEFINE W == Stream!Walk(m, p)
             g == Stream!After(m, f)
  <1> HIDE DEF W
  <1>1. Steps(W, m, p) /\ MaxPath \in 0 .. MaxPath /\ W[MaxPath][f].leads
    BY WalkSteps, Numbers DEF W, Stream!Leads
  <1>2. f.get \in Stream!Addr /\ MaxPath # 0
    BY <1>1 DEF Steps
  <1>3. g \in Stream!Fetch
    BY <1>2, AfterTyped
  <1>4. /\ W[MaxPath][f].leads = W[MaxPath - 1][g].leads
        /\ W[MaxPath][f].reads = {f.get} \cup W[MaxPath - 1][g].reads
    BY <1>1, <1>2 DEF Steps
  <1> HIDE DEF g
  <1>5. MaxPath - 1 \in 0 .. MaxPath /\ W[MaxPath - 1][g].leads
    BY <1>1, <1>2, <1>4, Numbers
  <1>6. Stream!Leads(m, g, p) /\ Stream!InUse(m, g, p) = W[MaxPath - 1][g].reads
    BY <1>3, <1>5, WalkEnough DEF W
  <1>7. Stream!InUse(m, f, p) = W[MaxPath][f].reads
    BY DEF W, Stream!InUse
  <1> QED BY <1>2, <1>3, <1>4, <1>6, <1>7 DEF g

(* At p nothing is left to read.                                           *)
LEMMA WalkEnds ==
    ASSUME NEW m \in Mem, NEW p, NEW f \in Stream!Fetch, f.get = p
    PROVE  Stream!Leads(m, f, p) /\ Stream!InUse(m, f, p) = {}
  <1>1. MaxPath \in 0 .. MaxPath
    BY Numbers
  <1> QED BY <1>1, WalkSteps DEF Steps, Stream!Leads, Stream!InUse

(* The words in use lie in the buffer, and DMA_PUT is not one of them.     *)
LEMMA ReadsBeforePut ==
    ASSUME NEW m \in Mem, NEW p, NEW f \in Stream!Fetch
    PROVE  Stream!InUse(m, f, p) \subseteq Stream!Addr \ {p}
  <1> DEFINE W == Stream!Walk(m, p)
             S == {i \in Nat : i <= MaxPath =>
                      \A g \in Stream!Fetch : W[i][g].reads \subseteq Stream!Addr \ {p}}
  <1> HIDE DEF W
  <1>0. Steps(W, m, p) /\ MaxPath \in Nat
    BY WalkSteps, Numbers DEF W
  <1>1. 0 \in S
    <2>1. 0 \in 0 .. MaxPath
      BY <1>0
    <2> QED BY <1>0, <2>1 DEF Steps
  <1>2. ASSUME NEW i \in Nat, i \in S
        PROVE  i + 1 \in S
    <2>1. ASSUME i + 1 <= MaxPath, NEW g \in Stream!Fetch
          PROVE  W[i + 1][g].reads \subseteq Stream!Addr \ {p}
      <3>1. i + 1 \in 0 .. MaxPath /\ i + 1 # 0 /\ (i + 1) - 1 = i /\ i <= MaxPath
        BY <1>0, <2>1
      <3>2. CASE g.get = p \/ g.get \notin Stream!Addr
        BY <1>0, <3>1, <3>2 DEF Steps
      <3>3. CASE g.get # p /\ g.get \in Stream!Addr
        <4> DEFINE h == Stream!After(m, g)
        <4>1. h \in Stream!Fetch
          BY <3>3, AfterTyped
        <4>2. W[i + 1][g].reads = {g.get} \cup W[i][h].reads
          BY <1>0, <3>1, <3>3 DEF Steps
        <4> HIDE DEF h
        <4>3. W[i][h].reads \subseteq Stream!Addr \ {p}
          BY <1>2, <3>1, <4>1
        <4> QED BY <3>3, <4>2, <4>3
      <3> QED BY <3>2, <3>3
    <2> QED BY <2>1
  <1>3. Nat \subseteq S
    <2> HIDE DEF S
    <2> QED BY <1>1, <1>2, Induction
  <1> QED BY <1>0, <1>3 DEF W, Stream!InUse

(* As long as p is not among the words read on the way to q, the way to p  *)
(* begins with them.                                                       *)
LEMMA Prefix ==
    ASSUME NEW m \in Mem, NEW p, NEW q, NEW f \in Stream!Fetch, p \notin Stream!InUse(m, f, q)
    PROVE  Stream!InUse(m, f, q) \subseteq Stream!InUse(m, f, p)
  <1> DEFINE P == Stream!Walk(m, p)
             Q == Stream!Walk(m, q)
             S == {i \in Nat : i <= MaxPath =>
                      \A g \in Stream!Fetch :
                          p \notin Q[i][g].reads => Q[i][g].reads \subseteq P[i][g].reads}
  <1> HIDE DEF P, Q
  <1>0. Steps(P, m, p) /\ Steps(Q, m, q) /\ MaxPath \in Nat
    BY WalkSteps, Numbers DEF P, Q
  <1>1. 0 \in S
    <2>1. 0 \in 0 .. MaxPath
      BY <1>0
    <2>2. \A g \in Stream!Fetch : Q[0][g].reads = {}
      BY <1>0, <2>1 DEF Steps
    <2> QED BY <2>2
  <1>2. ASSUME NEW i \in Nat, i \in S
        PROVE  i + 1 \in S
    <2>1. ASSUME i + 1 <= MaxPath, NEW g \in Stream!Fetch, p \notin Q[i + 1][g].reads
          PROVE  Q[i + 1][g].reads \subseteq P[i + 1][g].reads
      <3>1. i + 1 \in 0 .. MaxPath /\ i + 1 # 0 /\ (i + 1) - 1 = i /\ i <= MaxPath
        BY <1>0, <2>1
      <3>2. CASE g.get = q \/ g.get \notin Stream!Addr
        <4>1. Q[i + 1][g].reads = {}
          BY <1>0, <3>1, <3>2 DEF Steps
        <4> QED BY <4>1
      <3>3. CASE g.get # q /\ g.get \in Stream!Addr
        <4> DEFINE h == Stream!After(m, g)
        <4>1. h \in Stream!Fetch
          BY <3>3, AfterTyped
        <4>2. Q[i + 1][g].reads = {g.get} \cup Q[i][h].reads
          BY <1>0, <3>1, <3>3 DEF Steps
        <4>3. g.get # p
          BY <2>1, <4>2
        <4>4. P[i + 1][g].reads = {g.get} \cup P[i][h].reads
          BY <1>0, <3>1, <3>3, <4>3 DEF Steps
        <4> HIDE DEF h
        <4>5. Q[i][h].reads \subseteq P[i][h].reads
          BY <1>2, <2>1, <3>1, <4>1, <4>2
        <4> QED BY <4>2, <4>4, <4>5
      <3> QED BY <3>2, <3>3
    <2> QED BY <2>1
  <1>3. Nat \subseteq S
    <2> HIDE DEF S
    <2> QED BY <1>1, <1>2, Induction
  <1>4. p \notin Q[MaxPath][f].reads
    BY DEF Q, Stream!InUse
  <1>5. Q[MaxPath][f].reads \subseteq P[MaxPath][f].reads
    BY <1>0, <1>3, <1>4
  <1> QED BY <1>5 DEF P, Q, Stream!InUse

(* A word written outside the words in use changes nothing about them.     *)
LEMMA Rewritten ==
    ASSUME NEW m \in Mem, NEW p, NEW f \in Stream!Fetch, NEW a \in Stream!Addr,
           NEW w \in Words, a \notin Stream!InUse(m, f, p), Stream!Leads(m, f, p)
    PROVE  /\ [m EXCEPT ![a] = w] \in Mem
           /\ Stream!Leads([m EXCEPT ![a] = w], f, p)
           /\ Stream!InUse([m EXCEPT ![a] = w], f, p) = Stream!InUse(m, f, p)
  <1> DEFINE M == [m EXCEPT ![a] = w]
             P == Stream!Walk(m, p)
             Q == Stream!Walk(M, p)
             S == {i \in Nat : i <= MaxPath =>
                      \A g \in Stream!Fetch :
                          a \notin P[i][g].reads /\ P[i][g].leads =>
                          Q[i][g].leads /\ Q[i][g].reads = P[i][g].reads}
  <1>a. M \in Mem
    BY DEF Mem
  <1>b. \A b \in Stream!Addr : b # a => M[b] = m[b]
    BY DEF Mem
  <1>c. \A g \in Stream!Fetch : g.get \in Stream!Addr /\ g.get # a =>
            Stream!After(M, g) = Stream!After(m, g)
    <2> HIDE DEF M
    <2> QED BY <1>b DEF Stream!After
  <1> HIDE DEF M, P, Q
  <1>0. Steps(P, m, p) /\ Steps(Q, M, p) /\ MaxPath \in Nat
    BY WalkSteps, Numbers DEF P, Q
  <1>1. 0 \in S
    <2>1. 0 \in 0 .. MaxPath
      BY <1>0
    <2>2. ASSUME NEW g \in Stream!Fetch, P[0][g].leads
          PROVE  Q[0][g].leads /\ Q[0][g].reads = P[0][g].reads
      <3>1. g.get = p
        BY <1>0, <2>1, <2>2 DEF Steps
      <3>2. P[0][g].reads = {}
        BY <1>0, <2>1, <3>1 DEF Steps
      <3>3. Q[0][g].leads /\ Q[0][g].reads = {}
        BY <1>0, <2>1, <3>1 DEF Steps
      <3> QED BY <3>2, <3>3
    <2> QED BY <2>2
  <1>2. ASSUME NEW i \in Nat, i \in S
        PROVE  i + 1 \in S
    <2>1. ASSUME i + 1 <= MaxPath, NEW g \in Stream!Fetch, a \notin P[i + 1][g].reads,
                 P[i + 1][g].leads
          PROVE  Q[i + 1][g].leads /\ Q[i + 1][g].reads = P[i + 1][g].reads
      <3>1. i + 1 \in 0 .. MaxPath /\ i + 1 # 0 /\ (i + 1) - 1 = i /\ i <= MaxPath
        BY <1>0, <2>1
      <3>2. CASE g.get = p
        <4>1. P[i + 1][g].reads = {}
          BY <1>0, <3>1, <3>2 DEF Steps
        <4>2. Q[i + 1][g].leads /\ Q[i + 1][g].reads = {}
          BY <1>0, <3>1, <3>2 DEF Steps
        <4> QED BY <4>1, <4>2
      <3>3. CASE g.get # p
        <4> DEFINE h == Stream!After(m, g)
        <4>0. g.get \in Stream!Addr
          BY <1>0, <2>1, <3>1, <3>3 DEF Steps
        <4>1. h \in Stream!Fetch
          BY <4>0, AfterTyped
        <4>2. /\ P[i + 1][g].reads = {g.get} \cup P[i][h].reads
              /\ P[i + 1][g].leads = P[i][h].leads
          BY <1>0, <3>1, <3>3, <4>0 DEF Steps
        <4>3. Stream!After(M, g) = h
          BY <1>c, <2>1, <4>0, <4>2
        <4> HIDE DEF h
        <4>4. /\ Q[i + 1][g].reads = {g.get} \cup Q[i][h].reads
              /\ Q[i + 1][g].leads = Q[i][h].leads
          BY <1>0, <3>1, <3>3, <4>0, <4>3 DEF Steps
        <4>5. Q[i][h].leads /\ Q[i][h].reads = P[i][h].reads
          BY <1>2, <2>1, <3>1, <4>1, <4>2
        <4> QED BY <4>2, <4>4, <4>5
      <3> QED BY <3>2, <3>3
    <2> QED BY <2>1
  <1>3. Nat \subseteq S
    <2> HIDE DEF S
    <2> QED BY <1>1, <1>2, Induction
  <1>4. a \notin P[MaxPath][f].reads /\ P[MaxPath][f].leads
    BY DEF P, Stream!InUse, Stream!Leads
  <1>5. Q[MaxPath][f].leads /\ Q[MaxPath][f].reads = P[MaxPath][f].reads
    BY <1>0, <1>3, <1>4
  <1>6. Stream!Leads(M, f, p) /\ Stream!InUse(M, f, p) = Stream!InUse(m, f, p)
    BY <1>5 DEF P, Q, Stream!InUse, Stream!Leads
  <1> QED BY <1>a, <1>6 DEF M
-------------------------------------------------------------------------------
(* No data word changes nothing; k of them leave proper registers.         *)
LEMMA ConsumeNone ==
    ASSUME NEW f \in Stream!Fetch
    PROVE  Stream!Consume(f, 0) = f
  <1>1. NumMethods \in Nat \ {0} /\ f.method \in 0 .. NumMethods - 1
    BY Numbers DEF Stream!Fetch
  <1>2. (f.method + 0) % NumMethods = f.method
    BY <1>1, ModWrap
  <1> QED BY <1>2 DEF Stream!Consume, Stream!Fetch

LEMMA ConsumeTyped ==
    ASSUME NEW f \in Stream!Fetch, NEW k \in Nat, k <= f.count, f.get + k <= Size
    PROVE  /\ Stream!Consume(f, k) \in Stream!Fetch
           /\ Stream!Consume(f, k).get = f.get + k
           /\ Stream!Consume(f, k).count = f.count - k
  <1>1. NumMethods \in Nat \ {0} /\ Size \in Nat /\ f.method \in 0 .. NumMethods - 1
    BY Numbers DEF Stream!Fetch
  <1>2. (f.method + k) % NumMethods \in 0 .. NumMethods - 1
    BY <1>1
  <1>3. f.get + k \in 0 .. Size /\ f.count - k \in Nat
    BY <1>1 DEF Stream!Fetch
  <1> QED BY <1>1, <1>2, <1>3 DEF Stream!Consume, Stream!Fetch

(* A data word after k of them is the next of them.                        *)
LEMMA DataWord ==
    ASSUME NEW m \in Mem, NEW f \in Stream!Fetch, NEW k \in Nat, k < f.count,
           f.get + k \in Stream!Addr
    PROVE  Stream!After(m, Stream!Consume(f, k)) = Stream!Consume(f, k + 1)
  <1> DEFINE g == Stream!Consume(f, k)
  <1>1. g.get = f.get + k /\ g.count = f.count - k /\ g.sub = f.sub /\ g.inc = f.inc
        /\ g.method = (IF f.inc THEN (f.method + k) % NumMethods ELSE f.method)
    BY DEF Stream!Consume
  <1> HIDE DEF g
  <1>2. /\ f.get \in Nat /\ f.count \in Nat /\ f.method \in Nat /\ f.inc \in BOOLEAN
        /\ NumMethods \in Nat \ {0}
    BY Numbers DEF Stream!Fetch
  <1>3. Stream!After(m, g) = Stream!Consume(g, 1)
    BY <1>1, <1>2 DEF Stream!After
  <1>4. (((f.method + k) % NumMethods) + 1) % NumMethods = (f.method + (k + 1)) % NumMethods
    <2>1. f.method + k \in Nat /\ (f.method + k) + 1 = f.method + (k + 1)
      BY <1>2
    <2> QED BY <1>2, <2>1, ModStep
  <1>5. g.get + 1 = f.get + (k + 1) /\ g.count - 1 = f.count - (k + 1)
    BY <1>1, <1>2
  <1>6. (IF g.inc THEN (g.method + 1) % NumMethods ELSE g.method)
          = (IF f.inc THEN (f.method + (k + 1)) % NumMethods ELSE f.method)
    BY <1>1, <1>4
  <1>7. Stream!Consume(g, 1) = Stream!Consume(f, k + 1)
    BY <1>1, <1>5, <1>6 DEF Stream!Consume
  <1> QED BY <1>3, <1>7 DEF g

(* The data words of a command up to p, k of them: all in use, and the way *)
(* to p goes on after them.                                                *)
LEMMA DataRun ==
    ASSUME NEW m \in Mem, NEW p, NEW f \in Stream!Fetch, NEW k \in Nat, k <= f.count,
           Stream!Leads(m, f, p), \A j \in 0 .. k - 1 : f.get + j # p
    PROVE  /\ \A j \in 0 .. k - 1 : f.get + j \in Stream!InUse(m, f, p)
           /\ f.get + k <= Size
           /\ Stream!Consume(f, k) \in Stream!Fetch
           /\ Stream!Consume(f, k).get = f.get + k
           /\ Stream!Leads(m, Stream!Consume(f, k), p)
           /\ Stream!InUse(m, Stream!Consume(f, k), p) \subseteq Stream!InUse(m, f, p)
  <1> DEFINE Run(i) == /\ \A j \in 0 .. i - 1 : f.get + j \in Stream!InUse(m, f, p)
                       /\ f.get + i <= Size
                       /\ Stream!Leads(m, Stream!Consume(f, i), p)
                       /\ Stream!InUse(m, Stream!Consume(f, i), p) \subseteq Stream!InUse(m, f, p)
             S == {i \in Nat : i <= k => Run(i)}
  <1>0. f.get \in 0 .. Size /\ f.count \in Nat /\ Size \in Nat
    BY Numbers DEF Stream!Fetch
  <1>1. 0 \in S
    BY <1>0, ConsumeNone
  <1>2. ASSUME NEW i \in Nat, Run(i), i + 1 <= k
        PROVE  Run(i + 1)
    <2> DEFINE g == Stream!Consume(f, i)
    <2>1. g \in Stream!Fetch /\ g.get = f.get + i
      BY <1>0, <1>2, ConsumeTyped
    <2> HIDE DEF g
    <2>2. g.get # p
      <3>1. i \in 0 .. k - 1
        BY <1>2
      <3> QED BY <2>1, <3>1
    <2>3. Stream!Leads(m, g, p) /\ Stream!InUse(m, g, p) \subseteq Stream!InUse(m, f, p)
      BY <1>2 DEF g
    <2>4. /\ g.get \in Stream!Addr /\ Stream!Leads(m, Stream!After(m, g), p)
          /\ Stream!InUse(m, g, p) = {g.get} \cup Stream!InUse(m, Stream!After(m, g), p)
      BY <2>1, <2>2, <2>3, WalkOn
    <2>5. Stream!After(m, g) = Stream!Consume(f, i + 1)
      BY <1>0, <1>2, <2>1, <2>4, DataWord DEF g
    <2>6. f.get + i \in Stream!InUse(m, f, p)
      BY <2>1, <2>3, <2>4
    <2>7. \A j \in 0 .. (i + 1) - 1 : j \in 0 .. i - 1 \/ j = i
      OBVIOUS
    <2>8. f.get + (i + 1) <= Size
      BY <1>0, <2>1, <2>4 DEF Stream!Addr
    <2> QED BY <1>2, <2>3, <2>4, <2>5, <2>6, <2>7, <2>8
  <1>3. Nat \subseteq S
    <2>1. \A i \in Nat : i \in S => i + 1 \in S
      <3> HIDE DEF Run
      <3> QED BY <1>2
    <2> HIDE DEF S
    <2> QED BY <1>1, <2>1, Induction
  <1>4. Run(k)
    <2> HIDE DEF Run
    <2> QED BY <1>3
  <1> QED BY <1>0, <1>4, ConsumeTyped
-------------------------------------------------------------------------------
(* The inductive invariant.                                                *)

InUse == Stream!InUse(mem, fetch, put)

(* From the registers on, the published words lead to DMA_PUT.             *)
Published == Stream!Leads(mem, fetch, put)

(* A call is offered, and its handler takes, data words of the command     *)
(* under way that are still in use; outside a call there is nothing to     *)
(* count.                                                                  *)
Offered ==
    /\ pf \in {"parked", "pusher"} => avail = 0 /\ done = 0
    /\ pf = "puller" => done = 0
    /\ pf \in {"puller", "handler"} =>
          /\ 1 <= avail /\ avail <= fetch.count
          /\ \A j \in 0 .. avail - 1 : fetch.get + j \in InUse

(* The methods of an increasing batch lie in the range of one handler.     *)
OneRange ==
    pf = "handler" /\ fetch.inc /\ 1 < avail => fetch.method + avail <= RangeEnd[fetch.method]

IInv == TypeOK /\ Published /\ Offered /\ OneRange

LEMMA AheadIsConsume == Ahead = Stream!Consume(fetch, done)
  BY DEF Ahead, Stream!Consume

LEMMA MemTyped == TypeOK => mem \in Mem
  BY DEF TypeOK, Mem, Addr, Stream!Addr

(* Between two calls the registers are up to date.                         *)
LEMMA AheadIsFetch ==
    ASSUME TypeOK, done = 0
    PROVE  Ahead = fetch
  BY AheadIsConsume, ConsumeNone DEF TypeOK

(* During a call: the words it has handled are data words before any       *)
(* DMA_PUT that keeps the words in use, and the stream goes on after them. *)
LEMMA AheadLeads ==
    ASSUME IInv, NEW p, Stream!Leads(mem, fetch, p),
           InUse \subseteq Stream!InUse(mem, fetch, p)
    PROVE  /\ Ahead \in Stream!Fetch
           /\ Ahead.get = fetch.get + done
           /\ Stream!Leads(mem, Ahead, p)
           /\ Stream!InUse(mem, Ahead, p) \subseteq Stream!InUse(mem, fetch, p)
  <1>1. mem \in Mem /\ fetch \in Stream!Fetch /\ done \in Nat /\ avail \in Nat /\ done <= avail
    BY MemTyped, Numbers DEF IInv, TypeOK
  <1>2. done <= fetch.count
    BY <1>1 DEF IInv, TypeOK, Offered, Stream!Fetch
  <1>3. ASSUME NEW j \in 0 .. done - 1
        PROVE  fetch.get + j # p
    <2>1. pf \in {"puller", "handler"} /\ j \in 0 .. avail - 1
      BY <1>1 DEF IInv, TypeOK, Offered
    <2>2. fetch.get + j \in Stream!InUse(mem, fetch, p)
      BY <2>1 DEF IInv, Offered
    <2> QED BY <1>1, <2>2, ReadsBeforePut
  <1> QED BY <1>1, <1>2, <1>3, DataRun, AheadIsConsume
-------------------------------------------------------------------------------
(* Each action keeps the invariant.                                        *)
LEMMA InitInv == Init => IInv
  <1> SUFFICES ASSUME Init PROVE IInv
    OBVIOUS
  <1>0. /\ Size \in Nat \ {0} /\ NumMethods \in Nat \ {0}
        /\ 0 \in Addr /\ 0 \in 0 .. Size /\ Size \in 0 .. Size /\ 0 \in 0 .. NumMethods - 1
    BY Numbers DEF Addr
  <1>1. fetch \in Stream!Fetch /\ fetch.get = 0
    BY <1>0 DEF Init, Stream!Start, Stream!Fetch, Stream!NoSub
  <1>2. TypeOK
    <2>1. mem \in [Addr -> Words]
      BY StreamAssumption DEF Init, Addr
    <2>2. avail \in 0 .. Size /\ done \in 0 .. avail
      BY <1>0 DEF Init
    <2> QED BY <1>0, <1>1, <2>1, <2>2 DEF Init, TypeOK
  <1>3. Published
    BY <1>1, <1>2, MemTyped, WalkEnds DEF Init, Published
  <1>4. Offered /\ OneRange
    BY DEF Init, Offered, OneRange
  <1> QED BY <1>2, <1>3, <1>4 DEF IInv

(* Where the registers and the push buffer stay as they are, and no call   *)
(* begins, only the counts of the call matter.                             *)
LEMMA EndOfPassInv ==
    ASSUME IInv, EndOfPass, pf \in {"pusher", "puller"}
    PROVE  IInv'
  <1>1. /\ mem' = mem /\ fetch' = fetch /\ put' = put /\ done' = 0 /\ avail' = 0
        /\ access' = access /\ pf' \in {"parked", "pusher"} /\ kick' \in BOOLEAN
    BY DEF IInv, TypeOK, Offered, EndOfPass, regs, guest
  <1>2. TypeOK'
    BY <1>1, Numbers DEF IInv, TypeOK, Addr
  <1>3. Published'
    BY <1>1 DEF IInv, Published
  <1>4. Offered' /\ OneRange'
    BY <1>1 DEF Offered, OneRange
  <1> QED BY <1>2, <1>3, <1>4 DEF IInv

LEMMA CommandInv == IInv /\ PusherCommand => IInv'
  <1> SUFFICES ASSUME IInv, PusherCommand PROVE IInv'
    OBVIOUS
  <1>1. mem \in Mem /\ fetch \in Stream!Fetch /\ Stream!Leads(mem, fetch, put)
    BY MemTyped DEF IInv, TypeOK, Published
  <1>2. fetch' = Stream!After(mem, fetch)
    BY DEF PusherCommand, Command, Stream!After, Addr, Stream!Addr
  <1>3. fetch' \in Stream!Fetch /\ Stream!Leads(mem, fetch', put)
    BY <1>1, <1>2, WalkOn DEF PusherCommand
  <1>4. TypeOK'
    BY <1>3 DEF IInv, TypeOK, PusherCommand, guest
  <1>5. Published'
    BY <1>3 DEF Published, PusherCommand
  <1>6. Offered' /\ OneRange'
    BY DEF IInv, Offered, OneRange, PusherCommand
  <1> QED BY <1>4, <1>5, <1>6 DEF IInv

(* The words on offer are those of the command before DMA_PUT: at least    *)
(* one, and none past it, also where DMA_PUT is behind DMA_GET.            *)
LEMMA AvailableFits ==
    ASSUME NEW m \in Mem, NEW f \in Stream!Fetch, NEW p \in Stream!Addr,
           f.get # p, f.count > 0, Stream!Leads(m, f, p)
    PROVE  /\ Available(f, p) \in 1 .. Size /\ Available(f, p) <= f.count
           /\ \A j \in 0 .. Available(f, p) - 1 : f.get + j \in Stream!InUse(m, f, p)
  <1> DEFINE gap == (AddrSpace + p - f.get) % AddrSpace
             n == Available(f, p)
  <1>1. /\ Size \in Nat \ {0} /\ AddrSpace \in Nat \ {0} /\ Size <= AddrSpace
        /\ f.get \in 0 .. Size - 1 /\ f.count \in Nat \ {0} /\ p \in 0 .. Size - 1
    BY Numbers, WalkOn DEF Stream!Fetch, Stream!Addr
  <1>2. CASE f.get < p
    <2>1. gap = p - f.get
      <3>1. p - f.get \in 0 .. AddrSpace - 1 /\ AddrSpace + p - f.get = AddrSpace + (p - f.get)
        BY <1>1, <1>2
      <3> QED BY <1>1, <3>1, ModWrap
    <2> HIDE DEF gap
    <2>2. n \in 1 .. Size /\ n <= f.count /\ n <= p - f.get
      BY <1>1, <1>2, <2>1 DEF Available, Smaller, gap
    <2> HIDE DEF n
    <2>3. \A j \in 0 .. n - 1 : f.get + j # p
      BY <1>1, <1>2, <2>2
    <2>4. \A j \in 0 .. n - 1 : f.get + j \in Stream!InUse(m, f, p)
      BY <2>2, <2>3, DataRun
    <2> QED BY <2>2, <2>4 DEF n
  <1>3. CASE p < f.get
    <2>1. gap = AddrSpace + p - f.get
      <3>1. AddrSpace + p - f.get \in 0 .. AddrSpace - 1
        BY <1>1, <1>3
      <3> QED BY <1>1, <3>1, ModWrap
    <2>2. \A j \in 0 .. f.count - 1 : f.get + j # p
      BY <1>1, <1>3
    <2>3. /\ \A j \in 0 .. f.count - 1 : f.get + j \in Stream!InUse(m, f, p)
          /\ f.get + f.count <= Size
      BY <1>1, <2>2, DataRun
    <2> HIDE DEF gap
    <2>4. n = f.count
      BY <1>1, <1>3, <2>1, <2>3 DEF Available, Smaller, gap
    <2> QED BY <1>1, <2>3, <2>4
  <1> QED BY <1>1, <1>2, <1>3

LEMMA DataInv == IInv /\ PusherData => IInv'
  <1> SUFFICES ASSUME IInv, PusherData PROVE IInv'
    OBVIOUS
  <1>1. /\ mem \in Mem /\ fetch \in Stream!Fetch /\ Stream!Leads(mem, fetch, put)
        /\ put \in Stream!Addr
    BY MemTyped DEF IInv, TypeOK, Published, Addr, Stream!Addr
  <1>2. /\ avail' \in 1 .. Size /\ avail' <= fetch.count
        /\ \A j \in 0 .. avail' - 1 : fetch.get + j \in Stream!InUse(mem, fetch, put)
    BY <1>1, AvailableFits DEF PusherData
  <1>3. /\ mem' = mem /\ fetch' = fetch /\ put' = put /\ done' = 0 /\ pf' = "puller"
        /\ kick' = kick /\ access' = access
    BY DEF IInv, Offered, PusherData, regs, guest
  <1>4. TypeOK'
    <2>1. avail' \in 0 .. Size /\ done' \in 0 .. avail'
      BY <1>2, <1>3, Numbers
    <2> QED BY <1>3, <2>1 DEF IInv, TypeOK, Addr
  <1>5. Published' /\ OneRange'
    BY <1>3 DEF IInv, Published, OneRange
  <1>6. Offered'
    <2>1. 1 <= avail' /\ avail' <= fetch'.count
      BY <1>2, <1>3
    <2> QED BY <1>2, <1>3, <2>1 DEF Offered, InUse
  <1> QED BY <1>4, <1>5, <1>6 DEF IInv

LEMMA WakeInv == IInv /\ Wake => IInv'
  <1> SUFFICES ASSUME IInv, Wake PROVE IInv'
    OBVIOUS
  <1>1. /\ mem' = mem /\ fetch' = fetch /\ put' = put /\ done' = 0 /\ avail' = 0
        /\ access' = access /\ pf' = "pusher" /\ kick' \in BOOLEAN
    BY DEF IInv, TypeOK, Offered, Wake, regs, guest
  <1>2. TypeOK'
    BY <1>1, Numbers DEF IInv, TypeOK, Addr
  <1>3. Published' /\ Offered' /\ OneRange'
    BY <1>1 DEF IInv, Published, Offered, OneRange
  <1> QED BY <1>2, <1>3 DEF IInv

(* A handler takes some of what it is offered, more than one word only in  *)
(* its own way: up to the end of its range, or of one method.              *)
LEMMA ConsumedFits ==
    ASSUME NEW m \in 0 .. NumMethods - 1, NEW inc \in BOOLEAN, NEW n \in Nat \ {0}
    PROVE  /\ Consumed(m, inc, n) \in 1 .. n
           /\ inc /\ 1 < Consumed(m, inc, n) => m + Consumed(m, inc, n) <= RangeEnd[m]
  <1>1. RangeEnd[m] \in Nat /\ m \in Nat /\ m < RangeEnd[m]
    BY BatchAssumption, Numbers
  <1> QED BY <1>1 DEF Consumed, Smaller

LEMMA CallsInv == IInv /\ PullerCalls => IInv'
  <1> SUFFICES ASSUME IInv, PullerCalls PROVE IInv'
    OBVIOUS
  <1>1. /\ fetch.method \in 0 .. NumMethods - 1 /\ fetch.inc \in BOOLEAN
        /\ avail \in Nat \ {0} /\ avail <= Size /\ Size \in Nat /\ fetch.count \in Nat
        /\ avail <= fetch.count
    BY Numbers DEF IInv, TypeOK, Offered, PullerCalls, Stream!Fetch
  <1>2. /\ avail' \in 1 .. avail
        /\ fetch.inc /\ 1 < avail' => fetch.method + avail' <= RangeEnd[fetch.method]
    BY <1>1, ConsumedFits DEF PullerCalls
  <1>3. /\ mem' = mem /\ fetch' = fetch /\ put' = put /\ done' = 0 /\ pf' = "handler"
        /\ kick' = kick /\ access' = access
    BY DEF IInv, Offered, PullerCalls, regs, guest
  <1>4. TypeOK'
    <2>1. avail' \in 0 .. Size /\ done' \in 0 .. avail'
      BY <1>1, <1>2, <1>3
    <2> QED BY <1>3, <2>1 DEF IInv, TypeOK, Addr
  <1>5. Published' /\ OneRange'
    BY <1>2, <1>3 DEF IInv, Published, OneRange
  <1>6. Offered'
    <2>1. 1 <= avail' /\ avail' <= fetch'.count /\ InUse' = InUse
      BY <1>1, <1>2, <1>3 DEF InUse
    <2>2. \A j \in 0 .. avail' - 1 : fetch.get + j \in InUse
      <3>1. avail \in Nat /\ avail' \in Nat /\ avail' <= avail
        BY <1>1, <1>2
      <3>2. \A k, n \in Nat : k <= n => \A j \in 0 .. k - 1 : j \in 0 .. n - 1
        OBVIOUS
      <3> QED BY <3>1, <3>2 DEF IInv, Offered, PullerCalls
    <2> QED BY <1>3, <2>1, <2>2 DEF Offered
  <1> QED BY <1>4, <1>5, <1>6 DEF IInv

LEMMA HandleInv == IInv /\ HandleWord => IInv'
  <1> SUFFICES ASSUME IInv, HandleWord PROVE IInv'
    OBVIOUS
  <1>1. /\ mem' = mem /\ fetch' = fetch /\ put' = put /\ done' = done + 1 /\ pf' = "handler"
        /\ kick' = kick /\ access' = access /\ avail' = avail
    BY DEF HandleWord, regs, guest
  <1>2. TypeOK'
    <2>1. done' \in 0 .. avail'
      BY <1>1, Numbers DEF IInv, TypeOK, HandleWord
    <2> QED BY <1>1, <2>1 DEF IInv, TypeOK, Addr
  <1>3. Published' /\ OneRange'
    BY <1>1 DEF IInv, Published, OneRange, HandleWord
  <1>4. Offered'
    <2>1. InUse' = InUse
      BY <1>1 DEF InUse
    <2> QED BY <1>1, <2>1 DEF IInv, Offered, HandleWord
  <1> QED BY <1>2, <1>3, <1>4 DEF IInv

LEMMA WriteBackInv == IInv /\ WriteBack => IInv'
  <1> SUFFICES ASSUME IInv, WriteBack PROVE IInv'
    OBVIOUS
  <1>1. /\ mem' = mem /\ fetch' = Ahead /\ put' = put /\ done' = 0 /\ pf' = "pusher"
        /\ kick' = kick /\ access' = access /\ avail' = 0
    BY DEF WriteBack, guest
  <1>2. Ahead \in Stream!Fetch /\ Stream!Leads(mem, Ahead, put)
    <2>1. Stream!Leads(mem, fetch, put) /\ InUse \subseteq Stream!InUse(mem, fetch, put)
      BY DEF IInv, Published, InUse
    <2> QED BY <2>1, AheadLeads
  <1>3. TypeOK'
    <2>1. avail' \in 0 .. Size /\ done' \in 0 .. avail'
      BY <1>1, Numbers
    <2> QED BY <1>1, <1>2, <2>1 DEF IInv, TypeOK, Addr
  <1>4. Published'
    BY <1>1, <1>2 DEF Published
  <1>5. Offered' /\ OneRange'
    BY <1>1 DEF Offered, OneRange
  <1> QED BY <1>3, <1>4, <1>5 DEF IInv

(* The guest keeps the words in use, so what was offered stays in use.     *)
LEMMA PutInv == IInv /\ GuestPut => IInv'
  <1> SUFFICES ASSUME IInv, GuestPut PROVE IInv'
    OBVIOUS
  <1>1. PICK p \in Addr \ {put} :
            /\ Stream!Leads(mem, fetch, p)
            /\ Stream!InUse(mem, fetch, put) \subseteq Stream!InUse(mem, fetch, p)
            /\ UserWritePut(p)
    BY DEF GuestPut
  <1>2. /\ mem' = mem /\ fetch' = fetch /\ put' = p /\ done' = done /\ pf' = pf
        /\ kick' = TRUE /\ access' = access /\ avail' = avail
    BY <1>1 DEF GuestPut, UserWritePut
  <1>3. TypeOK'
    BY <1>1, <1>2 DEF IInv, TypeOK, Addr
  <1>4. Published' /\ OneRange'
    BY <1>1, <1>2 DEF IInv, Published, OneRange
  <1>5. Offered'
    <2>1. InUse \subseteq InUse'
      BY <1>1, <1>2 DEF InUse
    <2> QED BY <1>2, <2>1 DEF IInv, Offered
  <1> QED BY <1>3, <1>4, <1>5 DEF IInv

LEMMA WriteWordInv == IInv /\ GuestWriteWord => IInv'
  <1> SUFFICES ASSUME IInv, GuestWriteWord PROVE IInv'
    OBVIOUS
  <1>1. PICK a \in Addr \ InUse, w \in Rewrites : mem' = [mem EXCEPT ![a] = w]
    BY DEF GuestWriteWord, InUse
  <1>2. /\ fetch' = fetch /\ put' = put /\ done' = done /\ pf' = pf
        /\ kick' = kick /\ access' = access /\ avail' = avail
    BY DEF GuestWriteWord
  <1>3. /\ mem' \in Mem /\ Stream!Leads(mem', fetch, put)
        /\ Stream!InUse(mem', fetch, put) = InUse
    <2>1. /\ mem \in Mem /\ fetch \in Stream!Fetch /\ Stream!Leads(mem, fetch, put)
          /\ w \in Words /\ a \in Stream!Addr /\ a \notin Stream!InUse(mem, fetch, put)
      BY MemTyped, StreamAssumption DEF IInv, TypeOK, Published, InUse, Addr, Stream!Addr
    <2> QED BY <1>1, <2>1, Rewritten DEF InUse
  <1>4. TypeOK'
    BY <1>2, <1>3 DEF IInv, TypeOK, Mem, Addr, Stream!Addr
  <1>5. Published' /\ OneRange'
    BY <1>2, <1>3 DEF IInv, Published, OneRange
  <1>6. Offered'
    <2>1. InUse' = InUse
      BY <1>2, <1>3 DEF InUse
    <2> QED BY <1>2, <2>1 DEF IInv, Offered
  <1> QED BY <1>4, <1>5, <1>6 DEF IInv

LEMMA FifoInv ==
    ASSUME IInv, NEW on \in BOOLEAN, PgraphWriteFifo(on)
    PROVE  IInv'
  <1>1. /\ mem' = mem /\ fetch' = fetch /\ put' = put /\ done' = done /\ pf' = pf
        /\ kick' = TRUE /\ access' = on /\ avail' = avail
    BY DEF PgraphWriteFifo, regs
  <1>2. TypeOK'
    BY <1>1 DEF IInv, TypeOK, Addr
  <1>3. Published' /\ OneRange'
    BY <1>1 DEF IInv, Published, OneRange
  <1>4. Offered'
    <2>1. InUse' = InUse
      BY <1>1 DEF InUse
    <2> QED BY <1>1, <2>1 DEF IInv, Offered
  <1> QED BY <1>2, <1>3, <1>4 DEF IInv

LEMMA StutterInv == IInv /\ UNCHANGED vars => IInv'
  BY DEF IInv, TypeOK, Published, Offered, OneRange, InUse, vars, Addr

(* IInv is inductive: it holds at the start, and each step of the PFIFO    *)
(* thread and of the guest keeps it.                                       *)
THEOREM Invariance == Spec => []IInv
  <1>1. Init => IInv
    BY InitInv
  <1>2. IInv /\ [Next]_vars => IInv'
    <2> SUFFICES ASSUME IInv, [Next]_vars PROVE IInv'
      OBVIOUS
    <2>1. CASE PusherCommand
      BY <2>1, CommandInv
    <2>2. CASE PusherData
      BY <2>2, DataInv
    <2>3. CASE PusherStops
      BY <2>3, EndOfPassInv DEF PusherStops
    <2>4. CASE Wake
      BY <2>4, WakeInv
    <2>5. CASE PullerRefused
      BY <2>5, EndOfPassInv DEF PullerRefused
    <2>6. CASE PullerCalls
      BY <2>6, CallsInv
    <2>7. CASE HandleWord
      BY <2>7, HandleInv
    <2>8. CASE WriteBack
      BY <2>8, WriteBackInv
    <2>9. CASE GuestPut
      BY <2>9, PutInv
    <2>10. CASE GuestWriteWord
      BY <2>10, WriteWordInv
    <2>11. CASE GuestFifoOff
      BY <2>11, FifoInv DEF GuestFifoOff
    <2>12. CASE GuestFifoOn
      BY <2>12, FifoInv DEF GuestFifoOn
    <2>13. CASE UNCHANGED vars
      BY <2>13, StutterInv
    <2> QED
      BY <2>1, <2>2, <2>3, <2>4, <2>5, <2>6, <2>7, <2>8, <2>9, <2>10, <2>11, <2>12, <2>13
      DEF Next, PfStep
  <1> QED BY <1>1, <1>2, PTL DEF Spec

(* pfifo_run_pusher and pfifo_run_puller keep DMA_GET in the DMA object or *)
(* just past it, DMA_STATE's method in the width of its field, and never   *)
(* count more words handled than were on offer.                            *)
THEOREM Typed == Spec => []TypeOK
  <1>1. IInv => TypeOK
    BY DEF IInv
  <1> QED BY <1>1, Invariance, PTL

(* As long as the guest publishes legal streams and leaves the words in    *)
(* use alone, no assertion of pfifo_run_pusher fails: not the limit of the *)
(* DMA object, not the nesting of calls.                                   *)
THEOREM NoAssertFails == Spec => []NoAbort
  <1>1. IInv => NoAbort
    <2> SUFFICES ASSUME IInv, PusherAborts PROVE FALSE
      BY DEF NoAbort
    <2>1. /\ mem \in Mem /\ fetch \in Stream!Fetch /\ Stream!Leads(mem, fetch, put)
          /\ fetch.get # put /\ put # Size /\ put \in Stream!Addr
      BY MemTyped, Numbers DEF IInv, TypeOK, Published, PusherAborts, Addr, Stream!Addr
    <2> DEFINE g == Stream!After(mem, fetch)
    <2>2. fetch.get \in Stream!Addr /\ g \in Stream!Fetch /\ Stream!Leads(mem, g, put)
      BY <2>1, WalkOn
    <2>3. g.get = Size
      BY <2>2 DEF PusherAborts, Command, Stream!After, Stream!Error, Addr, Stream!Addr
    <2> HIDE DEF g
    <2>4. g.get \in Stream!Addr
      BY <2>1, <2>2, <2>3, WalkOn
    <2> QED BY <2>3, <2>4, Numbers DEF Stream!Addr
  <1> QED BY <1>1, Invariance, PTL
-------------------------------------------------------------------------------
(* The refinement.  The registers as the stream has them change with each  *)
(* word a handler takes and with each command decoded, and stay when the   *)
(* registers proper catch up.                                              *)

LEMMA FetchSteps ==
    ASSUME IInv, IInv', PusherCommand \/ HandleWord
    PROVE  Stream!FetchWord
  <1>1. mem \in Mem /\ fetch \in Stream!Fetch
    BY MemTyped DEF IInv, TypeOK
  <1>2. CASE PusherCommand
    <2>1. Ahead = fetch /\ Ahead' = fetch'
      <3>1. done = 0 /\ done' = 0
        BY <1>2 DEF IInv, Offered, PusherCommand
      <3>2. Ahead = fetch
        BY <3>1, AheadIsFetch DEF IInv
      <3>3. (TypeOK /\ done = 0 => Ahead = fetch)'
        BY AheadIsFetch, PTL
      <3>4. Ahead' = fetch'
        BY <3>1, <3>3 DEF IInv
      <3> QED BY <3>2, <3>4
    <2>2. fetch' = Stream!After(mem, fetch) /\ ~(fetch.count > 0)
      BY <1>2 DEF PusherCommand, Command, Stream!After, Addr, Stream!Addr
    <2> QED BY <1>2, <2>1, <2>2 DEF Stream!FetchWord, PusherCommand, Addr, Stream!Addr
  <1>3. CASE HandleWord
    <2>1. /\ done \in Nat /\ avail \in Nat /\ done < avail /\ avail <= fetch.count
          /\ fetch.get + done \in InUse /\ fetch.count \in Nat /\ fetch.get \in Nat
      BY <1>3, Numbers DEF IInv, TypeOK, Offered, HandleWord, Stream!Fetch
    <2>2. fetch.get + done \in Stream!Addr /\ fetch.get + done # put
      BY <1>1, <2>1, ReadsBeforePut DEF InUse
    <2>3. Ahead = Stream!Consume(fetch, done) /\ Ahead' = Stream!Consume(fetch, done + 1)
      BY <1>3, AheadIsConsume DEF Ahead, Stream!Consume, HandleWord, regs
    <2>4. Ahead' = Stream!After(mem, Ahead)
      BY <1>1, <2>1, <2>2, <2>3, DataWord
    <2>5. /\ Ahead.get = fetch.get + done /\ Ahead.count = fetch.count - done
          /\ Ahead.method = IF fetch.inc THEN (fetch.method + done) % NumMethods ELSE fetch.method
      BY DEF Ahead
    <2>6. Ahead.count > 0
      BY <2>1, <2>5
    <2>7. /\ Ahead.method = (IF fetch.inc THEN fetch.method + done ELSE fetch.method) % NumMethods
          /\ Handler[Ahead.method] = Handler[fetch.method]
      <3>1. /\ NumMethods \in Nat \ {0} /\ fetch.method \in 0 .. NumMethods - 1
            /\ fetch.inc \in BOOLEAN
        BY <1>1, Numbers DEF Stream!Fetch
      <3>2. fetch.method % NumMethods = fetch.method
        BY <3>1, ModWrap
      <3>3. CASE ~fetch.inc \/ done = 0
        BY <2>5, <3>1, <3>2, <3>3
      <3>4. CASE fetch.inc /\ done # 0
        <4>1. /\ RangeEnd[fetch.method] \in 0 .. NumMethods
              /\ \A k \in fetch.method .. RangeEnd[fetch.method] - 1 :
                     Handler[k] = Handler[fetch.method]
          BY <3>1, BatchAssumption
        <4>2. fetch.method + avail <= RangeEnd[fetch.method]
          BY <1>3, <2>1, <3>4 DEF IInv, OneRange, HandleWord
        <4>3. /\ fetch.method + done \in fetch.method .. RangeEnd[fetch.method] - 1
              /\ fetch.method + done \in 0 .. NumMethods - 1
          BY <2>1, <3>1, <4>1, <4>2
        <4>4. (fetch.method + done) % NumMethods = fetch.method + done
          BY <3>1, <4>3, ModWrap
        <4> QED BY <2>5, <3>4, <4>1, <4>3, <4>4
      <3> QED BY <3>3, <3>4
    <2>8. last' = <<Handler[Ahead.method], Ahead.method, mem[Ahead.get]>>
      BY <1>3, <2>5, <2>7 DEF HandleWord
    <2>9. mem' = mem /\ put' = put
      BY <1>3 DEF HandleWord, regs
    <2> HIDE DEF Ahead
    <2> QED BY <2>2, <2>4, <2>5, <2>6, <2>8, <2>9 DEF Stream!FetchWord
  <1> QED BY <1>2, <1>3

LEMMA PutSteps ==
    ASSUME IInv, GuestPut
    PROVE  \E p \in Stream!Addr : Stream!WritePut(p)
  <1>1. PICK p \in Addr \ {put} :
            /\ Stream!Leads(mem, fetch, p)
            /\ Stream!InUse(mem, fetch, put) \subseteq Stream!InUse(mem, fetch, p)
            /\ UserWritePut(p)
    BY DEF GuestPut
  <1>2. put' = p /\ mem' = mem /\ Ahead' = Ahead /\ last' = last
    BY <1>1 DEF GuestPut, UserWritePut, Ahead
  <1>3. mem \in Mem /\ fetch \in Stream!Fetch
    BY MemTyped DEF IInv, TypeOK
  <1>4. Ahead \in Stream!Fetch /\ Stream!Leads(mem, Ahead, p)
    BY <1>1, AheadLeads DEF InUse
  <1>5. Stream!InUse(mem, Ahead, put) \subseteq Stream!InUse(mem, fetch, put)
    BY AheadLeads DEF IInv, Published, InUse
  <1>6. p \notin Stream!InUse(mem, Ahead, put)
    BY <1>1, <1>3, <1>5, ReadsBeforePut
  <1>7. Stream!InUse(mem, Ahead, put) \subseteq Stream!InUse(mem, Ahead, p)
    BY <1>3, <1>4, <1>6, Prefix
  <1> QED BY <1>1, <1>2, <1>4, <1>7 DEF Stream!WritePut, Addr, Stream!Addr

LEMMA WriteWordSteps ==
    ASSUME IInv, GuestWriteWord
    PROVE  \E a \in Stream!Addr, w \in Rewrites : Stream!WriteWord(a, w)
  <1>1. PICK a \in Addr \ InUse, w \in Rewrites : mem' = [mem EXCEPT ![a] = w]
    BY DEF GuestWriteWord, InUse
  <1>2. put' = put /\ Ahead' = Ahead /\ last' = last
    BY DEF GuestWriteWord, Ahead
  <1>3. a \notin Stream!InUse(mem, Ahead, put)
    BY <1>1, AheadLeads DEF IInv, Published, InUse
  <1> QED BY <1>1, <1>2, <1>3 DEF Stream!WriteWord, Addr, Stream!Addr

LEMMA WriteBackStutters ==
    ASSUME IInv, IInv', WriteBack
    PROVE  UNCHANGED Stream!streamVars
  <1>1. (TypeOK /\ done = 0 => Ahead = fetch)'
    BY AheadIsFetch, PTL
  <1>2. Ahead' = Ahead
    BY <1>1 DEF IInv, WriteBack
  <1> QED BY <1>2 DEF WriteBack, Stream!streamVars

LEMMA OthersStutter ==
    ASSUME \/ PusherData \/ PusherStops \/ Wake \/ PullerRefused \/ PullerCalls
           \/ GuestFifoOff \/ GuestFifoOn \/ UNCHANGED vars
    PROVE  UNCHANGED Stream!streamVars
  <1>1. UNCHANGED <<mem, fetch, put, last, done>>
    BY DEF PusherData, PusherStops, Wake, PullerRefused, PullerCalls, GuestFifoOff, GuestFifoOn,
           EndOfPass, PgraphWriteFifo, regs, vars
  <1> QED BY <1>1 DEF Stream!streamVars, Ahead

(* The pusher and the puller implement the stream: every data word that    *)
(* the guest published reaches its method once, in order and with the      *)
(* value it was published with, however many words a handler takes at a    *)
(* time, wherever a call is refused, and while the guest moves DMA_PUT and *)
(* reuses the words behind the DMA_GET it can read.                        *)
THEOREM Refinement == Spec => Implements
  <1>1. Init => Stream!Init
    <2> SUFFICES ASSUME Init PROVE Stream!Init
      OBVIOUS
    <2>1. Ahead = fetch
      BY InitInv, AheadIsFetch DEF IInv, Init
    <2> QED BY <2>1 DEF Init, Stream!Init
  <1>2. IInv /\ IInv' /\ [Next]_vars => [Stream!Next]_(Stream!streamVars)
    <2> SUFFICES ASSUME IInv, IInv', [Next]_vars PROVE [Stream!Next]_(Stream!streamVars)
      OBVIOUS
    <2>1. CASE PusherCommand \/ HandleWord
      BY <2>1, FetchSteps DEF Stream!Next
    <2>2. CASE GuestPut
      BY <2>2, PutSteps DEF Stream!Next
    <2>3. CASE GuestWriteWord
      BY <2>3, WriteWordSteps DEF Stream!Next
    <2>4. CASE WriteBack
      BY <2>4, WriteBackStutters
    <2>5. CASE \/ PusherData \/ PusherStops \/ Wake \/ PullerRefused \/ PullerCalls
               \/ GuestFifoOff \/ GuestFifoOn \/ UNCHANGED vars
      BY <2>5, OthersStutter
    <2> QED BY <2>1, <2>2, <2>3, <2>4, <2>5 DEF Next, PfStep
  <1> QED BY <1>1, <1>2, Invariance, PTL DEF Spec, Implements, Stream!Spec
================================================================================
