---------------------------- MODULE FifoSyncProofs ----------------------------
(***************************************************************************)
(* The invariants of FifoSync, for any amount of work and any pacing of    *)
(* frames, with and without spurious wake-ups.                             *)
(*                                                                         *)
(* A job is a program, and the proof is one in the manner of Hoare: a      *)
(* context says what a thread may rely on at a blocking point, Step what   *)
(* each blocking point needs of the context and makes of it, Run that a    *)
(* whole program leads from one context to another.  The blocks the jobs   *)
(* are made of, and then the jobs, are shown to run; the inductive         *)
(* invariant is that what is left of every thread's job runs from a        *)
(* context that Holds.                                                     *)
(***************************************************************************)
EXTENDS FifoSync, TLAPS

USE BoundsAssumption, SwitchAssumption

(* What a thread knows: that it has the main-loop lock; which of the       *)
(* FIFO's locks; whether the vCPU has been asked to stop, has stopped, or  *)
(* was stopped before the job began; and how far the FIFO is drained.      *)
Gates   == {"open", "scale", "flush", "dirty", "drained", "cleared"}
Resting == {"stopped", "paused"}
Context ==
    [main : BOOLEAN, fifo : {"free", "pfifo", "both"},
     cpu : {"any", "asked", "stopped", "paused"},
     gate : Gates]

AtRest(q) == q.cpu \in Resting

(* Only the holder of the main-loop lock knows more than that the machine  *)
(* was paused.                                                             *)
Contexts == {q \in Context :
                /\ q.fifo # "free" \/ q.gate # "open" \/ q.cpu \in {"asked", "stopped"}
                      => q.main
                /\ q.gate = "cleared" => AtRest(q)}

Known(m, f, c, g) == [main |-> m, fifo |-> f, cpu |-> c, gate |-> g]
Within(f, c, g) == Known(TRUE, f, c, g)
Unknown == Known(FALSE, "free", "any", "open")
Paused  == Known(FALSE, "free", "paused", "open")

LockStep(q, op, z) ==
    \/ op = "main_loop_lock" /\ ~q.main /\ z = Known(TRUE, q.fifo, q.cpu, q.gate)
    \/ op = "main_loop_unlock" /\ q.main /\ q.fifo = "free" /\ q.cpu # "asked" /\ z = Unknown
    \/ op \in {"bql_lock", "bql_unlock"} /\ q.main /\ z = q
    \/ op \in {"lock_fifo", "idle_wait"} /\ q.main /\ q.fifo = "free" /\ z = q
    \/ op = "idle_woken" /\ q.main /\ q.fifo = "free"
          /\ z = Known(q.main, "pfifo", q.cpu, q.gate)
    \/ op = "bql_under_lock" /\ q.main /\ AtRest(q) /\ z = q
    \/ op = "pgraph_lock" /\ q.fifo = "pfifo" /\ z = Known(q.main, "both", q.cpu, q.gate)
    \/ op = "unlock_fifo" /\ q.fifo = "both" /\ z = Known(q.main, "free", q.cpu, q.gate)
    \/ op = "post_load" /\ q.fifo = "both" /\ q.gate = "open"
          /\ z = Known(q.main, "free", q.cpu, q.gate)

CpuStepOf(q, op, z) ==
    \/ op = "pause_all_vcpus" /\ q.main /\ q.cpu = "any"
          /\ z = Known(q.main, q.fifo, "asked", q.gate)
    \/ op = "vcpus_paused" /\ q.cpu = "asked" /\ z = Known(q.main, q.fifo, "stopped", q.gate)
    \/ op = "resume_all_vcpus" /\ q.main /\ AtRest(q)
          /\ z = Known(q.main, q.fifo, "any", "open")

(* The gate: halted and asked for a flush or for the dirty surfaces,       *)
(* drained when that has been answered, cleared by a reset.                *)
GateStep(q, op, z) ==
    \/ op = "reset_halt" /\ q.main /\ z = Known(q.main, q.fifo, q.cpu, "flush")
    \/ op = "save_halt" /\ q.main /\ z = Known(q.main, q.fifo, q.cpu, "dirty")
    \/ op = "wait_flush" /\ q.gate = "flush" /\ z = Known(q.main, q.fifo, q.cpu, "drained")
    \/ op = "wait_dirty" /\ q.gate = "dirty" /\ z = Known(q.main, q.fifo, q.cpu, "drained")
    \/ op = "reset_clear" /\ q.gate = "drained" /\ AtRest(q)
          /\ z = Known(q.main, q.fifo, q.cpu, "cleared")
    \/ op = "save" /\ q.gate = "drained" /\ z = q
    \/ op = "load" /\ q.gate = "cleared" /\ z = Known(q.main, q.fifo, q.cpu, "open")
    \/ op = "restore_halt" /\ q.main /\ q.gate = "open" /\ z = q
    \/ op = "running" /\ q.main /\ z = Known(q.main, q.fifo, q.cpu, "open")
    \/ op = "scale_halt" /\ q.main /\ z = Known(q.main, q.fifo, q.cpu, "scale")
    \/ op \in {"scale_dirty", "scale_flush", "kick", "wait_dirty", "wait_flush"}
          /\ q.gate = "scale" /\ z = q
    \/ op = "scale_resume" /\ q.gate = "scale" /\ z = Known(q.main, q.fifo, q.cpu, "open")

Step(q, op, z) ==
    \/ LockStep(q, op, z) \/ CpuStepOf(q, op, z) \/ GateStep(q, op, z)
    \/ op \in {"frame", "wait_download"} /\ z = q

(* The blocking points there are.                                          *)
Points ==
    {"lock_fifo", "idle_wait", "idle_woken", "bql_under_lock", "pgraph_lock", "unlock_fifo",
     "main_loop_lock", "main_loop_unlock", "bql_lock", "bql_unlock", "pause_all_vcpus",
     "vcpus_paused", "resume_all_vcpus", "reset_halt", "wait_flush", "reset_clear", "running",
     "save_halt", "wait_dirty", "save", "restore_halt", "load", "post_load", "scale_halt",
     "scale_dirty", "scale_flush", "scale_resume", "kick", "frame", "wait_download"}

Run(s, q, z) ==
    /\ s \in Seq(Points)
    /\ \E r \in [0 .. Len(s) -> Contexts] :
          /\ r[0] = q /\ r[Len(s)] = z
          /\ \A i \in 1 .. Len(s) : Step(r[i - 1], s[i], r[i])
-------------------------------------------------------------------------------
(* Programs in general.                                                    *)

(* A program that does nothing.                                            *)
LEMMA RunNothing == ASSUME NEW q \in Contexts PROVE Run(<<>>, q, q)
  <1> DEFINE r == [i \in 0 .. 0 |-> q]
  <1>1. <<>> \in Seq(Points) /\ Len(<<>>) = 0
    OBVIOUS
  <1>2. r \in [0 .. 0 -> Contexts] /\ r[0] = q
    OBVIOUS
  <1>3. \A i \in 1 .. 0 : Step(r[i - 1], <<>>[i], r[i])
    OBVIOUS
  <1> HIDE DEF r
  <1> QED BY <1>1, <1>2, <1>3 DEF Run

(* A program that is over has changed nothing.                             *)
LEMMA RunOver == ASSUME NEW q, NEW z, Run(<<>>, q, z) PROVE q = z
  BY DEF Run

(* Two programs in sequence.                                               *)
LEMMA RunThen ==
    ASSUME NEW s, NEW t, NEW p, NEW q, NEW z, Run(s, p, q), Run(t, q, z)
    PROVE  Run(s \o t, p, z)
  <1>1. PICK r1 \in [0 .. Len(s) -> Contexts] :
            /\ r1[0] = p /\ r1[Len(s)] = q
            /\ \A i \in 1 .. Len(s) : Step(r1[i - 1], s[i], r1[i])
    BY DEF Run
  <1>2. PICK r2 \in [0 .. Len(t) -> Contexts] :
            /\ r2[0] = q /\ r2[Len(t)] = z
            /\ \A i \in 1 .. Len(t) : Step(r2[i - 1], t[i], r2[i])
    BY DEF Run
  <1>3. s \in Seq(Points) /\ t \in Seq(Points) /\ Len(s) \in Nat /\ Len(t) \in Nat
    BY DEF Run
  <1> DEFINE n == Len(s)
             r == [i \in 0 .. n + Len(t) |-> IF i <= n THEN r1[i] ELSE r2[i - n]]
  <1>4. s \o t \in Seq(Points) /\ Len(s \o t) = n + Len(t)
    BY <1>3
  <1>5. r \in [0 .. n + Len(t) -> Contexts]
    BY <1>3
  <1>6. r[0] = p /\ r[n + Len(t)] = z
    BY <1>1, <1>2, <1>3
  <1>7. ASSUME NEW i \in 1 .. n + Len(t)
        PROVE  Step(r[i - 1], (s \o t)[i], r[i])
    <2>1. CASE i <= n
      <3>1. (s \o t)[i] = s[i] /\ r[i] = r1[i] /\ r[i - 1] = r1[i - 1] /\ i \in 1 .. n
        BY <1>3, <2>1
      <3> QED BY <1>1, <3>1
    <2>2. CASE i > n
      <3>1. (s \o t)[i] = t[i - n] /\ r[i] = r2[i - n] /\ i - n \in 1 .. Len(t)
        BY <1>3, <2>2
      <3>2. r[i - 1] = r2[i - n - 1]
        BY <1>1, <1>2, <1>3, <2>2
      <3> QED BY <1>2, <3>1, <3>2
    <2> QED BY <1>3, <2>1, <2>2
  <1> HIDE DEF r
  <1> QED BY <1>4, <1>5, <1>6, <1>7 DEF Run

(* The first blocking point of a program, and what remains after it.       *)
LEMMA RunOn ==
    ASSUME NEW s, NEW q, NEW z, Run(s, q, z), s # <<>>
    PROVE  \E p \in Contexts : Step(q, Head(s), p) /\ Run(Tail(s), p, z)
  <1>1. PICK r \in [0 .. Len(s) -> Contexts] :
            /\ r[0] = q /\ r[Len(s)] = z
            /\ \A i \in 1 .. Len(s) : Step(r[i - 1], s[i], r[i])
    BY DEF Run
  <1>2. s \in Seq(Points) /\ Len(s) \in Nat \ {0} /\ Head(s) = s[1]
    BY DEF Run
  <1>3. Tail(s) \in Seq(Points) /\ Len(Tail(s)) = Len(s) - 1
        /\ \A i \in 1 .. Len(s) - 1 : Tail(s)[i] = s[i + 1]
    BY <1>2
  <1> DEFINE u == [i \in 0 .. Len(s) - 1 |-> r[i + 1]]
  <1>4. u \in [0 .. Len(Tail(s)) -> Contexts] /\ u[0] = r[1] /\ u[Len(Tail(s))] = z
    BY <1>1, <1>2, <1>3
  <1>5. ASSUME NEW i \in 1 .. Len(Tail(s))
        PROVE  Step(u[i - 1], Tail(s)[i], u[i])
    <2>1. i + 1 \in 1 .. Len(s) /\ u[i - 1] = r[i] /\ u[i] = r[i + 1] /\ Tail(s)[i] = s[i + 1]
      BY <1>2, <1>3
    <2>2. (i + 1) - 1 = i
      BY <1>2, <1>3
    <2> QED BY <1>1, <2>1, <2>2
  <1>6. Step(q, Head(s), r[1]) /\ r[1] \in Contexts
    BY <1>1, <1>2
  <1> HIDE DEF u
  <1> QED BY <1>3, <1>4, <1>5, <1>6 DEF Run

(* A block of one blocking point.                                          *)
LEMMA RunOne ==
    ASSUME NEW a \in Points, NEW q \in Contexts, NEW z \in Contexts, Step(q, a, z)
    PROVE  Run(<<a>>, q, z)
  <1> DEFINE s == <<a>>
             r == [i \in 0 .. 1 |-> IF i = 0 THEN q ELSE z]
  <1>1. s \in Seq(Points) /\ Len(s) = 1 /\ s[1] = a
    OBVIOUS
  <1>2. r \in [0 .. 1 -> Contexts] /\ r[0] = q /\ r[1] = z
    OBVIOUS
  <1> HIDE DEF s, r
  <1>3. ASSUME NEW i \in 1 .. 1
        PROVE  Step(r[i - 1], s[i], r[i])
    BY <1>1, <1>2
  <1>4. Run(s, q, z)
    BY <1>1, <1>2, <1>3 DEF Run
  <1> QED BY <1>4 DEF s

(* A block of two blocking points.                                         *)
LEMMA RunTwo ==
    ASSUME NEW a \in Points, NEW b \in Points, NEW q \in Contexts, NEW p1 \in Contexts,
           NEW z \in Contexts, Step(q, a, p1), Step(p1, b, z)
    PROVE  Run(<<a, b>>, q, z)
  <1> DEFINE s == <<a, b>>
             r == [i \in 0 .. 2 |-> IF i = 0 THEN q ELSE IF i = 1 THEN p1 ELSE z]
  <1>1. s \in Seq(Points) /\ Len(s) = 2 /\ s[1] = a /\ s[2] = b
    OBVIOUS
  <1>2. r \in [0 .. 2 -> Contexts] /\ r[0] = q /\ r[1] = p1 /\ r[2] = z
    OBVIOUS
  <1> HIDE DEF s, r
  <1>3. ASSUME NEW i \in 1 .. 2
        PROVE  Step(r[i - 1], s[i], r[i])
    BY <1>1, <1>2
  <1>4. Run(s, q, z)
    BY <1>1, <1>2, <1>3 DEF Run
  <1> QED BY <1>4 DEF s

(* A block of three.                                                       *)
LEMMA RunThree ==
    ASSUME NEW a \in Points, NEW b \in Points, NEW c \in Points, NEW q \in Contexts,
           NEW p1 \in Contexts, NEW p2 \in Contexts, NEW z \in Contexts,
           Step(q, a, p1), Step(p1, b, p2), Step(p2, c, z)
    PROVE  Run(<<a, b, c>>, q, z)
  <1> DEFINE s == <<a, b, c>>
             r == [i \in 0 .. 3 |->
                      IF i = 0 THEN q ELSE IF i = 1 THEN p1 ELSE IF i = 2 THEN p2 ELSE z]
  <1>1. s \in Seq(Points) /\ Len(s) = 3 /\ s[1] = a /\ s[2] = b /\ s[3] = c
    OBVIOUS
  <1>2. r \in [0 .. 3 -> Contexts] /\ r[0] = q /\ r[1] = p1 /\ r[2] = p2 /\ r[3] = z
    OBVIOUS
  <1> HIDE DEF s, r
  <1>3. ASSUME NEW i \in 1 .. 3
        PROVE  Step(r[i - 1], s[i], r[i])
    BY <1>1, <1>2
  <1>4. Run(s, q, z)
    BY <1>1, <1>2, <1>3 DEF Run
  <1> QED BY <1>4 DEF s

(* A block of five.                                                        *)
LEMMA RunFive ==
    ASSUME NEW a \in Points, NEW b \in Points, NEW c \in Points, NEW d \in Points,
           NEW e \in Points, NEW q \in Contexts, NEW p1 \in Contexts,
           NEW p2 \in Contexts, NEW p3 \in Contexts, NEW p4 \in Contexts,
           NEW z \in Contexts,
           Step(q, a, p1), Step(p1, b, p2), Step(p2, c, p3), Step(p3, d, p4), Step(p4, e, z)
    PROVE  Run(<<a, b, c, d, e>>, q, z)
  <1> DEFINE s == <<a, b, c, d, e>>
             r == [i \in 0 .. 5 |->
                      IF i = 0 THEN q ELSE IF i = 1 THEN p1 ELSE IF i = 2 THEN p2
                      ELSE IF i = 3 THEN p3 ELSE IF i = 4 THEN p4 ELSE z]
  <1>1. s \in Seq(Points) /\ Len(s) = 5 /\ s[1] = a /\ s[2] = b /\ s[3] = c
        /\ s[4] = d /\ s[5] = e
    OBVIOUS
  <1>2. r \in [0 .. 5 -> Contexts] /\ r[0] = q /\ r[1] = p1 /\ r[2] = p2
        /\ r[3] = p3 /\ r[4] = p4 /\ r[5] = z
    OBVIOUS
  <1> HIDE DEF s, r
  <1>3. ASSUME NEW i \in 1 .. 5
        PROVE  Step(r[i - 1], s[i], r[i])
    BY <1>1, <1>2
  <1>4. Run(s, q, z)
    BY <1>1, <1>2, <1>3 DEF Run
  <1> QED BY <1>4 DEF s
-------------------------------------------------------------------------------
(* The blocks of the jobs.                                                 *)

(* The main-loop lock and the BQL, from a running or a paused machine.     *)
LEMMA EnterRuns ==
    ASSUME NEW c \in {"any", "paused"}
    PROVE  Run(Enter, Known(FALSE, "free", c, "open"), Within("free", c, "open"))
  <1> DEFINE q == Known(FALSE, "free", c, "open")
             z == Within("free", c, "open")
  <1>1. {q, z} \subseteq Contexts
    BY DEF Contexts, Context, Known, Within, Gates, Resting, AtRest, Unknown
  <1>2. /\ Step(q, "main_loop_lock", z)
        /\ Step(z, "bql_lock", z)
    BY DEF Step, LockStep, CpuStepOf, GateStep, Known, Within, Unknown, AtRest, Resting
  <1>3. {"main_loop_lock", "bql_lock"} \subseteq Points
    BY DEF Points
  <1> HIDE DEF q, z
  <1>4. Run(Enter, q, z)
    BY <1>1, <1>2, <1>3, RunTwo DEF Enter
  <1> QED BY <1>4 DEF q, z

(* The BQL and the main-loop lock are given back with the FIFO unlocked    *)
(* and no stop of the vCPU outstanding; what was known is forgotten.       *)
LEMMA LeaveRuns ==
    ASSUME NEW c \in {"any", "stopped", "paused"}, NEW g \in {"open", "scale"}
    PROVE  Run(Leave, Within("free", c, g), Unknown)
  <1> DEFINE q == Within("free", c, g)
             z == Unknown
  <1>1. {q, z} \subseteq Contexts
    BY DEF Contexts, Context, Known, Within, Gates, Resting, AtRest, Unknown
  <1>2. /\ Step(q, "bql_unlock", q)
        /\ Step(q, "main_loop_unlock", z)
    BY DEF Step, LockStep, CpuStepOf, GateStep, Known, Within, Unknown, AtRest, Resting
  <1>3. {"bql_unlock", "main_loop_unlock"} \subseteq Points
    BY DEF Points
  <1> HIDE DEF q, z
  <1>4. Run(Leave, q, z)
    BY <1>1, <1>2, <1>3, RunTwo DEF Leave
  <1> QED BY <1>4 DEF q, z

(* pause_all_vcpus: asked to stop, then stopped.                           *)
LEMMA StopRuns ==
    Run(StopVcpus,
               Within("free", "any", "open"),
               Within("free", "stopped", "open"))
  <1> DEFINE q == Within("free", "any", "open")
             p == Within("free", "asked", "open")
             z == Within("free", "stopped", "open")
  <1>1. {q, p, z} \subseteq Contexts
    BY DEF Contexts, Context, Known, Within, Gates, Resting, AtRest, Unknown
  <1>2. /\ Step(q, "pause_all_vcpus", p)
        /\ Step(p, "vcpus_paused", z)
    BY DEF Step, LockStep, CpuStepOf, GateStep, Known, Within, Unknown, AtRest, Resting
  <1>3. {"pause_all_vcpus", "vcpus_paused"} \subseteq Points
    BY DEF Points
  <1> HIDE DEF q, p, z
  <1>4. Run(StopVcpus, q, z)
    BY <1>1, <1>2, <1>3, RunTwo DEF StopVcpus
  <1> QED BY <1>4 DEF q, z

(* nv2a_lock_fifo takes both of the FIFO's locks; because it takes the BQL *)
(* between them it may be called only with the vCPU at rest.               *)
LEMMA LockFifoRuns ==
    ASSUME NEW c \in Resting, NEW g \in Gates
    PROVE  Run(LockFifo, Within("free", c, g), Within("both", c, g))
  <1> DEFINE q == Within("free", c, g)
             p == Within("pfifo", c, g)
             z == Within("both", c, g)
  <1>1. {q, p, z} \subseteq Contexts
    BY DEF Contexts, Context, Known, Within, Gates, Resting, AtRest, Unknown
  <1>2. /\ Step(q, "lock_fifo", q)
        /\ Step(q, "idle_wait", q)
        /\ Step(q, "idle_woken", p)
        /\ Step(p, "bql_under_lock", p)
        /\ Step(p, "pgraph_lock", z)
    BY DEF Step, LockStep, CpuStepOf, GateStep, Known, Within, Unknown, AtRest, Resting
  <1>3. {"lock_fifo", "idle_wait", "idle_woken", "bql_under_lock", "pgraph_lock"}
           \subseteq Points
    BY DEF Points
  <1> HIDE DEF q, p, z
  <1>4. Run(LockFifo, q, z)
    BY <1>1, <1>2, <1>3, RunFive DEF LockFifo
  <1> QED BY <1>4 DEF q, z

(* nv2a_reset halts the FIFO and waits for the flush that only the top of  *)
(* the PFIFO loop performs: drained.                                       *)
LEMMA HaltForReset ==
    ASSUME NEW c \in Resting
    PROVE  Run(<<"reset_halt", "unlock_fifo", "bql_unlock", "wait_flush", "bql_lock">>,
               Within("both", c, "open"),
               Within("free", c, "drained"))
  <1> DEFINE q == Within("both", c, "open")
             p == Within("both", c, "flush")
             u == Within("free", c, "flush")
             z == Within("free", c, "drained")
  <1>1. {q, p, u, z} \subseteq Contexts
    BY DEF Contexts, Context, Known, Within, Gates, Resting, AtRest, Unknown
  <1>2. /\ Step(q, "reset_halt", p)
        /\ Step(p, "unlock_fifo", u)
        /\ Step(u, "bql_unlock", u)
        /\ Step(u, "wait_flush", z)
        /\ Step(z, "bql_lock", z)
    BY DEF Step, LockStep, CpuStepOf, GateStep, Known, Within, Unknown, AtRest, Resting
  <1>3. {"reset_halt", "unlock_fifo", "bql_unlock", "wait_flush", "bql_lock"} \subseteq Points
    BY DEF Points
  <1> HIDE DEF q, p, u, z
  <1>4. Run(<<"reset_halt", "unlock_fifo", "bql_unlock", "wait_flush", "bql_lock">>, q, z)
    BY <1>1, <1>2, <1>3, RunFive
  <1> QED BY <1>4 DEF q, z

(* nv2a_reset clears a drained FIFO.                                       *)
LEMMA ClearRuns ==
    ASSUME NEW c \in Resting
    PROVE  Run(<<"reset_clear", "unlock_fifo">>,
               Within("both", c, "drained"),
               Within("free", c, "cleared"))
  <1> DEFINE q == Within("both", c, "drained")
             p == Within("both", c, "cleared")
             z == Within("free", c, "cleared")
  <1>1. {q, p, z} \subseteq Contexts
    BY DEF Contexts, Context, Known, Within, Gates, Resting, AtRest, Unknown
  <1>2. /\ Step(q, "reset_clear", p)
        /\ Step(p, "unlock_fifo", z)
    BY DEF Step, LockStep, CpuStepOf, GateStep, Known, Within, Unknown, AtRest, Resting
  <1>3. {"reset_clear", "unlock_fifo"} \subseteq Points
    BY DEF Points
  <1> HIDE DEF q, p, z
  <1>4. Run(<<"reset_clear", "unlock_fifo">>, q, z)
    BY <1>1, <1>2, <1>3, RunTwo
  <1> QED BY <1>4 DEF q, z

(* nv2a_vm_state_change(RUNNING) and resume_all_vcpus.                     *)
LEMMA StartRuns ==
    ASSUME NEW c \in Resting, NEW g \in Gates
    PROVE  Run(<<"running", "unlock_fifo", "resume_all_vcpus">>,
               Within("both", c, g),
               Within("free", "any", "open"))
  <1> DEFINE q == Within("both", c, g)
             p == Within("both", c, "open")
             u == Within("free", c, "open")
             z == Within("free", "any", "open")
  <1>1. {q, p, u, z} \subseteq Contexts
    BY DEF Contexts, Context, Known, Within, Gates, Resting, AtRest, Unknown
  <1>2. /\ Step(q, "running", p)
        /\ Step(p, "unlock_fifo", u)
        /\ Step(u, "resume_all_vcpus", z)
    BY DEF Step, LockStep, CpuStepOf, GateStep, Known, Within, Unknown, AtRest, Resting
  <1>3. {"running", "unlock_fifo", "resume_all_vcpus"} \subseteq Points
    BY DEF Points
  <1> HIDE DEF q, p, u, z
  <1>4. Run(<<"running", "unlock_fifo", "resume_all_vcpus">>, q, z)
    BY <1>1, <1>2, <1>3, RunThree
  <1> QED BY <1>4 DEF q, z

(* nv2a_vm_state_change(SAVE_VM) halts the FIFO and waits for the dirty    *)
(* surfaces.                                                               *)
LEMMA HaltForSave ==
    Run(<<"save_halt", "unlock_fifo", "bql_unlock", "wait_dirty", "bql_lock">>,
               Within("both", "stopped", "open"),
               Within("free", "stopped", "drained"))
  <1> DEFINE q == Within("both", "stopped", "open")
             p == Within("both", "stopped", "dirty")
             u == Within("free", "stopped", "dirty")
             z == Within("free", "stopped", "drained")
  <1>1. {q, p, u, z} \subseteq Contexts
    BY DEF Contexts, Context, Known, Within, Gates, Resting, AtRest, Unknown
  <1>2. /\ Step(q, "save_halt", p)
        /\ Step(p, "unlock_fifo", u)
        /\ Step(u, "bql_unlock", u)
        /\ Step(u, "wait_dirty", z)
        /\ Step(z, "bql_lock", z)
    BY DEF Step, LockStep, CpuStepOf, GateStep, Known, Within, Unknown, AtRest, Resting
  <1>3. {"save_halt", "unlock_fifo", "bql_unlock", "wait_dirty", "bql_lock"} \subseteq Points
    BY DEF Points
  <1> HIDE DEF q, p, u, z
  <1>4. Run(<<"save_halt", "unlock_fifo", "bql_unlock", "wait_dirty", "bql_lock">>, q, z)
    BY <1>1, <1>2, <1>3, RunFive
  <1> QED BY <1>4 DEF q, z

(* The snapshot is written, and nv2a_post_save unlocks the FIFO.           *)
LEMMA SaveRuns ==
    Run(<<"save", "unlock_fifo">>,
               Within("both", "stopped", "drained"),
               Within("free", "stopped", "drained"))
  <1> DEFINE q == Within("both", "stopped", "drained")
             z == Within("free", "stopped", "drained")
  <1>1. {q, z} \subseteq Contexts
    BY DEF Contexts, Context, Known, Within, Gates, Resting, AtRest, Unknown
  <1>2. /\ Step(q, "save", q)
        /\ Step(q, "unlock_fifo", z)
    BY DEF Step, LockStep, CpuStepOf, GateStep, Known, Within, Unknown, AtRest, Resting
  <1>3. {"save", "unlock_fifo"} \subseteq Points
    BY DEF Points
  <1> HIDE DEF q, z
  <1>4. Run(<<"save", "unlock_fifo">>, q, z)
    BY <1>1, <1>2, <1>3, RunTwo
  <1> QED BY <1>4 DEF q, z

(* nv2a_vm_state_change(RESTORE_VM) halts the FIFO, and waits for nothing. *)
LEMMA RestoreRuns ==
    Run(<<"restore_halt", "unlock_fifo">>,
               Within("both", "stopped", "open"),
               Within("free", "stopped", "open"))
  <1> DEFINE q == Within("both", "stopped", "open")
             z == Within("free", "stopped", "open")
  <1>1. {q, z} \subseteq Contexts
    BY DEF Contexts, Context, Known, Within, Gates, Resting, AtRest, Unknown
  <1>2. /\ Step(q, "restore_halt", q)
        /\ Step(q, "unlock_fifo", z)
    BY DEF Step, LockStep, CpuStepOf, GateStep, Known, Within, Unknown, AtRest, Resting
  <1>3. {"restore_halt", "unlock_fifo"} \subseteq Points
    BY DEF Points
  <1> HIDE DEF q, z
  <1>4. Run(<<"restore_halt", "unlock_fifo">>, q, z)
    BY <1>1, <1>2, <1>3, RunTwo
  <1> QED BY <1>4 DEF q, z

(* The snapshot overwrites a cleared FIFO, and nv2a_post_load unlocks it.  *)
LEMMA LoadRuns ==
    ASSUME NEW c \in Resting
    PROVE  Run(<<"load", "post_load">>,
               Within("both", c, "cleared"),
               Within("free", c, "open"))
  <1> DEFINE q == Within("both", c, "cleared")
             p == Within("both", c, "open")
             z == Within("free", c, "open")
  <1>1. {q, p, z} \subseteq Contexts
    BY DEF Contexts, Context, Known, Within, Gates, Resting, AtRest, Unknown
  <1>2. /\ Step(q, "load", p)
        /\ Step(p, "post_load", z)
    BY DEF Step, LockStep, CpuStepOf, GateStep, Known, Within, Unknown, AtRest, Resting
  <1>3. {"load", "post_load"} \subseteq Points
    BY DEF Points
  <1> HIDE DEF q, p, z
  <1>4. Run(<<"load", "post_load">>, q, z)
    BY <1>1, <1>2, <1>3, RunTwo
  <1> QED BY <1>4 DEF q, z

(* The main loop resumes the vCPU after a reset.                           *)
LEMMA ResumeRuns ==
    Run(<<"resume_all_vcpus">>,
               Within("free", "stopped", "cleared"),
               Within("free", "any", "open"))
  <1> DEFINE q == Within("free", "stopped", "cleared")
             z == Within("free", "any", "open")
  <1>1. {q, z} \subseteq Contexts
    BY DEF Contexts, Context, Known, Within, Gates, Resting, AtRest, Unknown
  <1>2. /\ Step(q, "resume_all_vcpus", z)
    BY DEF Step, LockStep, CpuStepOf, GateStep, Known, Within, Unknown, AtRest, Resting
  <1>3. {"resume_all_vcpus"} \subseteq Points
    BY DEF Points
  <1> HIDE DEF q, z
  <1>4. Run(<<"resume_all_vcpus">>, q, z)
    BY <1>1, <1>2, <1>3, RunOne
  <1> QED BY <1>4 DEF q, z

(* A scale change, first half: halt, without the BQL, and the surfaces.    *)
LEMMA ScaleHaltRuns ==
    Run(<<"bql_unlock", "scale_halt", "scale_dirty", "kick", "wait_dirty">>,
               Within("free", "any", "open"),
               Within("free", "any", "scale"))
  <1> DEFINE q == Within("free", "any", "open")
             z == Within("free", "any", "scale")
  <1>1. {q, z} \subseteq Contexts
    BY DEF Contexts, Context, Known, Within, Gates, Resting, AtRest, Unknown
  <1>2. /\ Step(q, "bql_unlock", q)
        /\ Step(q, "scale_halt", z)
        /\ Step(z, "scale_dirty", z)
        /\ Step(z, "kick", z)
        /\ Step(z, "wait_dirty", z)
    BY DEF Step, LockStep, CpuStepOf, GateStep, Known, Within, Unknown, AtRest, Resting
  <1>3. {"bql_unlock", "scale_halt", "scale_dirty", "kick", "wait_dirty"} \subseteq Points
    BY DEF Points
  <1> HIDE DEF q, z
  <1>4. Run(<<"bql_unlock", "scale_halt", "scale_dirty", "kick", "wait_dirty">>, q, z)
    BY <1>1, <1>2, <1>3, RunFive
  <1> QED BY <1>4 DEF q, z

(* A scale change, second half: the flush, and the halt taken back.        *)
LEMMA ScaleResumeRuns ==
    Run(<<"scale_flush", "kick", "wait_flush", "scale_resume", "bql_lock">>,
               Within("free", "any", "scale"),
               Within("free", "any", "open"))
  <1> DEFINE q == Within("free", "any", "scale")
             z == Within("free", "any", "open")
  <1>1. {q, z} \subseteq Contexts
    BY DEF Contexts, Context, Known, Within, Gates, Resting, AtRest, Unknown
  <1>2. /\ Step(q, "scale_flush", q)
        /\ Step(q, "kick", q)
        /\ Step(q, "wait_flush", q)
        /\ Step(q, "scale_resume", z)
        /\ Step(z, "bql_lock", z)
    BY DEF Step, LockStep, CpuStepOf, GateStep, Known, Within, Unknown, AtRest, Resting
  <1>3. {"scale_flush", "kick", "wait_flush", "scale_resume", "bql_lock"} \subseteq Points
    BY DEF Points
  <1> HIDE DEF q, z
  <1>4. Run(<<"scale_flush", "kick", "wait_flush", "scale_resume", "bql_lock">>, q, z)
    BY <1>1, <1>2, <1>3, RunFive
  <1> QED BY <1>4 DEF q, z

(* A frame of the UI: it knows nothing, and needs nothing.                 *)
LEMMA FrameRuns ==
    Run(Frame, Unknown, Unknown)
  <1> DEFINE q == Unknown
  <1>1. {q} \subseteq Contexts
    BY DEF Contexts, Context, Known, Within, Gates, Resting, AtRest, Unknown
  <1>2. /\ Step(q, "frame", q)
        /\ Step(q, "wait_download", q)
    BY DEF Step, LockStep, CpuStepOf, GateStep, Known, Within, Unknown, AtRest, Resting
  <1>3. {"frame", "wait_download"} \subseteq Points
    BY DEF Points
  <1> HIDE DEF q
  <1>4. Run(Frame, q, q)
    BY <1>1, <1>2, <1>3, RunTwo DEF Frame
  <1> QED BY <1>4 DEF q
-------------------------------------------------------------------------------
(* The jobs.                                                               *)

(* nv2a_reset drains the FIFO and clears it.                               *)
LEMMA ResetFifoRuns ==
    ASSUME NEW c \in Resting
    PROVE  Run(ResetFifo, Within("free", c, "open"), Within("free", c, "cleared"))
  <1>1. Run(LockFifo, Within("free", c, "open"), Within("both", c, "open"))
    BY LockFifoRuns DEF Gates
  <1>2. Run(<<"reset_halt", "unlock_fifo", "bql_unlock", "wait_flush", "bql_lock">>,
            Within("both", c, "open"), Within("free", c, "drained"))
    BY HaltForReset
  <1>3. Run(LockFifo, Within("free", c, "drained"), Within("both", c, "drained"))
    BY LockFifoRuns DEF Gates
  <1>4. Run(<<"reset_clear", "unlock_fifo">>, Within("both", c, "drained"),
            Within("free", c, "cleared"))
    BY ClearRuns
  <1> QED BY <1>1, <1>2, <1>3, <1>4, RunThen DEF ResetFifo

(* vm_start, from a machine at rest.                                       *)
LEMMA VmStartRuns ==
    ASSUME NEW c \in Resting, NEW g \in Gates
    PROVE  Run(VmStart, Within("free", c, g), Within("free", "any", "open"))
  <1>1. Run(LockFifo, Within("free", c, g), Within("both", c, g))
    BY LockFifoRuns
  <1>2. Run(<<"running", "unlock_fifo", "resume_all_vcpus">>, Within("both", c, g),
            Within("free", "any", "open"))
    BY StartRuns
  <1> QED BY <1>1, <1>2, RunThen DEF VmStart

(* do_vm_stop(SAVE_VM) leaves the FIFO drained and locked.                 *)
LEMMA SaveStopRuns ==
    Run(SaveStop, Within("free", "any", "open"), Within("both", "stopped", "drained"))
  <1>1. Run(StopVcpus, Within("free", "any", "open"), Within("free", "stopped", "open"))
    BY StopRuns
  <1>2. Run(LockFifo, Within("free", "stopped", "open"), Within("both", "stopped", "open"))
    BY LockFifoRuns DEF Gates, Resting
  <1>3. Run(<<"save_halt", "unlock_fifo", "bql_unlock", "wait_dirty", "bql_lock">>,
            Within("both", "stopped", "open"), Within("free", "stopped", "drained"))
    BY HaltForSave
  <1>4. Run(LockFifo, Within("free", "stopped", "drained"),
            Within("both", "stopped", "drained"))
    BY LockFifoRuns DEF Gates, Resting
  <1> QED BY <1>1, <1>2, <1>3, <1>4, RunThen DEF SaveStop

(* A snapshot of a running machine.                                        *)
LEMMA SaveJobRuns ==
    Run(Save(TRUE), Unknown, Unknown)
  <1>1. Run(Enter, Unknown, Within("free", "any", "open"))
    BY EnterRuns DEF Unknown
  <1>2. Run(SaveStop, Within("free", "any", "open"), Within("both", "stopped", "drained"))
    BY SaveStopRuns
  <1>3. Run(<<"save", "unlock_fifo">>, Within("both", "stopped", "drained"),
            Within("free", "stopped", "drained"))
    BY SaveRuns
  <1>4. Run(VmStart, Within("free", "stopped", "drained"), Within("free", "any", "open"))
    BY VmStartRuns DEF Gates, Resting
  <1>5. Run(Leave, Within("free", "any", "open"), Unknown)
    BY LeaveRuns
  <1> QED BY <1>1, <1>2, <1>3, <1>4, <1>5, RunThen DEF Save

(* do_vm_stop(RESTORE_VM), before a snapshot is loaded.                    *)
LEMMA LoadStopRuns ==
    Run(StopVcpus \o LockFifo \o <<"restore_halt", "unlock_fifo">>,
        Within("free", "any", "open"), Within("free", "stopped", "open"))
  <1>1. Run(StopVcpus, Within("free", "any", "open"), Within("free", "stopped", "open"))
    BY StopRuns
  <1>2. Run(LockFifo, Within("free", "stopped", "open"), Within("both", "stopped", "open"))
    BY LockFifoRuns DEF Gates, Resting
  <1>3. Run(<<"restore_halt", "unlock_fifo">>, Within("both", "stopped", "open"),
            Within("free", "stopped", "open"))
    BY RestoreRuns
  <1> QED BY <1>1, <1>2, <1>3, RunThen DEF Resting

(* A snapshot loaded into a running machine.                               *)
LEMMA LoadJobRuns ==
    Run(Load(TRUE), Unknown, Unknown)
  <1>1. Run(Enter, Unknown, Within("free", "any", "open"))
    BY EnterRuns DEF Unknown
  <1>2. Run(StopVcpus \o LockFifo \o <<"restore_halt", "unlock_fifo">>,
            Within("free", "any", "open"), Within("free", "stopped", "open"))
    BY LoadStopRuns
  <1>3. Run(ResetFifo, Within("free", "stopped", "open"), Within("free", "stopped", "cleared"))
    BY ResetFifoRuns DEF Resting
  <1>4. Run(LockFifo, Within("free", "stopped", "cleared"),
            Within("both", "stopped", "cleared"))
    BY LockFifoRuns DEF Gates, Resting
  <1>5. Run(<<"load", "post_load">>, Within("both", "stopped", "cleared"),
            Within("free", "stopped", "open"))
    BY LoadRuns DEF Resting
  <1>6. Run(VmStart, Within("free", "stopped", "open"), Within("free", "any", "open"))
    BY VmStartRuns DEF Gates, Resting
  <1>7. Run(Leave, Within("free", "any", "open"), Unknown)
    BY LeaveRuns
  <1> QED BY <1>1, <1>2, <1>3, <1>4, <1>5, <1>6, <1>7, RunThen DEF Load

(* A snapshot loaded into a paused machine: neither stopped nor started by *)
(* the job, which relies on the pause it found.                            *)
LEMMA PausedLoadJobRuns ==
    Run(Load(FALSE), Paused, Unknown)
  <1>1. Run(Enter, Paused, Within("free", "paused", "open"))
    BY EnterRuns DEF Paused
  <1>2. Run(<<>>, Within("free", "paused", "open"), Within("free", "paused", "open"))
    BY RunNothing DEF Contexts, Context, Known, Within, Gates, Resting, AtRest
  <1>3. Run(ResetFifo, Within("free", "paused", "open"), Within("free", "paused", "cleared"))
    BY ResetFifoRuns DEF Resting
  <1>4. Run(LockFifo, Within("free", "paused", "cleared"), Within("both", "paused", "cleared"))
    BY LockFifoRuns DEF Gates, Resting
  <1>5. Run(<<"load", "post_load">>, Within("both", "paused", "cleared"),
            Within("free", "paused", "open"))
    BY LoadRuns DEF Resting
  <1>6. Run(<<>>, Within("free", "paused", "open"), Within("free", "paused", "open"))
    BY RunNothing DEF Contexts, Context, Known, Within, Gates, Resting, AtRest
  <1>7. Run(Leave, Within("free", "paused", "open"), Unknown)
    BY LeaveRuns
  <1>8. Run(Enter \o <<>> \o ResetFifo \o LockFifo, Paused, Within("both", "paused", "cleared"))
    BY <1>1, <1>2, <1>3, <1>4, RunThen
  <1> QED BY <1>5, <1>6, <1>7, <1>8, RunThen DEF Load

(* The machine is paused.                                                  *)
LEMMA PauseJobRuns ==
    Run(Pause, Unknown, Unknown)
  <1>1. Run(Enter, Unknown, Within("free", "any", "open"))
    BY EnterRuns DEF Unknown
  <1>2. Run(StopVcpus, Within("free", "any", "open"), Within("free", "stopped", "open"))
    BY StopRuns
  <1>3. Run(Leave, Within("free", "stopped", "open"), Unknown)
    BY LeaveRuns
  <1> QED BY <1>1, <1>2, <1>3, RunThen DEF Pause

(* The machine is resumed.                                                 *)
LEMMA ResumeJobRuns ==
    Run(Resume, Paused, Unknown)
  <1>1. Run(Enter, Paused, Within("free", "paused", "open"))
    BY EnterRuns DEF Paused
  <1>2. Run(VmStart, Within("free", "paused", "open"), Within("free", "any", "open"))
    BY VmStartRuns DEF Gates, Resting
  <1>3. Run(Leave, Within("free", "any", "open"), Unknown)
    BY LeaveRuns
  <1> QED BY <1>1, <1>2, <1>3, RunThen DEF Resume

(* The machine is reset, running or paused.                                *)
LEMMA ResetJobRuns ==
    Run(Reset, Unknown, Unknown)
  <1>1. Run(Enter, Unknown, Within("free", "any", "open"))
    BY EnterRuns DEF Unknown
  <1>2. Run(StopVcpus, Within("free", "any", "open"), Within("free", "stopped", "open"))
    BY StopRuns
  <1>3. Run(ResetFifo, Within("free", "stopped", "open"), Within("free", "stopped", "cleared"))
    BY ResetFifoRuns DEF Resting
  <1>4. Run(<<"resume_all_vcpus">>, Within("free", "stopped", "cleared"),
            Within("free", "any", "open"))
    BY ResumeRuns
  <1>5. Run(Leave, Within("free", "any", "open"), Unknown)
    BY LeaveRuns
  <1> QED BY <1>1, <1>2, <1>3, <1>4, <1>5, RunThen DEF Reset

(* The surface scale is changed.                                           *)
LEMMA ScaleJobRuns ==
    Run(Scale, Unknown, Unknown)
  <1>1. Run(Enter, Unknown, Within("free", "any", "open"))
    BY EnterRuns DEF Unknown
  <1>2. Run(<<"bql_unlock", "scale_halt", "scale_dirty", "kick", "wait_dirty">>,
            Within("free", "any", "open"), Within("free", "any", "scale"))
    BY ScaleHaltRuns
  <1>3. Run(<<"scale_flush", "kick", "wait_flush", "scale_resume", "bql_lock">>,
            Within("free", "any", "scale"), Within("free", "any", "open"))
    BY ScaleResumeRuns
  <1>4. Run(Leave, Within("free", "any", "open"), Unknown)
    BY LeaveRuns
  <1> QED BY <1>1, <1>2, <1>3, <1>4, RunThen DEF Scale

-------------------------------------------------------------------------------
(* The inductive invariant.                                                *)

(* The PFIFO thread has passed the test of halt, and not yet the test at   *)
(* the end of the pusher's loop.                                           *)
Pushing == pf \in {"pusher", "method", "irq", "irq_relock", "method_done"}

(* What context q of thread t says of the state.                           *)
HoldsLocks(t, q) ==
    /\ q.main => mainLoopLock = t
    /\ q.fifo # "free" => pfifoLock = t
    /\ q.fifo = "both" => pgraphLock = t
HoldsCpu(t, q) ==
    /\ q.cpu = "asked" => vcpuStop
    /\ AtRest(q) => vcpuStop /\ cpu = "run"
    /\ q.cpu = "paused" => t = "ui" /\ ~vmRunning
HoldsGate(q) ==
    /\ q.gate \in {"scale", "flush", "dirty", "drained"} => halt
    /\ q.gate = "flush" /\ flushComplete => ~Pushing
    /\ q.gate = "dirty" /\ dirtyComplete => ~Pushing
    /\ q.gate = "drained" => ~Pushing
    /\ q.gate = "cleared" => work = 0 /\ ~InMethod
Holds(t, q) == HoldsLocks(t, q) /\ HoldsCpu(t, q) /\ HoldsGate(q)

(* What is left of each job runs, from what its thread knows.              *)
Follows(ctx) ==
    /\ prog \in [Threads -> Seq(Points)] /\ ctx \in [Threads -> Contexts]
    /\ \A t \in Threads : Run(prog[t], ctx[t], Unknown)

(* A paused machine's vCPU rests, or is about to.                          *)
StopInv(ctx) == ~vmRunning => vcpuStop /\ (cpu = "run" \/ ctx["ui"].cpu = "asked")

(* The lock of the PFIFO thread and of the vCPU; the puller has a method.  *)
LockInv == /\ pf \in {"top", "decide", "pusher", "end"} => pfifoLock = "pf"
           /\ cpu = "locked" => pfifoLock = "cpu"
WorkInv == InMethod => work > 0

Sound(ctx) ==
    /\ TypeOK /\ Follows(ctx)
    /\ \A t \in Threads : Holds(t, ctx[t])
    /\ StopInv(ctx) /\ LockInv /\ WorkInv

IInv == \E ctx \in [Threads -> Contexts] : Sound(ctx)
-------------------------------------------------------------------------------
(* A blocking point passed: the thread's context becomes what Step makes   *)
(* of it, and the rest of its job runs from there.                         *)
LEMMA DoStep ==
    ASSUME NEW ctx \in [Threads -> Contexts], NEW t \in Threads, NEW op, Follows(ctx),
           Do(t, op)
    PROVE  \E z \in Contexts : Step(ctx[t], op, z) /\ Follows([ctx EXCEPT ![t] = z])'
  <1>1. PICK z \in Contexts : Step(ctx[t], op, z) /\ Run(Tail(prog[t]), z, Unknown)
    BY RunOn DEF Follows, Do
  <1>2. Step(ctx[t], op, z)
    BY <1>1
  <1>3. Tail(prog[t]) \in Seq(Points)
    BY <1>1 DEF Run
  <1>4. prog' \in [Threads -> Seq(Points)] /\ [ctx EXCEPT ![t] = z] \in [Threads -> Contexts]
    BY <1>3 DEF Do, Follows
  <1>5. ASSUME NEW u \in Threads
        PROVE  Run(prog'[u], [ctx EXCEPT ![t] = z][u], Unknown)
    BY <1>1 DEF Do, Follows
  <1> QED BY <1>2, <1>4, <1>5 DEF Follows

(* The main-loop lock has one holder.                                      *)
LEMMA OneHolder ==
    ASSUME NEW ctx \in [Threads -> Contexts], NEW t \in Threads, NEW u \in Threads, t # u,
           Sound(ctx), ctx[t].main
    PROVE  ~ctx[u].main /\ ctx[u].fifo = "free" /\ ctx[u].gate = "open"
           /\ ctx[u].cpu \in {"any", "paused"}
  BY DEF Sound, Holds, HoldsLocks, Contexts, Context, Threads

(* What the other thread knows survives a step of the holder.              *)
LEMMA OtherHolds ==
    ASSUME NEW ctx \in [Threads -> Contexts], NEW t \in Threads, NEW u \in Threads, t # u,
           Sound(ctx), ctx[t].main, UNCHANGED <<cpu, vmRunning, vcpuStop>>
    PROVE  Holds(u, ctx[u])'
  <1>1. ~ctx[u].main /\ ctx[u].fifo = "free" /\ ctx[u].gate = "open"
        /\ ctx[u].cpu \in {"any", "paused"} /\ Holds(u, ctx[u])
    BY OneHolder DEF Sound
  <1> QED BY <1>1 DEF Holds, HoldsLocks, HoldsCpu, HoldsGate, AtRest, Resting

(* The steps of the holder of the main-loop lock that leave alone whether  *)
(* the machine runs.                                                       *)
HolderStep(t) ==
    \/ UnlockMainLoop(t) \/ LockBql(t) \/ UnlockBql(t) \/ VcpusPaused(t)
    \/ LockFifoWait(t) \/ SpuriousWake(t) \/ LockFifoWoken(t) \/ LockFifoPgraph(t)
    \/ UnlockFifo(t) \/ PostLoad(t) \/ ResetHalt(t) \/ SaveHalt(t)
    \/ ResetClear(t) \/ SaveState(t) \/ RestoreHalt(t) \/ LoadState(t)
    \/ Running(t) \/ WaitFlush(t) \/ WaitDirty(t) \/ ScaleHalt(t)
    \/ ScaleAsk(t) \/ ScaleKick(t) \/ ScaleResume(t)

(* Each of them keeps the invariant.                                       *)
LEMMA HolderSound ==
    ASSUME NEW ctx \in [Threads -> Contexts], NEW t \in Threads, Sound(ctx), HolderStep(t)
    PROVE  IInv'
  <1> DEFINE op == Head(prog[t])
             q == ctx[t]
  <1>1. Do(t, op) /\ prog[t] # <<>>
    BY DEF HolderStep, Do, UnlockMainLoop, LockBql, UnlockBql, VcpusPaused, LockFifoWait,
          SpuriousWake, LockFifoWoken, LockFifoPgraph, UnlockFifo, PostLoad, ResetHalt,
          SaveHalt, ResetClear, SaveState, RestoreHalt, LoadState, Running, WaitFlush,
          WaitDirty, ScaleHalt, ScaleAsk, ScaleKick, ScaleResume
  <1>2. PICK z \in Contexts : Step(q, op, z) /\ Follows([ctx EXCEPT ![t] = z])'
    BY <1>1, DoStep DEF Sound
  <1> DEFINE d == [ctx EXCEPT ![t] = z]
  <1>3. /\ q \in Contexts /\ d \in [Threads -> Contexts] /\ d[t] = z
        /\ \A u \in Threads : u # t => d[u] = ctx[u]
        /\ d["ui"].cpu = IF t = "ui" THEN z.cpu ELSE ctx["ui"].cpu
        /\ t = "ui" => ctx["ui"] = q
    BY DEF Threads
  <1>4. TypeOK /\ LockInv /\ WorkInv /\ StopInv(ctx) /\ Holds(t, q)
    BY DEF Sound
  <1>5. q.fifo # "free" \/ q.gate # "open" \/ q.cpu \in {"asked", "stopped"} => q.main
    BY <1>3 DEF Contexts
  <1> HIDE DEF q, d, op
  <1>6. SUFFICES q.main /\ Holds(t, z)' /\ UNCHANGED <<cpu, vmRunning, vcpuStop>>
                 /\ TypeOK' /\ LockInv' /\ WorkInv'
                 /\ (q.cpu = "asked" => z.cpu = "asked" \/ cpu = "run")
    <2>1. ASSUME NEW u \in Threads PROVE Holds(u, d[u])'
      BY <1>3, <1>6, OtherHolds DEF q
    <2>2. StopInv(d)'
      BY <1>3, <1>4, <1>6 DEF StopInv
    <2> QED BY <1>2, <1>3, <1>6, <2>1, <2>2 DEF IInv, Sound, d
  <1> USE DEF Kick, Broadcast, locks, events, vm, AskFlush, AskDirty, TypeOK, PfStates, Owner,
              Threads, Holds, HoldsLocks, HoldsCpu, HoldsGate, Pushing, InMethod, AtRest,
              Resting, LockInv, WorkInv, Do
  <1>7. CASE UnlockMainLoop(t)
    <2>1. op = "main_loop_unlock"
      BY <1>7 DEF UnlockMainLoop, op
    <2>2. q.main /\ q.fifo = "free" /\ q.cpu # "asked"
          /\ ~z.main /\ z.fifo = "free" /\ z.cpu = "any" /\ z.gate = "open"
      BY <1>2, <2>1 DEF Step, LockStep, CpuStepOf, GateStep, Known, Unknown
    <2> QED BY <1>7, <1>4, <1>5, <2>2 DEF UnlockMainLoop
  <1>8. CASE LockBql(t)
    <2>1. op \in {"bql_lock", "bql_under_lock"}
      BY <1>8 DEF LockBql, op
    <2>2. q.main
          /\ z = q
      BY <1>2, <2>1 DEF Step, LockStep, CpuStepOf, GateStep, Known, Unknown
    <2> QED BY <1>8, <1>4, <1>5, <2>2 DEF LockBql
  <1>9. CASE UnlockBql(t)
    <2>1. op = "bql_unlock"
      BY <1>9 DEF UnlockBql, op
    <2>2. q.main
          /\ z = q
      BY <1>2, <2>1 DEF Step, LockStep, CpuStepOf, GateStep, Known, Unknown
    <2> QED BY <1>9, <1>4, <1>5, <2>2 DEF UnlockBql
  <1>10. CASE VcpusPaused(t)
    <2>1. op = "vcpus_paused"
      BY <1>10 DEF VcpusPaused, op
    <2>2. q.cpu = "asked"
          /\ z.main = q.main /\ z.fifo = q.fifo /\ z.cpu = "stopped" /\ z.gate = q.gate
      BY <1>2, <2>1 DEF Step, LockStep, CpuStepOf, GateStep, Known, Unknown
    <2> QED BY <1>10, <1>4, <1>5, <2>2 DEF VcpusPaused
  <1>11. CASE LockFifoWait(t)
    <2>1. op = "lock_fifo"
      BY <1>11 DEF LockFifoWait, op
    <2>2. q.main
          /\ z = q
      BY <1>2, <2>1 DEF Step, LockStep, CpuStepOf, GateStep, Known, Unknown
    <2> QED BY <1>11, <1>4, <1>5, <2>2 DEF LockFifoWait
  <1>12. CASE SpuriousWake(t)
    <2>1. op = "idle_wait"
      BY <1>12 DEF SpuriousWake, op
    <2>2. q.main
          /\ z = q
      BY <1>2, <2>1 DEF Step, LockStep, CpuStepOf, GateStep, Known, Unknown
    <2> QED BY <1>12, <1>4, <1>5, <2>2 DEF SpuriousWake
  <1>13. CASE LockFifoWoken(t)
    <2>1. op = "idle_woken"
      BY <1>13 DEF LockFifoWoken, op
    <2>2. q.main
          /\ z.main = q.main /\ z.fifo = "pfifo" /\ z.cpu = q.cpu /\ z.gate = q.gate
      BY <1>2, <2>1 DEF Step, LockStep, CpuStepOf, GateStep, Known, Unknown
    <2> QED BY <1>13, <1>4, <1>5, <2>2 DEF LockFifoWoken
  <1>14. CASE LockFifoPgraph(t)
    <2>1. op = "pgraph_lock"
      BY <1>14 DEF LockFifoPgraph, op
    <2>2. q.fifo = "pfifo"
          /\ z.main = q.main /\ z.fifo = "both" /\ z.cpu = q.cpu /\ z.gate = q.gate
      BY <1>2, <2>1 DEF Step, LockStep, CpuStepOf, GateStep, Known, Unknown
    <2> QED BY <1>14, <1>4, <1>5, <2>2 DEF LockFifoPgraph
  <1>15. CASE UnlockFifo(t)
    <2>1. op = "unlock_fifo"
      BY <1>15 DEF UnlockFifo, op
    <2>2. q.fifo = "both"
          /\ z.main = q.main /\ z.fifo = "free" /\ z.cpu = q.cpu /\ z.gate = q.gate
      BY <1>2, <2>1 DEF Step, LockStep, CpuStepOf, GateStep, Known, Unknown
    <2> QED BY <1>15, <1>4, <1>5, <2>2 DEF UnlockFifo
  <1>16. CASE PostLoad(t)
    <2>1. op = "post_load"
      BY <1>16 DEF PostLoad, op
    <2>2. q.fifo = "both" /\ q.gate = "open"
          /\ z.main = q.main /\ z.fifo = "free" /\ z.cpu = q.cpu /\ z.gate = q.gate
      BY <1>2, <2>1 DEF Step, LockStep, CpuStepOf, GateStep, Known, Unknown
    <2> QED BY <1>16, <1>4, <1>5, <2>2 DEF PostLoad
  <1>17. CASE ResetHalt(t)
    <2>1. op = "reset_halt"
      BY <1>17 DEF ResetHalt, op
    <2>2. q.main
          /\ z.main = q.main /\ z.fifo = q.fifo /\ z.cpu = q.cpu /\ z.gate = "flush"
      BY <1>2, <2>1 DEF Step, LockStep, CpuStepOf, GateStep, Known, Unknown
    <2> QED BY <1>17, <1>4, <1>5, <2>2 DEF ResetHalt
  <1>18. CASE SaveHalt(t)
    <2>1. op = "save_halt"
      BY <1>18 DEF SaveHalt, op
    <2>2. q.main
          /\ z.main = q.main /\ z.fifo = q.fifo /\ z.cpu = q.cpu /\ z.gate = "dirty"
      BY <1>2, <2>1 DEF Step, LockStep, CpuStepOf, GateStep, Known, Unknown
    <2> QED BY <1>18, <1>4, <1>5, <2>2 DEF SaveHalt
  <1>19. CASE ResetClear(t)
    <2>1. op = "reset_clear"
      BY <1>19 DEF ResetClear, op
    <2>2. q.gate = "drained" /\ AtRest(q)
          /\ z.main = q.main /\ z.fifo = q.fifo /\ z.cpu = q.cpu /\ z.gate = "cleared"
      BY <1>2, <2>1 DEF Step, LockStep, CpuStepOf, GateStep, Known, Unknown
    <2>3. work' = 0 /\ halt' = wasHalted /\ wasHalted' = FALSE
      BY <1>19 DEF ResetClear
    <2>4. work' \in 0 .. MaxWork
      BY <2>3
    <2>5. {halt', wasHalted'} \subseteq BOOLEAN
      BY <1>4, <2>3
    <2> QED BY <1>19, <1>4, <1>5, <2>2, <2>4, <2>5 DEF ResetClear
  <1>20. CASE SaveState(t)
    <2>1. op = "save"
      BY <1>20 DEF SaveState, op
    <2>2. q.gate = "drained"
          /\ z = q
      BY <1>2, <2>1 DEF Step, LockStep, CpuStepOf, GateStep, Known, Unknown
    <2> QED BY <1>20, <1>4, <1>5, <2>2 DEF SaveState
  <1>21. CASE RestoreHalt(t)
    <2>1. op = "restore_halt"
      BY <1>21 DEF RestoreHalt, op
    <2>2. q.main /\ q.gate = "open"
          /\ z = q
      BY <1>2, <2>1 DEF Step, LockStep, CpuStepOf, GateStep, Known, Unknown
    <2> QED BY <1>21, <1>4, <1>5, <2>2 DEF RestoreHalt
  <1>22. CASE LoadState(t)
    <2>1. op = "load"
      BY <1>22 DEF LoadState, op
    <2>2. q.gate = "cleared"
          /\ z.main = q.main /\ z.fifo = q.fifo /\ z.cpu = q.cpu /\ z.gate = "open"
      BY <1>2, <2>1 DEF Step, LockStep, CpuStepOf, GateStep, Known, Unknown
    <2> QED BY <1>22, <1>4, <1>5, <2>2 DEF LoadState
  <1>23. CASE Running(t)
    <2>1. op = "running"
      BY <1>23 DEF Running, op
    <2>2. q.main
          /\ z.main = q.main /\ z.fifo = q.fifo /\ z.cpu = q.cpu /\ z.gate = "open"
      BY <1>2, <2>1 DEF Step, LockStep, CpuStepOf, GateStep, Known, Unknown
    <2> QED BY <1>23, <1>4, <1>5, <2>2 DEF Running
  <1>24. CASE WaitFlush(t)
    <2>1. op = "wait_flush"
      BY <1>24 DEF WaitFlush, op
    <2>2. /\ \/ q.gate = "flush" /\ z.gate = "drained"
             \/ q.gate = "scale" /\ z.gate = "scale"
          /\ z.main = q.main /\ z.fifo = q.fifo /\ z.cpu = q.cpu
      BY <1>2, <2>1 DEF Step, LockStep, CpuStepOf, GateStep, Known, Unknown
    <2> QED BY <1>24, <1>4, <1>5, <2>2 DEF WaitFlush
  <1>25. CASE WaitDirty(t)
    <2>1. op = "wait_dirty"
      BY <1>25 DEF WaitDirty, op
    <2>2. /\ \/ q.gate = "dirty" /\ z.gate = "drained"
             \/ q.gate = "scale" /\ z.gate = "scale"
          /\ z.main = q.main /\ z.fifo = q.fifo /\ z.cpu = q.cpu
      BY <1>2, <2>1 DEF Step, LockStep, CpuStepOf, GateStep, Known, Unknown
    <2> QED BY <1>25, <1>4, <1>5, <2>2 DEF WaitDirty
  <1>26. CASE ScaleHalt(t)
    <2>1. op = "scale_halt"
      BY <1>26 DEF ScaleHalt, op
    <2>2. q.main
          /\ z.main = q.main /\ z.fifo = q.fifo /\ z.cpu = q.cpu /\ z.gate = "scale"
      BY <1>2, <2>1 DEF Step, LockStep, CpuStepOf, GateStep, Known, Unknown
    <2> QED BY <1>26, <1>4, <1>5, <2>2 DEF ScaleHalt
  <1>27. CASE ScaleAsk(t)
    <2>1. op \in {"scale_dirty", "scale_flush"}
      BY <1>27 DEF ScaleAsk, op
    <2>2. q.gate = "scale"
          /\ z = q
      BY <1>2, <2>1 DEF Step, LockStep, CpuStepOf, GateStep, Known, Unknown
    <2>3. CASE AskDirty
      BY <1>27, <1>4, <1>5, <2>2, <2>3 DEF ScaleAsk
    <2>4. CASE AskFlush
      BY <1>27, <1>4, <1>5, <2>2, <2>4 DEF ScaleAsk
    <2> QED BY <1>27, <2>3, <2>4 DEF ScaleAsk
  <1>28. CASE ScaleKick(t)
    <2>1. op = "kick"
      BY <1>28 DEF ScaleKick, op
    <2>2. q.gate = "scale"
          /\ z = q
      BY <1>2, <2>1 DEF Step, LockStep, CpuStepOf, GateStep, Known, Unknown
    <2> QED BY <1>28, <1>4, <1>5, <2>2 DEF ScaleKick
  <1>29. CASE ScaleResume(t)
    <2>1. op = "scale_resume"
      BY <1>29 DEF ScaleResume, op
    <2>2. q.gate = "scale"
          /\ z.main = q.main /\ z.fifo = q.fifo /\ z.cpu = q.cpu /\ z.gate = "open"
      BY <1>2, <2>1 DEF Step, LockStep, CpuStepOf, GateStep, Known, Unknown
    <2> QED BY <1>29, <1>4, <1>5, <2>2 DEF ScaleResume
  <1> QED BY <1>7, <1>8, <1>9, <1>10, <1>11, <1>12, <1>13, <1>14, <1>15, <1>16, <1>17, <1>18,
        <1>19, <1>20, <1>21, <1>22, <1>23, <1>24, <1>25, <1>26, <1>27, <1>28, <1>29 DEF
        HolderStep

(* The steps that need not be the holder's, and the vCPU's stop and start. *)
LEMMA LockMainLoopSound ==
    ASSUME NEW ctx \in [Threads -> Contexts], NEW t \in Threads, Sound(ctx), LockMainLoop(t)
    PROVE  IInv'
  <1> DEFINE q == ctx[t]
  <1>1. PICK z \in Contexts : Step(q, "main_loop_lock", z) /\ Follows([ctx EXCEPT ![t] = z])'
    BY DoStep DEF Sound, LockMainLoop
  <1> DEFINE d == [ctx EXCEPT ![t] = z]
  <1>2. z.main /\ z.fifo = q.fifo /\ z.cpu = q.cpu /\ z.gate = q.gate
    BY <1>1 DEF Step, LockStep, CpuStepOf, GateStep, Known
  <1>3. /\ d \in [Threads -> Contexts] /\ d[t] = z
        /\ \A u \in Threads : u # t => d[u] = ctx[u]
        /\ d["ui"].cpu = ctx["ui"].cpu
    BY <1>2 DEF Threads
  <1>4. \A u \in Threads : Holds(u, ctx[u]) /\ ~ctx[u].main
    BY DEF Sound, Holds, HoldsLocks, LockMainLoop, Threads
  <1> HIDE DEF d
  <1>5. ASSUME NEW u \in Threads
        PROVE  Holds(u, d[u])'
    BY <1>2, <1>3, <1>4 DEF Holds, HoldsLocks, HoldsCpu, HoldsGate, Pushing, InMethod, AtRest,
                            LockMainLoop, events, vm
  <1>6. TypeOK' /\ LockInv' /\ WorkInv' /\ StopInv(d)'
    BY <1>3 DEF Sound, TypeOK, LockInv, WorkInv, StopInv, LockMainLoop, InMethod, events, vm,
                PfStates, Owner, Threads
  <1> QED BY <1>1, <1>3, <1>5, <1>6 DEF IInv, Sound, d

(* pause_all_vcpus, of the main loop or of do_vm_stop: a paused machine    *)
(* stays so for the UI that found it paused.                               *)
LEMMA PauseVcpusSound ==
    ASSUME NEW ctx \in [Threads -> Contexts], NEW t \in Threads, Sound(ctx), PauseVcpus(t)
    PROVE  IInv'
  <1> DEFINE q == ctx[t]
  <1>1. PICK z \in Contexts : Step(q, "pause_all_vcpus", z) /\ Follows([ctx EXCEPT ![t] = z])'
    BY DoStep DEF Sound, PauseVcpus
  <1> DEFINE d == [ctx EXCEPT ![t] = z]
  <1>2. q.main /\ z.main = q.main /\ z.fifo = q.fifo /\ z.cpu = "asked" /\ z.gate = q.gate
    BY <1>1 DEF Step, LockStep, CpuStepOf, GateStep, Known
  <1>3. /\ d \in [Threads -> Contexts] /\ d[t] = z
        /\ \A u \in Threads : u # t => d[u] = ctx[u]
        /\ d["ui"].cpu = IF t = "ui" THEN "asked" ELSE ctx["ui"].cpu
    BY <1>2 DEF Threads
  <1>4. TypeOK /\ LockInv /\ WorkInv /\ StopInv(ctx) /\ Holds(t, q)
    BY DEF Sound
  <1> HIDE DEF d
  <1>5. Holds(t, z)'
    BY <1>2, <1>4 DEF Holds, HoldsLocks, HoldsCpu, HoldsGate, Pushing, InMethod, AtRest,
          Resting,
                      PauseVcpus, events
  <1>6. ASSUME NEW u \in Threads, u # t
        PROVE  Holds(u, ctx[u])'
    <2>1. ~ctx[u].main /\ ctx[u].fifo = "free" /\ ctx[u].gate = "open"
          /\ ctx[u].cpu \in {"any", "paused"} /\ Holds(u, ctx[u])
      BY <1>2, <1>6, OneHolder DEF Sound
    <2> QED BY <1>6, <2>1 DEF Holds, HoldsLocks, HoldsCpu, HoldsGate, AtRest, Resting,
          PauseVcpus
  <1>7. TypeOK' /\ LockInv' /\ WorkInv'
    BY <1>4 DEF TypeOK, LockInv, WorkInv, PauseVcpus, InMethod, events, Owner
  <1>8. StopInv(d)'
    BY <1>3, <1>4 DEF StopInv, PauseVcpus, Threads
  <1>9. ASSUME NEW u \in Threads
        PROVE  Holds(u, d[u])'
    BY <1>3, <1>5, <1>6
  <1> QED BY <1>1, <1>3, <1>7, <1>8, <1>9 DEF IInv, Sound, d

(* resume_all_vcpus: the main loop's does not resume a paused machine.     *)
LEMMA ResumeVcpusSound ==
    ASSUME NEW ctx \in [Threads -> Contexts], NEW t \in Threads, Sound(ctx), ResumeVcpus(t)
    PROVE  IInv'
  <1> DEFINE q == ctx[t]
  <1>1. PICK z \in Contexts : Step(q, "resume_all_vcpus", z) /\ Follows([ctx EXCEPT ![t] = z])'
    BY DoStep DEF Sound, ResumeVcpus
  <1> DEFINE d == [ctx EXCEPT ![t] = z]
  <1>2. q.main /\ AtRest(q) /\ z.main = q.main /\ z.fifo = q.fifo /\ z.cpu = "any"
        /\ z.gate = "open"
    BY <1>1 DEF Step, LockStep, CpuStepOf, GateStep, Known
  <1>3. /\ d \in [Threads -> Contexts] /\ d[t] = z
        /\ \A u \in Threads : u # t => d[u] = ctx[u]
    BY DEF Threads
  <1>4. TypeOK /\ LockInv /\ WorkInv /\ StopInv(ctx) /\ Holds(t, q)
    BY DEF Sound
  <1> HIDE DEF d
  <1>5. Holds(t, z)'
    BY <1>2, <1>4 DEF Holds, HoldsLocks, HoldsCpu, HoldsGate, AtRest, Resting, ResumeVcpus,
          locks
  <1>6. cpu' = "run" /\ vcpuStop' = ~vmRunning' /\ vmRunning' = (t = "ui" \/ vmRunning)
    BY <1>2, <1>4 DEF Holds, HoldsCpu, ResumeVcpus
  <1>7. ASSUME NEW u \in Threads, u # t
        PROVE  Holds(u, ctx[u])'
    <2>1. ~ctx[u].main /\ ctx[u].fifo = "free" /\ ctx[u].gate = "open"
          /\ ctx[u].cpu \in {"any", "paused"} /\ Holds(u, ctx[u])
      BY <1>2, <1>7, OneHolder DEF Sound
    <2> QED BY <1>6, <1>7, <2>1 DEF Holds, HoldsLocks, HoldsCpu, HoldsGate, AtRest, Resting
  <1>8. TypeOK' /\ LockInv' /\ WorkInv'
    BY <1>4, <1>6 DEF TypeOK, LockInv, WorkInv, ResumeVcpus, InMethod, events, locks
  <1>9. StopInv(d)'
    BY <1>6 DEF StopInv
  <1>10. ASSUME NEW u \in Threads
        PROVE  Holds(u, d[u])'
    BY <1>3, <1>5, <1>7
  <1> QED BY <1>1, <1>3, <1>8, <1>9, <1>10 DEF IInv, Sound, d

(* A frame asks for a download and waits for it, and disturbs no drain.    *)
LEMMA FrameSound ==
    ASSUME NEW ctx \in [Threads -> Contexts], NEW t \in Threads, Sound(ctx),
           AskFrame(t) \/ WaitDownload(t)
    PROVE  IInv'
  <1> DEFINE op == Head(prog[t])
  <1>1. Do(t, op) /\ op \in {"frame", "wait_download"}
    BY DEF AskFrame, WaitDownload, Do
  <1>2. PICK z \in Contexts : Step(ctx[t], op, z) /\ Follows([ctx EXCEPT ![t] = z])'
    BY <1>1, DoStep DEF Sound
  <1>3. z = ctx[t]
    BY <1>1, <1>2 DEF Step, LockStep, CpuStepOf, GateStep
  <1>4. Follows(ctx)'
    BY <1>2, <1>3
  <1>5. ASSUME NEW u \in Threads
        PROVE  Holds(u, ctx[u])'
    <2>1. Holds(u, ctx[u])
      BY DEF Sound
    <2> QED BY <2>1 DEF Holds, HoldsLocks, HoldsCpu, HoldsGate, Pushing, InMethod, AtRest,
          AskFrame,
                        AskDownload, WaitDownload, Kick, Broadcast, locks, events, vm
  <1>6. TypeOK' /\ LockInv' /\ WorkInv' /\ StopInv(ctx)'
    BY DEF Sound, TypeOK, LockInv, WorkInv, StopInv, AskFrame, WaitDownload, AskDownload, Kick,
           Broadcast, InMethod, events, vm, locks, PfStates
  <1> QED BY <1>4, <1>5, <1>6 DEF IInv, Sound

(* Every operation of the two threads keeps the invariant.                 *)
LEMMA OpSound ==
    ASSUME NEW t \in Threads, IInv, OpStep(t) \/ SpuriousWake(t)
    PROVE  IInv'
  <1>1. PICK ctx \in [Threads -> Contexts] : Sound(ctx)
    BY DEF IInv
  <1> QED BY <1>1, HolderSound, LockMainLoopSound, PauseVcpusSound, ResumeVcpusSound, FrameSound
          DEF OpStep, HolderStep
-------------------------------------------------------------------------------
(* The PFIFO thread.                                                       *)
LEMMA PfParkFollows ==
    ASSUME NEW ctx \in [Threads -> Contexts], Follows(ctx), SignalIdle
    PROVE  Follows(ctx)'
  <1>1. CASE UNCHANGED prog
    BY <1>1 DEF Follows
  <1>2. CASE ~UNCHANGED prog
    <2>1. PICK t \in Threads : Do(t, "idle_wait")
      BY <1>2 DEF SignalIdle, IdleWaiters, Do
    <2>2. PICK z \in Contexts : Step(ctx[t], "idle_wait", z) /\ Follows([ctx EXCEPT ![t] = z])'
      BY <2>1, DoStep
    <2>3. z = ctx[t]
      BY <2>2 DEF Step, LockStep, CpuStepOf, GateStep
    <2> QED BY <2>2, <2>3
  <1> QED BY <1>1, <1>2

(* Every step of the PFIFO thread keeps the invariant: it passes the test  *)
(* of halt only unhalted, and completes what was asked only outside of the *)
(* pusher.                                                                 *)
LEMMA PfSound ==
    ASSUME IInv, PfStep
    PROVE  IInv'
  <1>1. PICK ctx \in [Threads -> Contexts] : Sound(ctx)
    BY DEF IInv
  <1>2. Follows(ctx)'
    <2>1. CASE PfPark
      BY <1>1, <2>1, PfParkFollows DEF PfPark, Sound
    <2>2. CASE UNCHANGED prog
      BY <1>1, <2>2 DEF Follows, Sound
    <2> QED BY <2>1, <2>2 DEF PfStep, PfTop, PfPending, PfRelock, PfDecide, PfPush, PfPushEnd,
                              PfMethod, PfIrq, PfIrqRelock, PfMethodDone, PfAgain, PfWake
  <1>3. TypeOK /\ LockInv /\ WorkInv /\ StopInv(ctx)
    BY <1>1 DEF Sound
  <1>4. SUFFICES /\ TypeOK' /\ LockInv' /\ WorkInv' /\ UNCHANGED <<cpu, vmRunning, vcpuStop>>
                 /\ \A t \in Threads : Holds(t, ctx[t])'
    BY <1>2, <1>3, <1>4 DEF IInv, Sound, StopInv
  <1>5. SUFFICES ASSUME NEW t \in Threads
                 PROVE  /\ TypeOK' /\ LockInv' /\ WorkInv'
                        /\ UNCHANGED <<cpu, vmRunning, vcpuStop>>
                        /\ Holds(t, ctx[t])'
    BY <1>5 DEF Threads
  <1>6. Holds(t, ctx[t])
    BY <1>1 DEF Sound
  <1> USE DEF PfRest, events, vm, TypeOK, PfStates, Owner, LockInv, WorkInv, Holds, HoldsLocks,
              HoldsCpu, HoldsGate, Pushing, InMethod, Threads
  <1>7. CASE PfTop
    BY <1>3, <1>6, <1>7 DEF PfTop
  <1>8. CASE PfPending
    BY <1>3, <1>6, <1>8 DEF PfPending, Completes
  <1>9. CASE PfRelock
    BY <1>3, <1>6, <1>9 DEF PfRelock
  <1>10. CASE PfDecide
    BY <1>3, <1>6, <1>10 DEF PfDecide
  <1>11. CASE PfPush
    BY <1>3, <1>6, <1>11 DEF PfPush
  <1>12. CASE PfPushEnd
    BY <1>3, <1>6, <1>12 DEF PfPushEnd
  <1>13. CASE PfMethod
    BY <1>3, <1>6, <1>13 DEF PfMethod
  <1>14. CASE PfIrq
    BY <1>3, <1>6, <1>14 DEF PfIrq
  <1>15. CASE PfIrqRelock
    BY <1>3, <1>6, <1>15 DEF PfIrqRelock
  <1>16. CASE PfMethodDone
    BY <1>3, <1>6, <1>16 DEF PfMethodDone
  <1>17. CASE PfAgain
    BY <1>3, <1>6, <1>17 DEF PfAgain
  <1>18. CASE PfPark
    BY <1>3, <1>6, <1>18 DEF PfPark
  <1>19. CASE PfWake
    BY <1>3, <1>6, <1>19 DEF PfWake
  <1> QED BY <1>7, <1>8, <1>9, <1>10, <1>11, <1>12, <1>13, <1>14, <1>15, <1>16, <1>17, <1>18,
        <1>19 DEF PfStep

-------------------------------------------------------------------------------
(* The vCPU: it starts nothing while it is stopped, so at rest it rests.   *)
LEMMA CpuSound ==
    ASSUME IInv, CpuStep
    PROVE  IInv'
  <1>1. PICK ctx \in [Threads -> Contexts] : Sound(ctx)
    BY DEF IInv
  <1>2. Follows(ctx)' /\ UNCHANGED <<vmRunning, vcpuStop>>
    BY <1>1 DEF Follows, Sound, CpuStep, CpuFinish, CpuEnter, CpuLock, CpuWrite, CpuAccess,
                CpuAccessed, CpuRest, vm
  <1>3. TypeOK /\ LockInv /\ WorkInv /\ StopInv(ctx)
    BY <1>1 DEF Sound
  <1>4. SUFFICES ASSUME NEW t \in Threads
                 PROVE  /\ TypeOK' /\ LockInv' /\ WorkInv'
                        /\ cpu' # "run" => cpu # "run" \/ ~vcpuStop
                        /\ Holds(t, ctx[t])'
    <2>1. \A t \in Threads : Holds(t, ctx[t])'
      BY <1>4
    <2>2. TypeOK' /\ LockInv' /\ WorkInv' /\ (cpu' # "run" => cpu # "run" \/ ~vcpuStop)
      BY <1>4 DEF Threads
    <2>3. StopInv(ctx)'
      BY <1>2, <1>3, <2>2 DEF StopInv
    <2> QED BY <1>2, <2>1, <2>2, <2>3 DEF IInv, Sound
  <1>5. Holds(t, ctx[t]) /\ ctx[t] \in Contexts
    BY <1>1 DEF Sound
  <1>6. ctx[t].gate = "cleared" => AtRest(ctx[t])
    BY <1>5 DEF Contexts
  <1> USE DEF CpuRest, events, vm, TypeOK, PfStates, Owner, LockInv, WorkInv, Holds, HoldsLocks,
              HoldsCpu, HoldsGate, Pushing, InMethod, Threads, Kick, Broadcast
  <1>7. CASE CpuEnter
    BY <1>3, <1>5, <1>7 DEF CpuEnter
  <1>8. CASE CpuLock
    BY <1>3, <1>5, <1>8 DEF CpuLock
  <1>9. CASE CpuWrite
    <2>1. work' \in 0 .. MaxWork /\ (work' = work \/ work' > 0)
      BY <1>3, <1>9 DEF CpuWrite
    <2> QED BY <1>3, <1>5, <1>6, <1>9, <2>1 DEF CpuWrite
  <1>10. CASE CpuAccess
    BY <1>3, <1>5, <1>10 DEF CpuAccess, AskDownload
  <1>11. CASE CpuAccessed
    BY <1>3, <1>5, <1>11 DEF CpuAccessed
  <1> QED BY <1>7, <1>8, <1>9, <1>10, <1>11 DEF CpuStep, CpuFinish
-------------------------------------------------------------------------------
(* A job begins, from a context that holds: a thread without one knows     *)
(* nothing, but that the machine is paused if it is.                       *)
LEMMA BeginSound ==
    ASSUME NEW ctx \in [Threads -> Contexts], NEW t \in Threads, NEW job,
           NEW c \in {Unknown, Paused}, Sound(ctx), Begin(t, job), frames' \in 0 .. MaxFrames,
           Run(job, c, Unknown), c = Paused => t = "ui" /\ ~vmRunning
    PROVE  IInv'
  <1> DEFINE d == [ctx EXCEPT ![t] = c]
  <1>1. ctx[t] = Unknown
    BY RunOver DEF Sound, Follows, Begin
  <1>2. c \in Contexts /\ ~c.main /\ c.fifo = "free" /\ c.gate = "open"
        /\ (c.cpu = "any" \/ (c.cpu = "paused" /\ t = "ui" /\ ~vmRunning))
    <2>1. CASE c = Unknown
      BY <2>1 DEF Unknown, Known, Contexts, Context, Gates, AtRest, Resting
    <2>2. CASE c = Paused
      BY <2>2 DEF Paused, Known, Contexts, Context, Gates, AtRest, Resting
    <2> QED BY <2>1, <2>2
  <1>3. ctx[t].cpu = "any"
    BY <1>1 DEF Unknown, Known
  <1>4. /\ d \in [Threads -> Contexts] /\ d[t] = c
        /\ \A u \in Threads : u # t => d[u] = ctx[u]
        /\ d["ui"].cpu = IF t = "ui" THEN c.cpu ELSE ctx["ui"].cpu
    BY <1>2 DEF Threads
  <1> HIDE DEF d
  <1>5. Follows(d)'
    <2>1. prog' \in [Threads -> Seq(Points)]
      BY DEF Begin, Sound, Follows, Run
    <2>2. ASSUME NEW u \in Threads
          PROVE  Run(prog'[u], d[u], Unknown)
      BY <1>4 DEF Begin, Sound, Follows
    <2> QED BY <1>4, <2>1, <2>2 DEF Follows
  <1>6. TypeOK /\ LockInv /\ WorkInv /\ StopInv(ctx)
    BY DEF Sound
  <1>7. TypeOK' /\ LockInv' /\ WorkInv'
    BY <1>6 DEF TypeOK, LockInv, WorkInv, InMethod, Begin, locks, events
  <1>8. vmRunning \/ (vcpuStop /\ (cpu = "run" \/ (t # "ui" /\ ctx["ui"].cpu = "asked")))
    BY <1>3, <1>6 DEF StopInv
  <1>9. StopInv(d)'
    BY <1>4, <1>8 DEF StopInv, Begin
  <1>10. Holds(t, c)'
    BY <1>2, <1>8 DEF Holds, HoldsLocks, HoldsCpu, HoldsGate, AtRest, Resting, Begin
  <1>11. ASSUME NEW u \in Threads, u # t
         PROVE  Holds(u, ctx[u])'
    <2>1. Holds(u, ctx[u])
      BY DEF Sound
    <2> QED BY <2>1 DEF Holds, HoldsLocks, HoldsCpu, HoldsGate, Pushing, InMethod, AtRest,
          Begin,
                        locks, events
  <1>12. ASSUME NEW u \in Threads
         PROVE  Holds(u, d[u])'
    BY <1>4, <1>10, <1>11
  <1> QED BY <1>4, <1>5, <1>7, <1>9, <1>12 DEF IInv, Sound

(* Every job the threads begin is one of those shown to run.               *)
LEMMA BeginsSound ==
    ASSUME IInv, ~PausedSave, UiBegins \/ MainBegins
    PROVE  IInv'
  <1>1. PICK ctx \in [Threads -> Contexts] : Sound(ctx)
    BY DEF IInv
  <1>2. vmRunning \in BOOLEAN /\ frames \in 0 .. MaxFrames
    BY <1>1 DEF Sound, TypeOK
  <1>3. Unknown # Paused
    BY DEF Unknown, Paused, Known
  <1>4. "ui" \in Threads /\ "main" \in Threads
    BY DEF Threads
  <1>5. CASE frames < MaxFrames /\ frames' = frames + 1 /\ Begin("ui", Frame)
    <2>1. frames' \in 0 .. MaxFrames
      BY <1>2, <1>5
    <2> QED BY <1>1, <1>3, <1>4, <1>5, <2>1, BeginSound, FrameRuns
  <1>6. CASE UNCHANGED frames
    <2>1. frames' \in 0 .. MaxFrames
      BY <1>2, <1>6
    <2>2. CASE Begin("ui", Scale)
      BY <1>1, <1>3, <1>4, <2>1, <2>2, BeginSound, ScaleJobRuns
    <2>3. CASE vmRunning /\ Begin("ui", Load(TRUE))
      BY <1>1, <1>3, <1>4, <2>1, <2>3, BeginSound, LoadJobRuns
    <2>4. CASE ~vmRunning /\ Begin("ui", Load(FALSE))
      BY <1>1, <1>4, <2>1, <2>4, BeginSound, PausedLoadJobRuns
    <2>5. CASE Begin("ui", Pause)
      BY <1>1, <1>3, <1>4, <2>1, <2>5, BeginSound, PauseJobRuns
    <2>6. CASE ~vmRunning /\ Begin("ui", Resume)
      BY <1>1, <1>4, <2>1, <2>6, BeginSound, ResumeJobRuns
    <2>7. CASE Begin("ui", Save(TRUE))
      BY <1>1, <1>3, <1>4, <2>1, <2>7, BeginSound, SaveJobRuns
    <2>8. CASE Begin("main", Reset)
      BY <1>1, <1>3, <1>4, <2>1, <2>8, BeginSound, ResetJobRuns
    <2>9. \/ frames < MaxFrames /\ frames' = frames + 1 /\ Begin("ui", Frame)
          \/ \E job \in {Scale, Load(vmRunning)} : Begin("ui", job)
          \/ vmRunning /\ Begin("ui", Pause)
          \/ ~vmRunning /\ Begin("ui", Resume)
          \/ vmRunning /\ Begin("ui", Save(vmRunning))
          \/ Begin("main", Reset)
      BY DEF UiBegins, MainBegins
    <2>10. CASE vmRunning = TRUE
      BY <1>5, <2>2, <2>3, <2>5, <2>7, <2>8, <2>9, <2>10
    <2>11. CASE vmRunning = FALSE
      BY <1>5, <2>2, <2>4, <2>6, <2>8, <2>9, <2>11
    <2> QED BY <1>2, <2>10, <2>11
  <1> QED BY <1>5, <1>6 DEF UiBegins, MainBegins
-------------------------------------------------------------------------------
(* The invariant holds initially.                                          *)
LEMMA InitSound == Init => IInv
  <1> SUFFICES ASSUME Init PROVE IInv
    OBVIOUS
  <1> DEFINE ctx == [t \in Threads |-> Unknown]
  <1>1. Unknown \in Contexts /\ ~Unknown.main /\ Unknown.fifo = "free" /\ Unknown.cpu = "any"
        /\ Unknown.gate = "open"
    BY DEF Unknown, Known, Contexts, Context, Gates, AtRest, Resting
  <1>2. ctx \in [Threads -> Contexts] /\ \A t \in Threads : ctx[t] = Unknown
    BY <1>1
  <1> HIDE DEF ctx
  <1>3. Run(<<>>, Unknown, Unknown)
    BY <1>1, RunNothing
  <1>4. prog \in [Threads -> Seq(Points)] /\ \A t \in Threads : prog[t] = <<>>
    BY DEF Init
  <1>5. Follows(ctx)
    BY <1>2, <1>3, <1>4 DEF Follows
  <1>6. ASSUME NEW t \in Threads
        PROVE  Holds(t, ctx[t])
    BY <1>1, <1>2 DEF Holds, HoldsLocks, HoldsCpu, HoldsGate, AtRest, Resting
  <1>7. TypeOK
    <2>1. 0 \in 0 .. MaxWork /\ 0 \in 0 .. MaxFrames
      OBVIOUS
    <2> QED BY <2>1 DEF Init, TypeOK, PfStates, Owner, Threads
  <1>8. StopInv(ctx) /\ LockInv /\ WorkInv
    BY DEF Init, StopInv, LockInv, WorkInv, InMethod
  <1> QED BY <1>2, <1>5, <1>6, <1>7, <1>8 DEF IInv, Sound

(* The invariant says nothing of anything but the variables.               *)
LEMMA StutterSound == ASSUME IInv, UNCHANGED vars PROVE IInv'
  BY DEF IInv, Sound, Follows, Holds, HoldsLocks, HoldsCpu, HoldsGate, Pushing, InMethod,
        TypeOK,
         StopInv, LockInv, WorkInv, vars, locks, events, vm

(* The invariant is inductive, as long as no snapshot is saved of a paused *)
(* machine: do_vm_stop then skips the notifier that locks the FIFO.        *)
THEOREM Invariance == ASSUME ~PausedSave PROVE Spec => []IInv
  <1>1. IInv /\ [Next]_vars => IInv'
    BY PfSound, CpuSound, BeginsSound, OpSound, StutterSound DEF Next
  <1> QED BY InitSound, <1>1, PTL DEF Spec

(* What a thread is about to do, its context allows.                       *)
LEMMA AtStep ==
    ASSUME NEW ctx \in [Threads -> Contexts], NEW t \in Threads, NEW op, Sound(ctx), At(t, op)
    PROVE  /\ \E z \in Contexts : Step(ctx[t], op, z)
           /\ Holds(t, ctx[t])
  BY RunOn DEF Sound, Follows, At

(* TypeOK: the puller executes no more methods than were pushed.           *)
THEOREM Typed == ASSUME ~PausedSave PROVE Spec => []TypeOK
  <1>1. IInv => TypeOK
    BY DEF IInv, Sound
  <1> QED BY Invariance, <1>1, PTL

(* Quiescent: nv2a_reset clears, and a snapshot saves and overwrites, the  *)
(* FIFO's state with no method in flight, spurious wake-ups included.      *)
THEOREM Quiescence == ASSUME ~PausedSave PROVE Spec => []Quiescent
  <1>1. IInv => Quiescent
    <2> SUFFICES ASSUME NEW ctx \in [Threads -> Contexts], Sound(ctx), NEW t \in Threads,
                        At(t, "reset_clear") \/ At(t, "save") \/ At(t, "load")
                 PROVE  ~InMethod
      BY DEF IInv, Quiescent
    <2>1. PICK op \in {"reset_clear", "save", "load"} : At(t, op)
      OBVIOUS
    <2>2. PICK z \in Contexts : Step(ctx[t], op, z)
      BY <2>1, AtStep
    <2>3. ctx[t].gate \in {"drained", "cleared"} /\ Holds(t, ctx[t])
      BY <2>1, <2>2, AtStep DEF Step, LockStep, CpuStepOf, GateStep
    <2> QED BY <2>3 DEF Holds, HoldsGate, Pushing, InMethod
  <1> QED BY Invariance, <1>1, PTL

(* UnlockedByOwner: nv2a_unlock_fifo and nv2a_post_load release locks that *)
(* their thread holds.                                                     *)
THEOREM Ownership == ASSUME ~PausedSave PROVE Spec => []UnlockedByOwner
  <1>1. IInv => UnlockedByOwner
    <2> SUFFICES ASSUME NEW ctx \in [Threads -> Contexts], Sound(ctx), NEW t \in Threads,
                        At(t, "unlock_fifo") \/ At(t, "post_load")
                 PROVE  pfifoLock = t /\ pgraphLock = t
      BY DEF IInv, UnlockedByOwner
    <2>1. PICK op \in {"unlock_fifo", "post_load"} : At(t, op)
      OBVIOUS
    <2>2. PICK z \in Contexts : Step(ctx[t], op, z)
      BY <2>1, AtStep
    <2>3. ctx[t].fifo = "both" /\ Holds(t, ctx[t])
      BY <2>1, <2>2, AtStep DEF Step, LockStep, CpuStepOf, GateStep
    <2> QED BY <2>3 DEF Holds, HoldsLocks
  <1> QED BY Invariance, <1>1, PTL

(* NoLockInversion: nv2a_lock_fifo waits for the BQL under pfifo.lock only *)
(* while no register write can hold the BQL and wait for pfifo.lock.       *)
THEOREM LockOrder == ASSUME ~PausedSave PROVE Spec => []NoLockInversion
  <1>1. IInv => NoLockInversion
    <2> SUFFICES ASSUME NEW ctx \in [Threads -> Contexts], Sound(ctx), NEW t \in Threads,
                        At(t, "bql_under_lock")
                 PROVE  cpu # "write"
      BY DEF IInv, NoLockInversion
    <2>1. PICK op \in {"bql_under_lock"} : At(t, op)
      OBVIOUS
    <2>2. PICK z \in Contexts : Step(ctx[t], op, z)
      BY <2>1, AtStep
    <2>3. AtRest(ctx[t]) /\ Holds(t, ctx[t])
      BY <2>1, <2>2, AtStep DEF Step, LockStep, CpuStepOf, GateStep
    <2> QED BY <2>3 DEF Holds, HoldsCpu
  <1> QED BY Invariance, <1>1, PTL

(* HaltedThroughout: pfifo.halt stays set from the one that halts the FIFO *)
(* to its own clearing, saving or resuming.                                *)
THEOREM HaltKept == ASSUME ~PausedSave PROVE Spec => []HaltedThroughout
  <1>1. IInv => HaltedThroughout
    <2> SUFFICES ASSUME NEW ctx \in [Threads -> Contexts], Sound(ctx), NEW t \in Threads,
                        At(t, "reset_clear") \/ At(t, "save") \/ At(t, "scale_resume")
                 PROVE  halt
      BY DEF IInv, HaltedThroughout
    <2>1. PICK op \in {"reset_clear", "save", "scale_resume"} : At(t, op)
      OBVIOUS
    <2>2. PICK z \in Contexts : Step(ctx[t], op, z)
      BY <2>1, AtStep
    <2>3. ctx[t].gate \in {"drained", "scale"} /\ Holds(t, ctx[t])
      BY <2>1, <2>2, AtStep DEF Step, LockStep, CpuStepOf, GateStep
    <2> QED BY <2>3 DEF Holds, HoldsGate
  <1> QED BY Invariance, <1>1, PTL

===============================================================================
