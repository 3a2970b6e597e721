---------------------------- MODULE VoiceWorkProofs ----------------------------
(* For any number of voices, lists and workers, any roles of the voices and  *)
(* any behaviour of the guest (Nested, Relink): under which locks and in     *)
(* which order a frame mixes, and, if the frame thread's wait is not ended   *)
(* unsignalled (~Unsignalled), what it has mixed in the end.  For a guest    *)
(* that turns on only voices it has in no list (~Relink): the assertions on  *)
(* the queue and on the order in it.                                         *)
(*                                                                           *)
(* The argument, a part of the inductive invariant a section:                *)
(*   TypeInv   the types, and the dealing starts at the queue's first voice; *)
(*   GuestInv  the guest's bit and the frame's spin lock exclude each other; *)
(*   LocksInv  the queued voices are those whose spin lock the walk took;    *)
(*   WorkInv   a dealt voice is in one place of one worker's queue or mixed, *)
(*             and nobody processes outside voice_work_dispatch's wait;      *)
(*   MultiInv  the sources still waiting for their multipass voice are with  *)
(*             the worker whose turn it is;                                  *)
(*   ListInv   the tops and links spell out sequences without repetition,    *)
(*             plain voices first, and the walk has left the queued voices   *)
(*             behind it, whatever VOICE_ON puts in;                         *)
(*   CallInv   VOICE_ON is under way only for a voice that is on no list;    *)
(*   QueueInv  the queue is in the order of the lists, no voice twice.       *)
(* FrameEnds depends on fairness and is checked by TLC.                      *)
EXTENDS VoiceWork, FiniteSetTheorems, NaturalInduction, TLAPS

USE VoicesAssumption, CountsAssumption, RoleAssumption, GuestAssumption, WaitAssumption
USE DEF FramePcs

(* The steps, thread by thread.                                              *)
LEMMA NextCases ==
    Next => \/ CpuStep \/ FrameStep \/ AwaitUnsignalled \/ AudioBroadcast
            \/ \E w \in Workers : WorkerStep(w) \/ WorkerUnsignalled(w)
  BY DEF Next, SpuriousWake

(* The dealing starts at the first voice of the queue.                       *)
FromFirst == fr.pc = "dispatch" => fr.n = 0
TypeInv == TypeOK /\ FromFirst

(* MCPX_HW_MAX_VOICES is a number: there are finitely many voices.           *)
LEMMA MaxVoicesType == MaxVoices \in Nat
  BY FS_CardinalityType DEF MaxVoices

(* The vCPU's methods keep the types; of the frame thread and the workers    *)
(* they touch only the stall, which a signal ends.                           *)
LEMMA GuestTyped == ASSUME TypeInv, CpuStep PROVE TypeInv'
  <1> USE DEF TypeInv, TypeOK, FromFirst
  <1>1. SUFFICES GuestTypes' /\ FrameTypes' /\ FromFirst' /\ UNCHANGED work
    BY <1>1 DEF WorkTypes, work
  <1>2. UNCHANGED work
    BY DEF CpuStep, CpuFinish, CpuUnlocks, CpuCall, CpuSet, CpuLink, CpuEdit, CpuClear,
       CpuSignal, GuestService, CpuVoiceOff
  <1>3. FrameTypes' /\ FromFirst'
    <2>1. CASE UNCHANGED <<held, fr>>
      BY <1>2, <2>1 DEF FrameTypes, work
    <2>2. CASE UNCHANGED held /\ Wake
      BY <1>2, <2>2 DEF FrameTypes, work, Wake, AtVoice
    <2> QED BY <2>1, <2>2 DEF CpuStep, CpuFinish, CpuUnlocks, CpuCall, CpuSet, CpuLink,
               CpuEdit, CpuClear, CpuSignal, GuestService, CpuVoiceOff
  <1>4. GuestTypes'
    <2> USE DEF GuestTypes, Handles
    <2>1. ASSUME NEW v \in Voices, NEW op \in {"lock", "on", "release", "unlock"},
                 CpuCall(op, v)
          PROVE  GuestTypes'
      BY <2>1 DEF CpuCall
    <2>2. CASE CpuSet
      BY <2>2 DEF CpuSet, Idle
    <2>3. CASE CpuLink
      BY <2>3 DEF CpuLink
    <2>4. CASE CpuEdit
      BY <2>4 DEF CpuEdit, Idle
    <2>5. CASE CpuClear
      BY <2>5 DEF CpuClear, Idle
    <2>6. CASE CpuSignal
      BY <2>6 DEF CpuSignal, Idle
    <2>7. CASE GuestService
      <3>1. CASE UNCHANGED <<top, link>>
        BY <2>7, <3>1 DEF GuestService
      <3>2. ASSUME NEW v \in Voices,
                   top' = [l \in Lists |-> IF top[l] = v THEN link[v] ELSE top[l]],
                   link' = [a \in Voices |-> IF a # v /\ link[a] = v THEN link[v] ELSE link[a]]
            PROVE  top' \in [Lists -> Handles] /\ link' \in [Voices -> Handles]
        BY <3>2
      <3>3. top' \in [Lists -> Handles] /\ link' \in [Voices -> Handles]
        BY <2>7, <3>1, <3>2 DEF GuestService
      <3> QED BY <2>7, <3>3 DEF GuestService
    <2>8. ASSUME NEW v \in Voices, CpuVoiceOff(v)
          PROVE  GuestTypes'
      BY <2>8 DEF CpuVoiceOff
    <2> QED BY <2>1, <2>2, <2>3, <2>4, <2>5, <2>6, <2>7, <2>8 DEF CpuStep, CpuFinish,
               CpuUnlocks
  <1> QED BY <1>2, <1>3, <1>4

(* So do the steps of mcpx_apu_vp_frame and of the audio callback: the walk  *)
(* counts up to MaxVoices in each list, the dealing up to the queue's        *)
(* length.                                                                   *)
LEMMA FrameTyped ==
    ASSUME TypeInv, FrameStep \/ AwaitUnsignalled \/ AudioBroadcast PROVE TypeInv'
  <1> USE DEF TypeInv, TypeOK, FromFirst
  <1>1. MaxVoices \in Nat
    BY MaxVoicesType
  <1>2. CASE FrameStart
    <2>1. GuestTypes' /\ WorkTypes'
      BY <1>2 DEF FrameStart, GuestTypes, WorkTypes, guest, work
    <2>2. top[1] \in Handles
      BY DEF GuestTypes, Lists
    <2>3. FrameTypes' /\ FromFirst'
      BY <1>1, <1>2, <2>2 DEF FrameStart, FrameTypes, AtVoice, work
    <2> QED BY <2>1, <2>3
  <1>3. CASE VisitIdle
    <2>1. GuestTypes' /\ WorkTypes'
      BY <1>3 DEF VisitIdle, GuestTypes, WorkTypes, work
    <2>2. link[fr.cur] \in Handles /\ fr.n + 1 \in Nat /\ fr.n + 1 <= MaxVoices
      BY <1>1, <1>3 DEF VisitIdle, InList, GuestTypes, FrameTypes, Handles
    <2>3. FrameTypes' /\ FromFirst'
      BY <1>3, <2>2 DEF VisitIdle, InList, FrameTypes, AtVoice, work
    <2> QED BY <2>1, <2>3
  <1>4. CASE VisitActive
    <2>1. GuestTypes' /\ WorkTypes'
      BY <1>4 DEF VisitActive, InList, GuestTypes, WorkTypes, FrameTypes, Handles, guest
    <2>2. link[fr.cur] \in Handles /\ fr.n + 1 \in Nat /\ fr.n + 1 <= MaxVoices
      BY <1>1, <1>4 DEF VisitActive, InList, GuestTypes, FrameTypes, Handles
    <2>3. FrameTypes' /\ FromFirst'
      BY <1>4, <2>2 DEF VisitActive, InList, FrameTypes, AtVoice
    <2> QED BY <2>1, <2>3
  <1>5. CASE AcquireTaken
    <2>1. GuestTypes'
      BY <1>5 DEF AcquireTaken, GuestTypes, guest
    <2>2. WorkTypes'
      BY <1>5 DEF AcquireTaken, WorkTypes, FrameTypes, work, Handles
    <2>3. FrameTypes' /\ FromFirst'
      BY <1>1, <1>5 DEF AcquireTaken, FrameTypes, AtVoice, Handles, GuestTypes, WorkTypes,
         work
    <2> QED BY <2>1, <2>2, <2>3
  <1>6. CASE AcquireRefused
    <2>1. GuestTypes'
      BY <1>6 DEF AcquireRefused, GuestTypes, guest
    <2>2. WorkTypes'
      BY <1>6 DEF AcquireRefused, WorkTypes, FrameTypes, work, Handles
    <2>3. FrameTypes' /\ FromFirst'
      BY <1>1, <1>6 DEF AcquireRefused, FrameTypes, AtVoice, Handles, GuestTypes, WorkTypes,
         work
    <2> QED BY <2>1, <2>2, <2>3
  <1>7. CASE Stall
    <2>1. GuestTypes'
      BY <1>7 DEF Stall, GuestTypes, guest
    <2>2. WorkTypes'
      BY <1>7 DEF Stall, WorkTypes, FrameTypes, work, Handles
    <2>3. FrameTypes' /\ FromFirst'
      BY <1>1, <1>7 DEF Stall, FrameTypes, AtVoice, Handles, GuestTypes, WorkTypes, work
    <2> QED BY <2>1, <2>2, <2>3
  <1>8. CASE NextList
    <2>1. GuestTypes' /\ WorkTypes'
      BY <1>8 DEF NextList, GuestTypes, WorkTypes, guest, work
    <2>2. CASE fr.list < NumLists
      <3>1. fr.list + 1 \in Lists /\ top[fr.list + 1] \in Handles
        BY <2>2 DEF GuestTypes, FrameTypes, Lists
      <3>2. fr' = [fr EXCEPT !.list = fr.list + 1, !.cur = top[fr.list + 1], !.n = 0]
            /\ UNCHANGED held /\ fr.pc = "walk"
        BY <1>8, <2>2 DEF NextList
      <3>3. fr'.pc = "walk" /\ fr'.n = 0 /\ fr'.list = fr.list + 1
            /\ fr'.cur = top[fr.list + 1] /\ fr'.nxt = fr.nxt
            /\ fr' = [pc |-> fr'.pc, list |-> fr'.list, cur |-> fr'.cur, nxt |-> fr'.nxt,
                      n |-> fr'.n]
        BY <3>2 DEF FrameTypes
      <3> QED BY <1>1, <2>1, <3>1, <3>2, <3>3 DEF FrameTypes, AtVoice
    <2>3. CASE ~(fr.list < NumLists)
      BY <1>1, <1>8, <2>1, <2>3 DEF NextList, FrameTypes, AtVoice, Outside, Lists, Handles
    <2> QED BY <2>2, <2>3
  <1>9. CASE Dispatch
    <2>1. GuestTypes' /\ WorkTypes' /\ UNCHANGED held
      BY <1>9 DEF Dispatch, GuestTypes, WorkTypes, guest, work
    <2>2. CASE queue = <<>>
      BY <1>1, <1>9, <2>1, <2>2 DEF Dispatch, FrameTypes, AtVoice, Outside, Lists, Handles
    <2>3. CASE queue # <<>>
      <3>1. Len(queue') \in Nat
        BY <2>1 DEF WorkTypes
      <3> QED BY <1>9, <2>1, <2>3, <3>1 DEF Dispatch, FrameTypes, AtVoice
    <2> QED BY <2>2, <2>3
  <1>10. CASE Deal
    <2> DEFINE v == queue[fr.n + 1]
    <2>1. GuestTypes'
      BY <1>10 DEF Deal, GuestTypes, guest
    <2>2. fr.n \in Nat /\ Len(queue) \in Nat /\ fr.n + 1 <= Len(queue) /\ v \in Voices
      BY <1>10 DEF Deal, FrameTypes, WorkTypes
    <2>3. FrameTypes' /\ FromFirst'
      BY <1>10, <2>2 DEF Deal, FrameTypes, AtVoice
    <2>4. (sched.worker + 1) % NumWorkers \in Workers /\ sched.worker \in Workers
      BY DEF WorkTypes, Workers
    <2>5. SchedStep(sched, v)
              \in [worker : Workers, group : BOOLEAN, dirty : BOOLEAN, ok : BOOLEAN]
      BY <2>4 DEF WorkTypes, SchedStep
    <2>6. WorkTypes'
      BY <1>10, <2>2, <2>4, <2>5, SMTT(20) DEF Deal, WorkTypes
    <2> QED BY <2>1, <2>3, <2>6
  <1>11. CASE Await
    <2>1. GuestTypes'
      BY <1>11 DEF Await, GuestTypes, guest
    <2>2. WorkTypes'
      BY <1>11 DEF Await, WorkTypes, FrameTypes, work, Handles, SchedStep, SchedStart, Workers
    <2>3. fr' = [Outside EXCEPT !.pc = "await"] /\ UNCHANGED <<held, queue>>
      BY <1>11 DEF Await
    <2>4. Outside \in [pc : FramePcs, list : Lists, cur : Handles, nxt : Handles, n : Nat]
          /\ Outside.n = 0 /\ "await" \in FramePcs
      BY DEF Outside, Lists, Handles
    <2>5. fr' \in [pc : FramePcs, list : Lists, cur : Handles, nxt : Handles, n : Nat]
          /\ fr'.pc = "await" /\ fr'.n = 0
      BY <2>3, <2>4
    <2>6. FrameTypes' /\ FromFirst'
      BY <1>1, <2>3, <2>5 DEF FrameTypes, AtVoice
    <2> QED BY <2>1, <2>2, <2>6
  <1>12. CASE Finish
    <2>1. GuestTypes'
      BY <1>12 DEF Finish, GuestTypes, guest
    <2>2. WorkTypes'
      BY <1>12 DEF Finish, WorkTypes, FrameTypes, work, Handles
    <2>3. FrameTypes' /\ FromFirst'
      BY <1>1, <1>12 DEF Finish, FrameTypes, AtVoice, Handles, GuestTypes, WorkTypes, work,
         Outside, Lists
    <2> QED BY <2>1, <2>2, <2>3
  <1>13. CASE AudioBroadcast
    <2>1. GuestTypes'
      BY <1>13 DEF AudioBroadcast, GuestTypes, guest
    <2>2. WorkTypes'
      BY <1>13 DEF AudioBroadcast, WorkTypes, FrameTypes, work, Handles
    <2>3. FrameTypes' /\ FromFirst'
      BY <1>1, <1>13 DEF AudioBroadcast, FrameTypes, AtVoice, Handles, GuestTypes, WorkTypes,
         work, Wake
    <2> QED BY <2>1, <2>2, <2>3
  <1>14. CASE AwaitUnsignalled
    <2>1. GuestTypes' /\ WorkTypes'
      BY <1>14 DEF AwaitUnsignalled, GuestTypes, WorkTypes, guest, work
    <2>2. FrameTypes' /\ FromFirst'
      BY <1>1, <1>14 DEF AwaitUnsignalled, FrameTypes, AtVoice, work
    <2> QED BY <2>1, <2>2
  <1> QED BY <1>2, <1>3, <1>4, <1>5, <1>6, <1>7, <1>8, <1>9, <1>10, <1>11, <1>12,
             <1>13, <1>14 DEF FrameStep

(* So do the steps of voice_worker_thread.                                   *)
LEMMA WorkerTyped ==
    ASSUME TypeInv, NEW w \in Workers, WorkerStep(w) \/ WorkerUnsignalled(w) PROVE TypeInv'
  <1> USE DEF TypeInv, TypeOK, FromFirst
  <1>1. CASE WorkerDone(w) /\ UNCHANGED <<guest, held, queue, sched, wq, mixed>>
    <2>1. GuestTypes'
      BY <1>1 DEF GuestTypes, guest
    <2>2. WorkTypes'
      BY <1>1 DEF WorkTypes, WorkerDone
    <2>3. FrameTypes' /\ FromFirst'
      BY <1>1 DEF WorkerDone, FrameTypes, AtVoice
    <2> QED BY <2>1, <2>2, <2>3
  <1>2. CASE WorkerProcess(w)
    <2>1. GuestTypes'
      BY <1>2 DEF WorkerProcess, GuestTypes, WorkTypes
    <2>2. WorkTypes'
      BY <1>2 DEF WorkTypes, WorkerProcess
    <2>3. FrameTypes' /\ FromFirst'
      BY <1>2 DEF WorkerProcess, FrameTypes
    <2> QED BY <2>1, <2>2, <2>3
  <1>3. ASSUME NEW p \in {"woken", "process"}, wpc' = [wpc EXCEPT ![w] = p],
               UNCHANGED <<guest, held, fr, queue, sched, wq, pending, mixed>>
        PROVE  TypeInv'
    BY <1>3 DEF GuestTypes, FrameTypes, WorkTypes, guest
  <1> QED BY <1>1, <1>2, <1>3 DEF WorkerStep, WorkerWoken, WorkerFinish, WorkerUnsignalled

(* The types hold initially and every step keeps them.                       *)
LEMMA TypesInductive == (Init => TypeInv) /\ (TypeInv /\ [Next]_vars => TypeInv')
  <1>1. Init => TypeInv
    <2> SUFFICES ASSUME Init PROVE TypeInv
      OBVIOUS
    <2>1. MaxVoices \in Nat
      BY MaxVoicesType
    <2>2. GuestTypes
      BY DEF Init, GuestTypes, Idle, Handles
    <2>3. FrameTypes /\ FromFirst
      BY <2>1 DEF Init, FrameTypes, FromFirst, Outside, Lists, Handles,
              AtVoice
    <2>4. WorkTypes
      BY DEF Init, WorkTypes, SchedStart, Workers
    <2> QED BY <2>2, <2>3, <2>4 DEF TypeInv, TypeOK
  <1>2. ASSUME TypeInv, UNCHANGED vars
        PROVE  TypeInv'
    BY <1>2 DEF TypeInv, TypeOK, FromFirst, GuestTypes, FrameTypes, WorkTypes, vars
  <1> QED BY <1>1, <1>2, GuestTyped, FrameTyped, WorkerTyped, NextCases

(* TypeOK: the walk stays within MaxVoices voices of a list and the dealing  *)
(* within the queue, a voice is at hand wherever the frame thread or the     *)
(* vCPU uses one, and the locals of voice_work_schedule name a worker.       *)
THEOREM Typed == Spec => []TypeOK
  <1>1. TypeInv => TypeOK
    BY DEF TypeInv
  <1> QED BY TypesInductive, <1>1, PTL DEF Spec
-------------------------------------------------------------------------------
(* The voices whose spin lock the walk has taken are those queued, but for   *)
(* the one it is at; it has taken none of them twice.                        *)
Taken == IF fr.pc \in AtVoice THEN Len(queue) - 1 ELSE Len(queue)
LocksInv ==
    /\ fr.pc \in AtVoice => Len(queue) > 0 /\ queue[Len(queue)] = fr.cur
    /\ \A i \in 1 .. Taken : queue[i] \in held
    /\ \A i, j \in 1 .. Taken : queue[i] = queue[j] => i = j

(* Bit and spin lock exclude each other, and the vCPU edits under the bit.   *)
GuestInv ==
    /\ held \cap voiceLocked = {}
    /\ cpu.pc \in {"link", "edit"} => cpu.v \in voiceLocked

(* What the vCPU does to the frame thread's part of the state.               *)
LEMMA CpuFrame ==
    ASSUME CpuStep \/ AudioBroadcast
    PROVE  UNCHANGED <<held, work>> /\ (UNCHANGED fr \/ Wake)
  BY DEF CpuStep, CpuFinish, CpuUnlocks, CpuCall, CpuSet, CpuLink, CpuEdit, CpuClear,
     CpuSignal,
         GuestService, CpuVoiceOff, AudioBroadcast

(* The spin lock is kept only when the bit was seen clear under it, and the  *)
(* bit changes only under the spin lock.                                     *)
LEMMA GuestInductive == ASSUME TypeInv, GuestInv, [Next]_vars PROVE GuestInv'
  <1> USE DEF GuestInv
  <1>1. CASE UNCHANGED <<voiceLocked, cpu>> /\ held' \subseteq held
    BY <1>1
  <1>2. CASE AcquireTaken
    BY <1>2 DEF AcquireTaken, guest
  <1>3. CASE UNCHANGED <<held, voiceLocked>> /\ cpu'.pc \in {"idle", "set", "clear", "signal"}
    BY <1>3
  <1>4. ASSUME NEW v \in Voices, NEW op \in {"lock", "on", "release", "unlock"}, CpuCall(op, v)
        PROVE  GuestInv'
    BY <1>4 DEF CpuCall
  <1>5. CASE CpuSet
    BY <1>5 DEF CpuSet, Idle, TypeInv, TypeOK, GuestTypes
  <1>6. CASE CpuLink
    BY <1>6 DEF CpuLink, TypeInv, TypeOK, GuestTypes
  <1>7. CASE CpuEdit
    BY <1>3, <1>7 DEF CpuEdit, Idle, TypeInv, TypeOK, GuestTypes
  <1>8. CASE CpuClear
    BY <1>8 DEF CpuClear, Idle
  <1>9. CASE CpuSignal
    BY <1>3, <1>9 DEF CpuSignal, Idle
  <1>10. CASE CpuStep
    BY <1>1, <1>4, <1>5, <1>6, <1>7, <1>8, <1>9, <1>10
       DEF CpuStep, CpuFinish, CpuUnlocks, GuestService, CpuVoiceOff
  <1>11. CASE FrameStep \/ AwaitUnsignalled \/ AudioBroadcast
    BY <1>1, <1>2, <1>11 DEF FrameStep, AwaitUnsignalled, FrameStart, VisitIdle, VisitActive, AcquireRefused,
       Stall,
         NextList, Dispatch, Deal, Await, Finish, AudioBroadcast, guest
  <1>12. ASSUME NEW w \in Workers, WorkerStep(w) \/ WorkerUnsignalled(w)
         PROVE  GuestInv'
    BY <1>1, <1>12 DEF WorkerStep, WorkerWoken, WorkerProcess, WorkerFinish, WorkerUnsignalled,
       guest
  <1>13. CASE UNCHANGED vars
    BY <1>1, <1>13 DEF vars
  <1> QED BY <1>10, <1>11, <1>12, <1>13, NextCases

(* Where the steps between the voices, and those of voice_work_dispatch,     *)
(* lead from and to.                                                         *)
LEMMA FramePc ==
    ASSUME TypeInv
    PROVE  /\ FrameStart => fr.pc = "outside" /\ fr'.pc = "walk"
           /\ VisitIdle => fr.pc = "walk" /\ fr'.pc = "walk"
           /\ NextList => fr.pc = "walk" /\ fr'.pc \in {"walk", "dispatch"}
           /\ Dispatch => fr.pc = "dispatch" /\ fr'.pc \in {"outside", "deal"}
           /\ Deal => fr.pc = "deal" /\ fr'.pc = "deal"
           /\ Await => fr.pc = "deal" /\ fr'.pc = "await"
           /\ AwaitUnsignalled => fr.pc = "await" /\ fr'.pc = "failed"
  <1> USE DEF TypeInv, TypeOK, FrameTypes
  <1>1. FrameStart => fr.pc = "outside" /\ fr'.pc = "walk"
    BY DEF FrameStart
  <1>2. VisitIdle => fr.pc = "walk" /\ fr'.pc = "walk"
    BY DEF VisitIdle, InList
  <1>3. NextList => fr.pc = "walk" /\ fr'.pc \in {"walk", "dispatch"}
    BY DEF NextList, Outside
  <1>4. Dispatch => fr.pc = "dispatch" /\ fr'.pc \in {"outside", "deal"}
    BY DEF Dispatch, Outside
  <1>5. Deal => fr.pc = "deal" /\ fr'.pc = "deal"
    BY DEF Deal
  <1>6. Await => fr.pc = "deal" /\ fr'.pc = "await"
    BY DEF Await, Outside
  <1>7. AwaitUnsignalled => fr.pc = "await" /\ fr'.pc = "failed"
    BY DEF AwaitUnsignalled
  <1> QED BY <1>1, <1>2, <1>3, <1>4, <1>5, <1>6, <1>7

(* Steps after which the walk is at the voice it was at, or at none.         *)
LEMMA LocksKept ==
    ASSUME LocksInv, UNCHANGED <<held, queue>>, fr'.cur = fr.cur \/ fr'.pc \notin AtVoice,
           fr'.pc \in AtVoice <=> fr.pc \in AtVoice
    PROVE  LocksInv'
  BY DEF LocksInv, Taken

(* Every step keeps LocksInv: the walk queues a voice before it has the spin *)
(* lock, so the last entry of the queue is excepted while it is at a voice;  *)
(* a spin lock cannot be taken twice, so no queued voice appears twice.      *)
LEMMA LocksInductive == ASSUME TypeInv, LocksInv, [Next]_vars PROVE LocksInv'
  <1> USE DEF AtVoice
  <1>0. queue \in Seq(Voices)
        /\ fr \in [pc : FramePcs, list : Lists, cur : Handles, nxt : Handles, n : Nat]
    BY DEF TypeInv, TypeOK, FrameTypes, WorkTypes
  <1>1. CASE CpuStep \/ AudioBroadcast
    BY <1>0, <1>1, CpuFrame, LocksKept DEF Wake, work
  <1>2. CASE VisitActive
    <2>1. queue' = Append(queue, fr.cur) /\ fr'.pc = "acquire" /\ fr'.cur = fr.cur
          /\ UNCHANGED held /\ fr.pc = "walk" /\ fr.cur \in Voices
      BY <1>0, <1>2 DEF VisitActive, InList, Handles
    <2>2. Len(queue') = Len(queue) + 1 /\ queue'[Len(queue) + 1] = fr.cur
          /\ \A i \in 1 .. Len(queue) : queue'[i] = queue[i]
      BY <1>0, <2>1
    <2> QED BY <1>0, <2>1, <2>2 DEF LocksInv, Taken
  <1>3. CASE AcquireTaken
    <2>1. UNCHANGED queue /\ fr'.pc = "walk" /\ fr.pc = "acquire" /\ held' = held \cup {fr.cur}
          /\ fr.cur \notin held
      BY <1>0, <1>3 DEF AcquireTaken, work
    <2> QED BY <1>0, <2>1 DEF LocksInv, Taken
  <1>4. CASE Finish
    <2>1. queue' = <<>> /\ fr'.pc = "outside"
      BY <1>4 DEF Finish, Outside
    <2> QED BY <2>1 DEF LocksInv, Taken
  <1>5. CASE FrameStart \/ VisitIdle \/ AcquireRefused \/ Stall \/ NextList \/ Dispatch
              \/ Deal \/ Await \/ AwaitUnsignalled
    <2>1. UNCHANGED <<held, queue>>
      BY <1>5 DEF FrameStart, VisitIdle, AcquireRefused, Stall, NextList, Dispatch, Deal,
         Await, AwaitUnsignalled, work
    <2>2. CASE AcquireRefused \/ Stall
      BY <1>0, <2>1, <2>2, LocksKept DEF AcquireRefused, Stall
    <2>3. CASE ~(AcquireRefused \/ Stall)
      <3>1. fr.pc \notin AtVoice /\ fr'.pc \notin AtVoice
        BY <1>0, <1>5, <2>3, FramePc
      <3> QED BY <2>1, <3>1, LocksKept
    <2> QED BY <2>2, <2>3
  <1>6. ASSUME NEW w \in Workers, WorkerStep(w) \/ WorkerUnsignalled(w)
        PROVE  LocksInv'
    <2>1. UNCHANGED <<held, queue>>
      BY <1>6 DEF WorkerStep, WorkerWoken, WorkerProcess, WorkerFinish, WorkerUnsignalled
    <2>2. UNCHANGED fr \/ (fr.pc = "await" /\ fr' = [fr EXCEPT !.pc = "finish"])
      BY <1>6 DEF WorkerStep, WorkerWoken, WorkerProcess, WorkerFinish, WorkerUnsignalled,
         WorkerDone
    <2> QED BY <1>0, <2>1, <2>2, LocksKept
  <1>7. CASE UNCHANGED vars
    BY <1>7, LocksKept DEF vars
  <1> QED BY <1>1, <1>2, <1>3, <1>4, <1>5, <1>6, <1>7, NextCases DEF FrameStep

-------------------------------------------------------------------------------
(* How much of the queue has been dealt to the workers in this frame.        *)
Dealt == IF fr.pc = "deal" THEN fr.n
         ELSE IF fr.pc \in {"await", "finish", "failed"} THEN Len(queue) ELSE 0

(* What is in the workers' queues was dealt, once, to a worker that is       *)
(* pending; what was dealt is there, or has been mixed, once.                *)
DealInv ==
    /\ \A w \in Workers : \A a \in 1 .. Len(wq[w]) :
           \E i \in 1 .. Dealt : wq[w][a] = queue[i]
    /\ \A w, x \in Workers : \A a \in 1 .. Len(wq[w]), b \in 1 .. Len(wq[x]) :
           wq[w][a] = wq[x][b] => w = x /\ a = b
    /\ \A w \in Workers : Len(wq[w]) > 0 => w \in pending
MixInv ==
    /\ \A v \in Voices : mixed[v] # 0 =>
           /\ mixed[v] = 1 /\ \E i \in 1 .. Dealt : queue[i] = v
           /\ \A w \in Workers : \A a \in 1 .. Len(wq[w]) : wq[w][a] # v
    /\ \A i \in 1 .. Dealt :
           \/ mixed[queue[i]] = 1
           \/ \E w \in Workers : \E a \in 1 .. Len(wq[w]) : wq[w][a] = queue[i]
PendingInv ==
    /\ \A w \in Workers : wpc[w] = "process" => w \in pending /\ fr.pc \in {"await", "failed"}
    /\ fr.pc = "finish" => pending = {}
    /\ fr.pc = "failed" => Unsignalled
WorkInv == DealInv /\ MixInv /\ PendingInv

(* Steps that touch no queue and no contribution.                            *)
LEMMA DealtKept ==
    ASSUME DealInv, MixInv, UNCHANGED <<queue, wq, pending, mixed>>, Dealt' = Dealt
    PROVE  DealInv' /\ MixInv'
  <1>1. DealInv'
    BY DEF DealInv
  <1>2. MixInv'
    BY DEF MixInv
  <1> QED BY <1>1, <1>2

(* Steps that change neither what was dealt nor what became of it.           *)
LEMMA WorkKept ==
    ASSUME WorkInv, UNCHANGED <<wq, pending, mixed>>, Dealt' = Dealt,
           \A i \in 1 .. Dealt : queue'[i] = queue[i],
           \A w \in Workers : wpc'[w] = "process" => wpc[w] = "process",
           fr.pc \notin {"await", "failed"}, fr'.pc \notin {"finish", "failed"}
    PROVE  WorkInv'
  <1>1. DealInv'
    BY DEF WorkInv, DealInv
  <1>2. MixInv'
    BY DEF WorkInv, MixInv
  <1>3. PendingInv'
    BY DEF WorkInv, PendingInv
  <1> QED BY <1>1, <1>2, <1>3 DEF WorkInv

(* One turn of voice_work_schedule's loop: the voice dealt was in no         *)
(* worker's queue, since the queue holds it only once.                       *)
LEMMA DealKeepsWork == ASSUME TypeInv, LocksInv, WorkInv, Deal PROVE WorkInv'
  <1> DEFINE v == queue[fr.n + 1]
             x == sched.worker
  <1>1. /\ fr.pc = "deal" /\ fr.n \in Nat /\ Len(queue) \in Nat /\ fr.n + 1 \in 1 .. Len(queue)
        /\ v \in Voices /\ x \in Workers /\ wq \in [Workers -> Seq(Voices)]
    BY DEF Deal, TypeInv, TypeOK, FrameTypes, WorkTypes
  <1>2. fr'.pc = "deal" /\ fr'.n = fr.n + 1 /\ UNCHANGED <<queue, mixed, wpc>>
        /\ wq' = [wq EXCEPT ![x] = Append(wq[x], v)] /\ pending' = pending \cup {x}
    BY <1>1 DEF Deal, TypeInv, TypeOK, FrameTypes
  <1>3. Dealt = fr.n /\ Dealt' = fr.n + 1
    BY <1>1, <1>2 DEF Dealt
  <1>4. /\ Len(wq'[x]) = Len(wq[x]) + 1 /\ wq'[x][Len(wq[x]) + 1] = v /\ Len(wq[x]) \in Nat
        /\ \A a \in 1 .. Len(wq[x]) : wq'[x][a] = wq[x][a]
        /\ \A w \in Workers : w # x => wq'[w] = wq[w]
    BY <1>1, <1>2
  <1>5. \A i \in 1 .. fr.n : queue[i] # v
    BY <1>1 DEF LocksInv, Taken, AtVoice
  <1> HIDE DEF v, x
  <1>6. \A w \in Workers : \A a \in 1 .. Len(wq[w]) : wq[w][a] # v
    BY <1>3, <1>5 DEF WorkInv, DealInv
  <1>7. mixed[v] = 0
    BY <1>1, <1>3, <1>5 DEF WorkInv, MixInv
  <1>8. queue'[fr.n + 1] = v
    BY <1>2 DEF v
  <1>9. ASSUME NEW w \in Workers, NEW a \in 1 .. Len(wq'[w])
        PROVE  \/ a \in 1 .. Len(wq[w]) /\ wq'[w][a] = wq[w][a]
               \/ w = x /\ a = Len(wq[w]) + 1 /\ wq'[w][a] = v
    BY <1>1, <1>4
  <1>10. ASSUME NEW w \in Workers, NEW a \in 1 .. Len(wq[w])
         PROVE  a \in 1 .. Len(wq'[w]) /\ wq'[w][a] = wq[w][a]
    <2>1. CASE w = x
      BY <1>4, <2>1
    <2>2. CASE w # x
      BY <1>4, <2>2
    <2> QED BY <2>1, <2>2
  <1>11. DealInv'
    <2>1. ASSUME NEW w \in Workers, NEW a \in 1 .. Len(wq'[w])
          PROVE  \E i \in 1 .. fr.n + 1 : wq'[w][a] = queue'[i]
      BY <1>1, <1>2, <1>3, <1>8, <1>9 DEF WorkInv, DealInv
    <2>2. ASSUME NEW w \in Workers, NEW y \in Workers, NEW a \in 1 .. Len(wq'[w]),
                 NEW b \in 1 .. Len(wq'[y]), wq'[w][a] = wq'[y][b]
          PROVE  w = y /\ a = b
      <3>1. CASE wq'[w][a] = v
        <4>1. w = x /\ a = Len(wq[x]) + 1
          BY <1>6, <1>9, <3>1
        <4>2. y = x /\ b = Len(wq[x]) + 1
          BY <1>6, <1>9, <2>2, <3>1
        <4> QED BY <4>1, <4>2
      <3>2. CASE wq'[w][a] # v
        <4>1. a \in 1 .. Len(wq[w]) /\ wq'[w][a] = wq[w][a]
          BY <1>9, <3>2
        <4>2. b \in 1 .. Len(wq[y]) /\ wq'[y][b] = wq[y][b]
          BY <1>9, <2>2, <3>2
        <4>3. wq[w][a] = wq[y][b]
          BY <2>2, <4>1, <4>2
        <4> QED BY <4>1, <4>2, <4>3 DEF WorkInv, DealInv
      <3> QED BY <3>1, <3>2
    <2>3. \A w \in Workers : Len(wq'[w]) > 0 => w \in pending'
      BY <1>2, <1>4 DEF WorkInv, DealInv
    <2> QED BY <1>3, <2>1, <2>2, <2>3 DEF DealInv
  <1>12. MixInv'
    <2>1. ASSUME NEW u \in Voices, mixed'[u] # 0
          PROVE  /\ mixed'[u] = 1 /\ \E i \in 1 .. fr.n + 1 : queue'[i] = u
                 /\ \A w \in Workers : \A a \in 1 .. Len(wq'[w]) : wq'[w][a] # u
      BY <1>1, <1>2, <1>3, <1>7, <1>9, <2>1 DEF WorkInv, MixInv
    <2>2. ASSUME NEW i \in 1 .. fr.n + 1
          PROVE  mixed'[queue'[i]] = 1
                 \/ \E w \in Workers : \E a \in 1 .. Len(wq'[w]) : wq'[w][a] = queue'[i]
      <3>1. CASE i \in 1 .. fr.n
        BY <1>2, <1>3, <1>10, <3>1 DEF WorkInv, MixInv
      <3>2. CASE i = fr.n + 1
        <4>1. Len(wq[x]) + 1 \in 1 .. Len(wq'[x])
          BY <1>4
        <4> QED BY <1>1, <1>4, <1>8, <3>2, <4>1
      <3> QED BY <1>1, <3>1, <3>2
    <2> QED BY <1>3, <2>1, <2>2 DEF MixInv
  <1>13. PendingInv'
    BY <1>1, <1>2 DEF WorkInv, PendingInv
  <1> QED BY <1>11, <1>12, <1>13 DEF WorkInv

(* A worker with nothing left to do takes itself off workers_pending, and    *)
(* the last one ends the wait.                                               *)
LEMMA WorkerDoneKeepsWork ==
    ASSUME TypeInv, WorkInv, NEW x \in Workers, WorkerDone(x), wq[x] = <<>>, fr.pc # "deal",
           UNCHANGED <<queue, wq, mixed>>
    PROVE  WorkInv'
  <1>1. \/ fr'.pc = fr.pc /\ fr'.n = fr.n
        \/ fr.pc = "await" /\ fr'.pc = "finish" /\ pending' = {}
    BY DEF WorkerDone, TypeInv, TypeOK, FrameTypes
  <1>2. Dealt' = Dealt
    BY <1>1 DEF Dealt
  <1>3. pending' = pending \ {x} /\ wpc'[x] = "wait"
        /\ \A w \in Workers : w # x => wpc'[w] = wpc[w]
    BY DEF WorkerDone, TypeInv, TypeOK, WorkTypes
  <1>4. Len(wq[x]) = 0
    OBVIOUS
  <1>5. DealInv'
    BY <1>2, <1>3, <1>4 DEF WorkInv, DealInv
  <1>6. MixInv'
    BY <1>2 DEF WorkInv, MixInv
  <1>7. PendingInv'
    BY <1>1, <1>3 DEF WorkInv, PendingInv
  <1> QED BY <1>5, <1>6, <1>7 DEF WorkInv

(* voice_process moves the first voice of a worker's queue into the mix: it  *)
(* was in no other place, and is mixed once.                                 *)
LEMMA ProcessKeepsWork ==
    ASSUME TypeInv, WorkInv, NEW x \in Workers, WorkerProcess(x) PROVE WorkInv'
  <1> DEFINE v == Head(wq[x])
  <1>1. /\ wq \in [Workers -> Seq(Voices)] /\ wq[x] # <<>> /\ mixed \in [Voices -> Nat]
        /\ UNCHANGED <<fr, queue, wpc, pending>> /\ mixed' = [mixed EXCEPT ![v] = @ + 1]
        /\ wq' = [wq EXCEPT ![x] = Tail(wq[x])]
    BY DEF WorkerProcess, TypeInv, TypeOK, WorkTypes
  <1>2. /\ Len(wq[x]) \in Nat \ {0} /\ v = wq[x][1] /\ v \in Voices
        /\ Len(wq'[x]) = Len(wq[x]) - 1
        /\ \A a \in 1 .. Len(wq[x]) - 1 : wq'[x][a] = wq[x][a + 1]
        /\ \A w \in Workers : w # x => wq'[w] = wq[w]
    BY <1>1
  <1> HIDE DEF v
  <1>3. Dealt' = Dealt /\ \A i \in 1 .. Dealt : queue'[i] = queue[i]
    BY <1>1 DEF Dealt
  <1>4. mixed[v] = 0 /\ mixed'[v] = 1 /\ \A u \in Voices : u # v => mixed'[u] = mixed[u]
    <2>1. 1 \in 1 .. Len(wq[x])
      BY <1>2
    <2>2. mixed[v] = 0
      BY <1>2, <2>1 DEF WorkInv, MixInv
    <2> QED BY <1>1, <1>2, <2>2
  <1>5. ASSUME NEW w \in Workers, NEW a \in 1 .. Len(wq'[w])
        PROVE  \E c \in 1 .. Len(wq[w]) :
                  /\ wq'[w][a] = wq[w][c]
                  /\ c = (IF w = x THEN a + 1 ELSE a)
                  /\ (w = x => c # 1)
    <2>1. CASE w = x
      BY <1>2, <2>1
    <2>2. CASE w # x
      BY <1>2, <2>2
    <2> QED BY <2>1, <2>2
  <1>6. ASSUME NEW w \in Workers, NEW c \in 1 .. Len(wq[w]), wq[w][c] # v
        PROVE  \E a \in 1 .. Len(wq'[w]) : wq'[w][a] = wq[w][c]
    <2>1. CASE w = x
      <3>1. c # 1 /\ c - 1 \in 1 .. Len(wq'[x])
        BY <1>2, <1>6, <2>1
      <3>2. (c - 1) + 1 = c /\ c - 1 \in 1 .. Len(wq[x]) - 1
        BY <1>2, <2>1, <3>1
      <3> QED BY <1>2, <2>1, <3>1, <3>2
    <2>2. CASE w # x
      BY <1>2, <2>2
    <2> QED BY <2>1, <2>2
  <1>7. DealInv'
    <2>1. ASSUME NEW w \in Workers, NEW a \in 1 .. Len(wq'[w])
          PROVE  \E i \in 1 .. Dealt : wq'[w][a] = queue'[i]
      BY <1>3, <1>5 DEF WorkInv, DealInv
    <2>2. ASSUME NEW w \in Workers, NEW y \in Workers, NEW a \in 1 .. Len(wq'[w]),
                 NEW b \in 1 .. Len(wq'[y]), wq'[w][a] = wq'[y][b]
          PROVE  w = y /\ a = b
      <3>1. PICK c \in 1 .. Len(wq[w]) :
                wq'[w][a] = wq[w][c] /\ c = (IF w = x THEN a + 1 ELSE a)
        BY <1>5
      <3>2. PICK d \in 1 .. Len(wq[y]) :
                wq'[y][b] = wq[y][d] /\ d = (IF y = x THEN b + 1 ELSE b)
        BY <1>5
      <3>3. wq[w][c] = wq[y][d]
        BY <2>2, <3>1, <3>2
      <3>4. w = y /\ c = d
        BY <3>3 DEF WorkInv, DealInv
      <3>5. a \in Int /\ b \in Int
        OBVIOUS
      <3> QED BY <3>1, <3>2, <3>4, <3>5
    <2>3. \A w \in Workers : Len(wq'[w]) > 0 => w \in pending'
      BY <1>1, <1>2 DEF WorkInv, DealInv
    <2> QED BY <1>3, <2>1, <2>2, <2>3 DEF DealInv
  <1>8. MixInv'
    <2>1. ASSUME NEW u \in Voices, mixed'[u] # 0
          PROVE  /\ mixed'[u] = 1 /\ \E i \in 1 .. Dealt : queue'[i] = u
                 /\ \A w \in Workers : \A a \in 1 .. Len(wq'[w]) : wq'[w][a] # u
      <3>1. CASE u = v
        <4>1. 1 \in 1 .. Len(wq[x])
          BY <1>2
        <4>2. \E i \in 1 .. Dealt : queue'[i] = v
          BY <1>2, <1>3, <4>1 DEF WorkInv, DealInv
        <4>3. ASSUME NEW w \in Workers, NEW a \in 1 .. Len(wq'[w])
              PROVE  wq'[w][a] # v
          <5>1. PICK c \in 1 .. Len(wq[w]) : wq'[w][a] = wq[w][c] /\ (w = x => c # 1)
            BY <1>5
          <5> QED BY <1>2, <4>1, <5>1 DEF WorkInv, DealInv
        <4> QED BY <1>4, <3>1, <4>2, <4>3
      <3>2. CASE u # v
        <4>1. mixed[u] # 0
          BY <1>4, <2>1, <3>2
        <4>2. mixed'[u] = 1 /\ \E i \in 1 .. Dealt : queue'[i] = u
          BY <1>3, <1>4, <3>2, <4>1 DEF WorkInv, MixInv
        <4>3. \A w \in Workers : \A a \in 1 .. Len(wq[w]) : wq[w][a] # u
          BY <4>1 DEF WorkInv, MixInv
        <4>4. ASSUME NEW w \in Workers, NEW a \in 1 .. Len(wq'[w])
              PROVE  wq'[w][a] # u
          BY <1>5, <4>3
        <4> QED BY <4>2, <4>4
      <3> QED BY <3>1, <3>2
    <2>2. ASSUME NEW i \in 1 .. Dealt
          PROVE  mixed'[queue'[i]] = 1
                 \/ \E w \in Workers : \E a \in 1 .. Len(wq'[w]) : wq'[w][a] = queue'[i]
      <3>1. CASE queue[i] = v
        BY <1>3, <1>4, <3>1
      <3>2. CASE queue[i] # v
        <4>1. CASE mixed[queue[i]] = 1
          <5>1. queue[i] \in Voices
            BY DEF Dealt, TypeInv, TypeOK, FrameTypes, WorkTypes
          <5> QED BY <1>3, <1>4, <3>2, <4>1, <5>1
        <4>2. CASE \E w \in Workers : \E a \in 1 .. Len(wq[w]) : wq[w][a] = queue[i]
          BY <1>3, <1>6, <3>2, <4>2
        <4> QED BY <4>1, <4>2 DEF WorkInv, MixInv
      <3> QED BY <3>1, <3>2
    <2> QED BY <1>3, <2>1, <2>2 DEF MixInv
  <1>9. PendingInv'
    BY <1>1 DEF WorkInv, PendingInv
  <1> QED BY <1>7, <1>8, <1>9 DEF WorkInv

(* Every step keeps WorkInv.  A worker woken without a signal finds its      *)
(* queue empty unless the frame thread waits for it.                         *)
LEMMA WorkInductive == ASSUME TypeInv, LocksInv, WorkInv, [Next]_vars PROVE WorkInv'
  <1> USE DEF AtVoice
  <1>0. queue \in Seq(Voices)
        /\ fr \in [pc : FramePcs, list : Lists, cur : Handles, nxt : Handles, n : Nat]
    BY DEF TypeInv, TypeOK, FrameTypes, WorkTypes
  <1>1. CASE UNCHANGED <<queue, wpc, wq, pending, mixed, fr>>
    <2>1. Dealt' = Dealt
      BY <1>1 DEF Dealt
    <2>2. DealInv' /\ MixInv'
      BY <1>1, <2>1, DealtKept DEF WorkInv
    <2>3. PendingInv'
      BY <1>1 DEF WorkInv, PendingInv
    <2> QED BY <2>2, <2>3 DEF WorkInv
  <1>2. ASSUME UNCHANGED <<wpc, wq, pending, mixed>>,
               fr.pc \notin {"deal", "await", "finish", "failed"},
               fr'.pc \notin {"deal", "await", "finish", "failed"}
        PROVE  WorkInv'
    <2>1. Dealt = 0 /\ Dealt' = 0
      BY <1>2 DEF Dealt
    <2> QED BY <1>2, <2>1, WorkKept
  <1>3. CASE CpuStep \/ AudioBroadcast
    <2>1. CASE UNCHANGED fr
      BY <1>1, <1>3, <2>1, CpuFrame DEF work
    <2>2. CASE Wake /\ fr.pc = "stalled"
      <3>1. fr'.pc = "acquire"
        BY <1>0, <2>2 DEF Wake
      <3> QED BY <1>2, <1>3, <2>2, <3>1, CpuFrame DEF work
    <2> QED BY <1>3, <2>1, <2>2, CpuFrame DEF Wake
  <1>4. CASE VisitActive \/ AcquireTaken \/ AcquireRefused \/ Stall
    <2>1. fr.pc \in {"walk"} \cup AtVoice /\ fr'.pc \in {"walk"} \cup AtVoice
      BY <1>0, <1>4 DEF VisitActive, AcquireTaken, AcquireRefused, Stall, InList
    <2> QED BY <1>2, <1>4, <2>1 DEF VisitActive, AcquireTaken, AcquireRefused, Stall, work
  <1>5. CASE FrameStart \/ VisitIdle \/ NextList
    <2>1. UNCHANGED <<wpc, wq, pending, mixed>>
      BY <1>5 DEF FrameStart, VisitIdle, NextList, work
    <2> QED BY <1>2, <1>5, <2>1, FramePc
  <1>6. CASE Dispatch
    <2>1. fr.pc = "dispatch" /\ fr'.pc \in {"outside", "deal"} /\ UNCHANGED work
      BY <1>6, FramePc DEF Dispatch
    <2>2. fr'.pc = "deal" => fr'.n = fr.n
      BY <1>0, <1>6 DEF Dispatch, Outside
    <2>3. Dealt = 0 /\ Dealt' = 0
      BY <2>1, <2>2 DEF Dealt, TypeInv, FromFirst
    <2> QED BY <2>1, <2>3, WorkKept DEF work
  <1>7. CASE Await
    <2>1. fr.pc = "deal" /\ fr'.pc = "await" /\ UNCHANGED <<queue, wq, pending, mixed>>
          /\ fr.n = Len(queue)
      BY <1>7, FramePc DEF Await
    <2>2. Dealt' = Dealt
      BY <2>1 DEF Dealt
    <2>3. \A w \in Workers : wpc'[w] = "process" => wpc[w] = "process"
      BY <1>7 DEF Await
    <2> QED BY <2>1, <2>2, <2>3, WorkKept
  <1>8. CASE Finish
    <2>1. fr.pc = "finish" /\ fr'.pc = "outside" /\ pending = {}
          /\ UNCHANGED <<wpc, wq, pending>> /\ mixed' = [v \in Voices |-> 0]
      BY <1>8 DEF Finish, Outside
    <2>2. Dealt' = 0 /\ wq \in [Workers -> Seq(Voices)]
      BY <2>1 DEF Dealt, TypeInv, TypeOK, WorkTypes
    <2>3. \A w \in Workers : Len(wq[w]) = 0
      BY <2>1, <2>2 DEF WorkInv, DealInv
    <2>4. DealInv'
      BY <2>1, <2>3 DEF DealInv
    <2>5. MixInv' /\ PendingInv'
      BY <2>1, <2>2 DEF MixInv, PendingInv, WorkInv
    <2> QED BY <2>4, <2>5 DEF WorkInv
  <1>9. ASSUME NEW w \in Workers, WorkerWoken(w)
        PROVE  WorkInv'
    <2>1. CASE wq[w] = <<>>
      BY <1>9, <2>1, WorkerDoneKeepsWork DEF WorkerWoken
    <2>2. CASE wq[w] # <<>>
      <3>1. wpc' = [wpc EXCEPT ![w] = "process"] /\ UNCHANGED <<pending, fr, queue, wq, mixed>>
            /\ fr.pc # "deal" /\ wpc \in [Workers -> {"wait", "woken", "process"}]
        BY <1>9, <2>2 DEF WorkerWoken, TypeInv, TypeOK, WorkTypes
      <3>2. Len(wq[w]) > 0
        BY <2>2 DEF TypeInv, TypeOK, WorkTypes
      <3>3. w \in pending
        BY <3>2 DEF WorkInv, DealInv
      <3>4. Dealt # 0 /\ Dealt' = Dealt
        BY <3>1, <3>2 DEF WorkInv, DealInv, Dealt
      <3>5. fr.pc \in {"await", "failed"}
        BY <3>1, <3>3, <3>4 DEF Dealt, WorkInv, PendingInv
      <3>6. DealInv' /\ MixInv'
        BY <3>1, <3>4, DealtKept DEF WorkInv
      <3>8. PendingInv'
        <4>1. ASSUME NEW u \in Workers, wpc'[u] = "process"
              PROVE  u \in pending' /\ fr'.pc \in {"await", "failed"}
          BY <3>1, <3>3, <3>5, <4>1 DEF WorkInv, PendingInv
        <4> QED BY <3>1, <3>5, <4>1 DEF WorkInv, PendingInv
      <3> QED BY <3>6, <3>8 DEF WorkInv
    <2> QED BY <2>1, <2>2
  <1>10. ASSUME NEW w \in Workers, WorkerFinish(w)
         PROVE  WorkInv'
    BY <1>10, WorkerDoneKeepsWork DEF WorkerFinish
  <1>11. ASSUME NEW w \in Workers, WorkerUnsignalled(w)
         PROVE  WorkInv'
    <2>1. UNCHANGED <<fr, queue, wq, pending, mixed>>
      BY <1>11 DEF WorkerUnsignalled
    <2>2. Dealt' = Dealt
      BY <2>1 DEF Dealt
    <2>3. DealInv'
      BY <2>1, <2>2 DEF WorkInv, DealInv
    <2>4. MixInv'
      BY <2>1, <2>2 DEF WorkInv, MixInv
    <2>5. PendingInv'
      BY <1>11, <2>1 DEF WorkerUnsignalled, WorkInv, PendingInv, TypeInv, TypeOK, WorkTypes
    <2> QED BY <2>3, <2>4, <2>5 DEF WorkInv
  <1>12. CASE UNCHANGED vars
    BY <1>1, <1>12 DEF vars
  <1>13. CASE AwaitUnsignalled
    <2>1. fr.pc = "await" /\ fr'.pc = "failed" /\ Unsignalled
          /\ UNCHANGED <<queue, wpc, wq, pending, mixed>>
      BY <1>13, FramePc DEF AwaitUnsignalled, work
    <2>2. Dealt' = Dealt
      BY <2>1 DEF Dealt
    <2>3. DealInv' /\ MixInv'
      BY <2>1, <2>2, DealtKept DEF WorkInv
    <2>4. PendingInv'
      BY <2>1 DEF WorkInv, PendingInv
    <2> QED BY <2>3, <2>4 DEF WorkInv
  <1> QED BY <1>3, <1>4, <1>5, <1>6, <1>7, <1>8, <1>9, <1>10, <1>11, <1>12, <1>13,
             DealKeepsWork, ProcessKeepsWork, NextCases DEF FrameStep, WorkerStep

-------------------------------------------------------------------------------
(* Along the dealing: while the multipass bin is dirty, every source that    *)
(* no multipass voice has followed yet is in the queue of the worker that    *)
(* the next voice goes to.                                                   *)
OpenSource(i, n) ==
    Role[queue[i]] = "source" /\ \A k \in i .. n : Role[queue[k]] # "multi"
MultiInv ==
    /\ sched.group = sched.dirty
    /\ fr.pc = "deal" => \A i \in 1 .. fr.n : OpenSource(i, fr.n) =>
           sched.group /\ \E a \in 1 .. Len(wq[sched.worker]) : wq[sched.worker][a] = queue[i]
    /\ MultipassTogether

(* One turn of voice_work_schedule's loop: a voice that leaves the bin dirty *)
(* is followed by one for the same worker, so a multipass voice is put       *)
(* behind every source it consumes.                                          *)
LEMMA DealKeepsMulti == ASSUME TypeInv, MultiInv, Deal PROVE MultiInv'
  <1> DEFINE v == queue[fr.n + 1]
             x == sched.worker
             multi == Role[v] = "multi"
             source == Role[v] = "source"
             group == (sched.group \/ (source /\ ~sched.dirty)) /\ ~multi
  <1>1. /\ fr.pc = "deal" /\ fr.n \in Nat /\ Len(queue) \in Nat /\ fr.n + 1 \in 1 .. Len(queue)
        /\ v \in Voices /\ x \in Workers /\ wq \in [Workers -> Seq(Voices)]
        /\ sched.group \in BOOLEAN /\ sched.dirty \in BOOLEAN
    BY DEF Deal, TypeInv, TypeOK, FrameTypes, WorkTypes
  <1>2. fr'.pc = "deal" /\ fr'.n = fr.n + 1 /\ UNCHANGED queue
        /\ wq' = [wq EXCEPT ![x] = Append(wq[x], v)]
    BY <1>1 DEF Deal, TypeInv, TypeOK, FrameTypes
  <1>3. /\ sched'.group = group /\ sched'.dirty = ((sched.dirty /\ ~multi) \/ source)
        /\ group => sched'.worker = x
    BY DEF Deal, SchedStep
  <1>4. /\ Len(wq'[x]) = Len(wq[x]) + 1 /\ wq'[x][Len(wq[x]) + 1] = v /\ Len(wq[x]) \in Nat
        /\ \A a \in 1 .. Len(wq[x]) : wq'[x][a] = wq[x][a]
        /\ \A w \in Workers : w # x => wq'[w] = wq[w]
    BY <1>1, <1>2
  <1>5. ~(source /\ multi)
    OBVIOUS
  <1>6. queue'[fr.n + 1] = v /\ \A i \in 1 .. fr.n : queue'[i] = queue[i]
    BY <1>2
  <1>7. sched'.group = sched'.dirty
    BY <1>1, <1>3, <1>5 DEF MultiInv
  <1> HIDE DEF v, x, multi, source, group
  <1>8. ASSUME NEW i \in 1 .. fr.n + 1, OpenSource(i, fr.n)'
        PROVE  sched'.group
               /\ \E a \in 1 .. Len(wq'[sched'.worker]) : wq'[sched'.worker][a] = queue'[i]
    <2>1. Role[queue'[i]] = "source" /\ \A k \in i .. fr.n + 1 : Role[queue'[k]] # "multi"
      BY <1>2, <1>8 DEF OpenSource
    <2>2. ~multi
      BY <1>1, <1>6, <2>1 DEF multi
    <2>3. CASE i \in 1 .. fr.n
      <3>1. OpenSource(i, fr.n)
        <4>1. \A k \in i .. fr.n : k \in i .. fr.n + 1 /\ k \in 1 .. fr.n
          BY <1>1, <2>3
        <4> QED BY <1>6, <2>1, <2>3, <4>1 DEF OpenSource
      <3>2. PICK a \in 1 .. Len(wq[x]) : wq[x][a] = queue[i]
        BY <1>1, <2>3, <3>1 DEF MultiInv, x
      <3>3. sched.group
        BY <1>1, <2>3, <3>1 DEF MultiInv
      <3>4. group
        BY <2>2, <3>3 DEF group
      <3>5. a \in 1 .. Len(wq'[x]) /\ wq'[x][a] = queue'[i]
        BY <1>4, <1>6, <2>3, <3>2
      <3> QED BY <1>3, <3>4, <3>5
    <2>4. CASE i = fr.n + 1
      <3>1. source
        BY <1>6, <2>1, <2>4 DEF source
      <3>2. group
        BY <1>1, <2>2, <3>1 DEF group, MultiInv
      <3>3. Len(wq[x]) + 1 \in 1 .. Len(wq'[x])
        BY <1>4
      <3> QED BY <1>3, <1>4, <1>6, <2>4, <3>2, <3>3
    <2> QED BY <1>1, <2>3, <2>4
  <1>9. ASSUME NEW i \in 1 .. fr.n + 1, NEW j \in 1 .. fr.n + 1, i < j,
               Role[queue'[i]] = "source", Role[queue'[j]] = "multi",
               \A k \in i .. j - 1 : Role[queue'[k]] # "multi"
        PROVE  \E w \in Workers : \E a, b \in 1 .. Len(wq'[w]) :
                   a < b /\ wq'[w][a] = queue'[i] /\ wq'[w][b] = queue'[j]
    <2>1. i \in 1 .. fr.n /\ \A k \in i .. j - 1 : k \in 1 .. fr.n
      BY <1>1, <1>9
    <2>2. CASE j \in 1 .. fr.n
      <3>1. Role[queue[i]] = "source" /\ Role[queue[j]] = "multi"
            /\ \A k \in i .. j - 1 : Role[queue[k]] # "multi"
        BY <1>6, <1>9, <2>1, <2>2
      <3>2. PICK w \in Workers : \E a, b \in DOMAIN wq[w] :
                a < b /\ wq[w][a] = queue[i] /\ wq[w][b] = queue[j]
        BY <1>1, <1>9, <2>1, <2>2, <3>1 DEF MultiInv, MultipassTogether
      <3>3. PICK a, b \in DOMAIN wq[w] : a < b /\ wq[w][a] = queue[i] /\ wq[w][b] = queue[j]
        BY <3>2
      <3>4. DOMAIN wq[w] = 1 .. Len(wq[w])
        BY <1>1
      <3>5. \A c \in 1 .. Len(wq[w]) : c \in 1 .. Len(wq'[w]) /\ wq'[w][c] = wq[w][c]
        <4>1. CASE w = x
          BY <1>4, <4>1
        <4>2. CASE w # x
          BY <1>4, <4>2
        <4> QED BY <4>1, <4>2
      <3> QED BY <1>6, <2>1, <2>2, <3>3, <3>4, <3>5
    <2>3. CASE j = fr.n + 1
      <3>1. OpenSource(i, fr.n)
        <4>1. i .. j - 1 = i .. fr.n
          BY <1>1, <2>3
        <4> QED BY <1>6, <1>9, <2>1, <4>1 DEF OpenSource
      <3>2. PICK a \in 1 .. Len(wq[x]) : wq[x][a] = queue[i]
        BY <1>1, <2>1, <3>1 DEF MultiInv, x
      <3>3. a \in 1 .. Len(wq'[x]) /\ wq'[x][a] = queue'[i] /\ a < Len(wq[x]) + 1
        <4>1. a \in 1 .. Len(wq'[x]) /\ a < Len(wq[x]) + 1
          BY <1>4, <3>2
        <4> QED BY <1>4, <1>6, <2>1, <3>2, <4>1
      <3>4. Len(wq[x]) + 1 \in 1 .. Len(wq'[x])
        BY <1>4
      <3>5. PICK b \in 1 .. Len(wq'[x]) : a < b /\ wq'[x][b] = queue'[j]
        BY <1>4, <1>6, <2>3, <3>3, <3>4
      <3> QED BY <1>1, <3>3, <3>5
    <2> QED BY <1>1, <2>2, <2>3
  <1>10. \A w \in Workers : DOMAIN wq'[w] = 1 .. Len(wq'[w])
    BY <1>1, <1>2
  <1>11. MultipassTogether'
    BY <1>2, <1>9, <1>10 DEF MultipassTogether
  <1> QED BY <1>2, <1>7, <1>8, <1>11 DEF MultiInv

(* Every other step keeps MultiInv: while voices are dealt under vwd->lock   *)
(* no worker touches a queue.                                                *)
LEMMA MultiInductive == ASSUME TypeInv, WorkInv, MultiInv, [Next]_vars PROVE MultiInv'
  <1> USE DEF AtVoice
  <1>1. ASSUME UNCHANGED sched, fr'.pc # "deal"
        PROVE  MultiInv'
    BY <1>1 DEF MultiInv, MultipassTogether
  <1>2. ASSUME UNCHANGED <<sched, fr, queue, wq>>
        PROVE  MultiInv'
    BY <1>2 DEF MultiInv, MultipassTogether, OpenSource
  <1>3. fr \in [pc : FramePcs, list : Lists, cur : Handles, nxt : Handles, n : Nat]
    BY DEF TypeInv, TypeOK, FrameTypes, WorkTypes
  <1>4. CASE CpuStep \/ AudioBroadcast
    <2>1. CASE UNCHANGED fr
      BY <1>2, <1>4, <2>1, CpuFrame DEF work
    <2>2. CASE Wake /\ fr.pc = "stalled"
      BY <1>1, <1>3, <1>4, <2>2, CpuFrame DEF Wake, work
    <2> QED BY <1>4, <2>1, <2>2, CpuFrame DEF Wake
  <1>5. CASE VisitActive \/ AcquireTaken \/ AcquireRefused \/ Stall
    BY <1>1, <1>3, <1>5 DEF VisitActive, AcquireTaken, AcquireRefused, Stall, work
  <1>6. CASE FrameStart \/ VisitIdle \/ NextList
    <2>1. UNCHANGED sched
      BY <1>6 DEF FrameStart, VisitIdle, NextList, work
    <2> QED BY <1>1, <1>6, <2>1, FramePc
  <1>7. CASE Dispatch
    <2>1. fr'.pc = "deal" => fr'.n = 0
      BY <1>3, <1>7 DEF Dispatch, Outside, TypeInv, FromFirst
    <2>2. UNCHANGED sched
      BY <1>7 DEF Dispatch, work
    <2> QED BY <2>1, <2>2 DEF MultiInv, MultipassTogether
  <1>8. CASE Await
    <2>1. fr'.pc = "await" /\ sched'.group = sched'.dirty
      BY <1>8, FramePc DEF Await, SchedStart
    <2> QED BY <2>1 DEF MultiInv, MultipassTogether
  <1>9. CASE Finish
    BY <1>1, <1>9 DEF Finish, Outside
  <1>10. ASSUME NEW w \in Workers, WorkerProcess(w)
         PROVE  MultiInv'
    <2>1. fr.pc \in {"await", "failed"} /\ UNCHANGED <<fr, sched>>
      BY <1>10 DEF WorkerProcess, WorkInv, PendingInv
    <2> QED BY <1>1, <2>1
  <1>11. ASSUME NEW w \in Workers, WorkerDone(w), UNCHANGED <<queue, sched, wq>>
         PROVE  MultiInv'
    <2>1. UNCHANGED fr \/ fr'.pc = "finish"
      BY <1>3, <1>11 DEF WorkerDone
    <2> QED BY <1>1, <1>2, <1>11, <2>1
  <1>12. ASSUME NEW w \in Workers, WorkerStep(w) \/ WorkerUnsignalled(w)
         PROVE  MultiInv'
    BY <1>2, <1>10, <1>11, <1>12 DEF WorkerStep, WorkerWoken, WorkerFinish, WorkerUnsignalled
  <1>13. CASE UNCHANGED vars
    BY <1>2, <1>13 DEF vars
  <1>14. CASE AwaitUnsignalled
    BY <1>1, <1>14, FramePc DEF AwaitUnsignalled, work
  <1> QED BY <1>4, <1>5, <1>6, <1>7, <1>8, <1>9, <1>12, <1>13, <1>14,
             DealKeepsMulti, NextCases DEF FrameStep

-------------------------------------------------------------------------------
(* The inductive invariant.                                                  *)
IInv == TypeInv /\ GuestInv /\ LocksInv /\ WorkInv /\ MultiInv

(* The inductive invariant holds in every reachable state.                   *)
THEOREM Invariance == Spec => []IInv
  <1>1. Init => IInv
    <2> SUFFICES ASSUME Init PROVE IInv
      OBVIOUS
    <2>1. TypeInv
      BY TypesInductive
    <2>2. GuestInv
      BY DEF Init, GuestInv, Idle
    <2>3. fr.pc = "outside" /\ queue = <<>> /\ Dealt = 0
      BY DEF Init, Outside, Dealt
    <2>4. LocksInv
      BY <2>3 DEF LocksInv, Taken, AtVoice
    <2>5. WorkInv
      BY <2>3 DEF Init, WorkInv, DealInv, MixInv, PendingInv
    <2>6. MultiInv
      BY <2>3 DEF Init, MultiInv, MultipassTogether, SchedStart
    <2> QED BY <2>1, <2>2, <2>4, <2>5, <2>6 DEF IInv
  <1>2. IInv /\ [Next]_vars => IInv'
    BY TypesInductive, GuestInductive, LocksInductive, WorkInductive, MultiInductive DEF IInv
  <1> QED BY <1>1, <1>2, PTL DEF Spec

(* VoiceExclusive: a voice in a worker's queue has its spin lock held by the *)
(* frame thread, so the guest neither has it locked nor is in the middle of  *)
(* VOICE_ON or VOICE_RELEASE on it                                           *)
(* (voice_work_acquire_voice_lock_for_processing against voice_lock).        *)
THEOREM Exclusion == Spec => []VoiceExclusive
  <1>1. ASSUME IInv
        PROVE  VoiceExclusive
    <2>1. ASSUME NEW w \in Workers, NEW v \in Range(wq[w])
          PROVE  v \in held
      <3>1. wq[w] \in Seq(Voices) /\ queue \in Seq(Voices)
        BY <1>1 DEF IInv, TypeInv, TypeOK, WorkTypes
      <3>2. PICK a \in 1 .. Len(wq[w]) : wq[w][a] = v
        BY <2>1, <3>1 DEF Range
      <3>3. PICK i \in 1 .. Dealt : queue[i] = v
        BY <1>1, <3>2 DEF IInv, WorkInv, DealInv
      <3>4. i \in 1 .. Taken
        BY <1>1, <3>1, <3>3 DEF IInv, TypeInv, TypeOK, FrameTypes, Dealt, Taken, AtVoice
      <3> QED BY <1>1, <3>3, <3>4 DEF IInv, LocksInv
    <2> QED BY <1>1, <2>1 DEF IInv, GuestInv, VoiceExclusive
  <1> QED BY <1>1, Invariance, PTL

(* MixComplete: as long as voice_work_dispatch's one wait for work_finished  *)
(* does not return unsignalled, no worker is pending when it does (its       *)
(* assertion) and the frame's voices, and only they, have been mixed, each   *)
(* once, whatever wakes the workers.                                         *)
THEOREM Mixing ==
    ASSUME ~Unsignalled
    PROVE  Spec => []MixComplete
  <1>1. ASSUME IInv, fr.pc = "finish"
        PROVE  /\ pending = {}
               /\ \A v \in Voices : mixed[v] = IF v \in Range(queue) THEN 1 ELSE 0
    <2>1. pending = {} /\ Dealt = Len(queue)
      BY <1>1 DEF IInv, WorkInv, PendingInv, Dealt
    <2>2. queue \in Seq(Voices) /\ wq \in [Workers -> Seq(Voices)]
      BY <1>1 DEF IInv, TypeInv, TypeOK, WorkTypes
    <2>3. \A w \in Workers : Len(wq[w]) = 0
      BY <1>1, <2>1, <2>2 DEF IInv, WorkInv, DealInv
    <2>4. \A i \in 1 .. Len(queue) : mixed[queue[i]] = 1
      BY <1>1, <2>1, <2>3 DEF IInv, WorkInv, MixInv
    <2>5. \A v \in Voices : mixed[v] # 0 => \E i \in 1 .. Len(queue) : queue[i] = v
      BY <1>1, <2>1 DEF IInv, WorkInv, MixInv
    <2>6. \A v : v \in Range(queue) <=> \E i \in 1 .. Len(queue) : queue[i] = v
      BY <2>2 DEF Range
    <2> QED BY <2>1, <2>4, <2>5, <2>6
  <1>2. IInv => fr.pc # "failed"
    BY DEF IInv, WorkInv, PendingInv
  <1>3. IInv => MixComplete
    BY <1>1, <1>2 DEF MixComplete
  <1> QED BY <1>3, Invariance, PTL

(* MultipassTogether: voice_work_schedule puts a multipass voice behind all  *)
(* the sources of its bin, in the queue of the same worker.                  *)
THEOREM Together == Spec => []MultipassTogether
  <1>1. IInv => MultipassTogether
    BY DEF IInv, MultiInv
  <1> QED BY <1>1, Invariance, PTL

-------------------------------------------------------------------------------
(* The lists as sequences.  What the tops and links spell out from           *)
(* voice_list_regs on: s is one sequence of voices for each list, and no     *)
(* voice has two places in them.                                             *)
VoiceAt(q, i) == IF i <= Len(q) THEN q[i] ELSE NoVoice
Once(s) ==
    \A l, k \in Lists : \A i \in 1 .. Len(s[l]), j \in 1 .. Len(s[k]) :
        s[l][i] = s[k][j] => l = k /\ i = j
Spells(s, t, lk) ==
    /\ s \in [Lists -> Seq(Voices)] /\ Once(s)
    /\ \A l \in Lists : t[l] = VoiceAt(s[l], 1)
    /\ \A l \in Lists : \A i \in 1 .. Len(s[l]) : lk[s[l][i]] = VoiceAt(s[l], i + 1)

(* The order in which a walk along all the lists meets the voices, and that  *)
(* it meets the plain ones first.                                            *)
Comes(l, i, k, j) == l < k \/ (l = k /\ i < j)
Sorted(s) ==
    \A l, k \in Lists : \A i \in 1 .. Len(s[l]), j \in 1 .. Len(s[k]) :
        Comes(l, i, k, j) /\ Role[s[k][j]] = "plain" => Role[s[l][i]] = "plain"
On(s, v) == \E l \in Lists : \E i \in 1 .. Len(s[l]) : s[l][i] = v

(* A sequence without repetition is not longer than there are voices.        *)
LEMMA Room ==
    ASSUME NEW q \in Seq(Voices), \A i, j \in 1 .. Len(q) : q[i] = q[j] => i = j
    PROVE  Len(q) <= MaxVoices
  <1> SUFFICES ASSUME ~(Len(q) <= MaxVoices) PROVE FALSE
    OBVIOUS
  <1>1. MaxVoices \in Nat /\ Len(q) \in Nat
    BY MaxVoicesType
  <1>2. IsFiniteSet(1 .. Len(q)) /\ Cardinality(1 .. Len(q)) = Len(q)
    <2>1. 1 \in Int /\ Len(q) \in Int
      BY <1>1
    <2>2. IsFiniteSet(1 .. Len(q))
          /\ Cardinality(1 .. Len(q)) = IF 1 > Len(q) THEN 0 ELSE Len(q) - 1 + 1
      BY <2>1, FS_Interval
    <2> QED BY <1>1, <2>2
  <1>3. Cardinality(Voices) < Cardinality(1 .. Len(q))
    BY <1>1, <1>2 DEF MaxVoices
  <1>4. q \in [1 .. Len(q) -> Voices]
    OBVIOUS
  <1>5. \E x, y \in 1 .. Len(q) : x # y /\ q[x] = q[y]
    BY <1>2, <1>3, <1>4, FS_PigeonHole
  <1> QED BY <1>5

(* Path follows the list: its recursion is met by the sequence, which is the *)
(* only function that does.                                                  *)
LEMMA PathSpells ==
    ASSUME NEW s, NEW t, NEW lk, Spells(s, t, lk), NEW l \in Lists
    PROVE  \A i \in 1 .. MaxVoices + 1 : Path(t, lk, l)[i] = VoiceAt(s[l], i)
  <1>0. MaxVoices \in Nat /\ s[l] \in Seq(Voices) /\ Len(s[l]) \in Nat
    BY MaxVoicesType DEF Spells
  <1> DEFINE D == 1 .. MaxVoices + 1
             Eq(p) == p = [i \in D |-> IF i = 1 THEN t[l]
                                       ELSE IF p[i - 1] = NoVoice THEN NoVoice ELSE lk[p[i - 1]]]
             f == [i \in D |-> VoiceAt(s[l], i)]
             P == Path(t, lk, l)
  <1>1. Eq(f)
    <2>1. ASSUME NEW i \in D
          PROVE  VoiceAt(s[l], i) = IF i = 1 THEN t[l]
                     ELSE IF f[i - 1] = NoVoice THEN NoVoice ELSE lk[f[i - 1]]
      <3>1. CASE i = 1
        BY <3>1 DEF Spells
      <3>2. CASE i # 1
        <4>1. i - 1 \in D /\ i - 1 \in Nat \ {0} /\ (i - 1) + 1 = i
          BY <1>0, <3>2
        <4>2. f[i - 1] = VoiceAt(s[l], i - 1)
          BY <4>1
        <4>3. CASE i - 1 <= Len(s[l])
          <5>1. i - 1 \in 1 .. Len(s[l])
            BY <1>0, <4>1, <4>3
          <5>2. f[i - 1] = s[l][i - 1] /\ s[l][i - 1] \in Voices
            BY <1>0, <4>2, <4>3, <5>1 DEF VoiceAt
          <5>3. lk[s[l][i - 1]] = VoiceAt(s[l], i)
            BY <4>1, <5>1 DEF Spells
          <5> QED BY <3>2, <5>2, <5>3
        <4>4. CASE ~(i - 1 <= Len(s[l]))
          <5>1. f[i - 1] = NoVoice /\ VoiceAt(s[l], i) = NoVoice
            BY <1>0, <4>1, <4>2, <4>4 DEF VoiceAt
          <5> QED BY <3>2, <5>1
        <4> QED BY <4>3, <4>4
      <3> QED BY <3>1, <3>2
    <2> HIDE DEF D
    <2> QED BY <2>1
  <1>2. Eq(P)
    <2> HIDE DEF f
    <2> QED BY <1>1, Zenon DEF Path
  <1> HIDE DEF P
  <1> DEFINE S == {n \in Nat : n + 1 \in D => P[n + 1] = VoiceAt(s[l], n + 1)}
  <1>3. 0 \in S
    <2>1. 1 \in D
      BY <1>0
    <2>2. P[1] = t[l]
      BY <1>2, <2>1
    <2> QED BY <2>2 DEF Spells
  <1>4. ASSUME NEW n \in Nat, n \in S
        PROVE  n + 1 \in S
    <2> SUFFICES ASSUME (n + 1) + 1 \in D PROVE P[(n + 1) + 1] = VoiceAt(s[l], (n + 1) + 1)
      OBVIOUS
    <2>1. n + 1 \in D /\ (n + 1) + 1 # 1 /\ ((n + 1) + 1) - 1 = n + 1
      BY <1>0
    <2>2. P[n + 1] = VoiceAt(s[l], n + 1)
      BY <1>4, <2>1
    <2>3. f[n + 1] = VoiceAt(s[l], n + 1) /\ f[(n + 1) + 1] = VoiceAt(s[l], (n + 1) + 1)
      BY <2>1
    <2>4. P[(n + 1) + 1] = IF P[n + 1] = NoVoice THEN NoVoice ELSE lk[P[n + 1]]
      <3> HIDE DEF D
      <3> QED BY <1>2, <2>1
    <2>5. f[(n + 1) + 1] = IF f[n + 1] = NoVoice THEN NoVoice ELSE lk[f[n + 1]]
      <3> HIDE DEF D, f
      <3> QED BY <1>1, <2>1
    <2> HIDE DEF D, f
    <2> QED BY <2>2, <2>3, <2>4, <2>5
  <1>5. Nat \subseteq S
    <2> HIDE DEF S
    <2> QED BY <1>3, <1>4, Induction
  <1>6. ASSUME NEW i \in D
        PROVE  P[i] = VoiceAt(s[l], i)
    <2>1. i - 1 \in Nat /\ (i - 1) + 1 = i
      BY <1>0
    <2>2. i - 1 \in S
      BY <1>5, <2>1
    <2> QED BY <2>1, <2>2
  <1> QED BY <1>6 DEF P

(* A list is not longer than there are voices.                               *)
LEMMA ListLength ==
    ASSUME NEW s, NEW t, NEW lk, Spells(s, t, lk), NEW l \in Lists
    PROVE  s[l] \in Seq(Voices) /\ Len(s[l]) \in Nat /\ Len(s[l]) <= MaxVoices
  <1>1. s[l] \in Seq(Voices) /\ \A i, j \in 1 .. Len(s[l]) : s[l][i] = s[l][j] => i = j
    BY DEF Spells, Once
  <1> QED BY <1>1, Room

(* What is listed is on the sequences.                                       *)
LEMMA ListedOn ==
    ASSUME NEW s, NEW t, NEW lk, Spells(s, t, lk), NEW v \in Voices
    PROVE  Listed(t, lk, v) <=> On(s, v)
  <1>0. MaxVoices \in Nat
    BY MaxVoicesType
  <1>1. ASSUME NEW l \in Lists, NEW i \in 1 .. MaxVoices, Path(t, lk, l)[i] = v
        PROVE  On(s, v)
    <2>1. VoiceAt(s[l], i) = v /\ s[l] \in Seq(Voices)
      BY <1>0, <1>1, PathSpells, ListLength
    <2>2. i \in 1 .. Len(s[l]) /\ s[l][i] = v
      BY <1>0, <2>1 DEF VoiceAt
    <2> QED BY <2>2 DEF On
  <1>2. ASSUME NEW l \in Lists, NEW i \in 1 .. Len(s[l]), s[l][i] = v
        PROVE  Listed(t, lk, v)
    <2>1. Len(s[l]) \in Nat /\ Len(s[l]) <= MaxVoices
      BY ListLength
    <2>2. i \in 1 .. MaxVoices /\ i \in 1 .. MaxVoices + 1 /\ i <= Len(s[l])
      BY <1>0, <2>1
    <2>3. Path(t, lk, l)[i] = v
      BY <1>2, <2>2, PathSpells DEF VoiceAt
    <2> QED BY <2>2, <2>3 DEF Listed
  <1> QED BY <1>1, <1>2 DEF Listed, On

(* What the guest keeps in order (PlainFirst) is sorted.                     *)
LEMMA PlainSorted ==
    ASSUME NEW s, NEW t, NEW lk, Spells(s, t, lk), PlainFirst(t, lk)
    PROVE  Sorted(s)
  <1>0. MaxVoices \in Nat
    BY MaxVoicesType
  <1>1. ASSUME NEW l \in Lists, NEW i \in 1 .. Len(s[l])
        PROVE  i \in 1 .. MaxVoices /\ Path(t, lk, l)[i] = s[l][i] /\ s[l][i] # NoVoice
    <2>1. s[l] \in Seq(Voices) /\ Len(s[l]) \in Nat /\ Len(s[l]) <= MaxVoices
      BY ListLength
    <2>2. i \in 1 .. MaxVoices /\ i \in 1 .. MaxVoices + 1 /\ i <= Len(s[l])
      BY <1>0, <2>1
    <2>3. Path(t, lk, l)[i] = s[l][i] /\ s[l][i] \in Voices
      BY <2>1, <2>2, PathSpells DEF VoiceAt
    <2> QED BY <2>2, <2>3
  <1>2. ASSUME NEW l \in Lists, NEW k \in Lists, NEW i \in 1 .. Len(s[l]),
               NEW j \in 1 .. Len(s[k]), Comes(l, i, k, j), Role[s[k][j]] = "plain"
        PROVE  Role[s[l][i]] = "plain"
    <2>1. /\ i \in 1 .. MaxVoices /\ Path(t, lk, l)[i] = s[l][i] /\ s[l][i] # NoVoice
          /\ j \in 1 .. MaxVoices /\ Path(t, lk, k)[j] = s[k][j] /\ s[k][j] # NoVoice
      BY <1>1
    <2>2. (l < k \/ (l = k /\ i < j))
          /\ NoVoice \notin {Path(t, lk, l)[i], Path(t, lk, k)[j]}
          /\ Role[Path(t, lk, k)[j]] = "plain" => Role[Path(t, lk, l)[i]] = "plain"
      BY <2>1, Zenon DEF PlainFirst
    <2> QED BY <1>2, <2>1, <2>2, Zenon DEF Comes
  <1> QED BY <1>2 DEF Sorted

-------------------------------------------------------------------------------
(* VOICE_ON puts a voice behind the first p of a list.                       *)
Insert(q, p, v) ==
    [i \in 1 .. Len(q) + 1 |-> IF i <= p THEN q[i] ELSE IF i = p + 1 THEN v ELSE q[i - 1]]
Shift(p, i) == IF i <= p THEN i ELSE i + 1
Inserted(s, k, p, v) == [s EXCEPT ![k] = Insert(s[k], p, v)]

GrownSeq(q, r, p, v) ==
    /\ r \in Seq(Voices) /\ Len(r) = Len(q) + 1 /\ r[p + 1] = v
    /\ \A i \in 1 .. Len(q) : Shift(p, i) \in 1 .. Len(q) + 1 /\ r[Shift(p, i)] = q[i]
    /\ \A j \in 1 .. Len(q) + 1 : j = p + 1 \/ \E i \in 1 .. Len(q) : j = Shift(p, i)
(* What Insert makes of one list.                                            *)
LEMMA InsertIs ==
    ASSUME NEW q \in Seq(Voices), NEW p \in 0 .. Len(q), NEW v \in Voices
    PROVE  GrownSeq(q, Insert(q, p, v), p, v)
  <1>0. Len(q) \in Nat /\ p \in Nat /\ p <= Len(q)
    OBVIOUS
  <1>1. ASSUME NEW i \in 1 .. Len(q) + 1
        PROVE  (IF i <= p THEN q[i] ELSE IF i = p + 1 THEN v ELSE q[i - 1]) \in Voices
    <2>1. CASE i <= p
      BY <1>0, <2>1
    <2>2. CASE i > p + 1
      <3>1. i - 1 \in 1 .. Len(q)
        BY <1>0, <2>2
      <3> QED BY <1>0, <2>2, <3>1
    <2> QED BY <1>0, <2>1, <2>2
  <1>2. Insert(q, p, v) \in Seq(Voices) /\ Len(Insert(q, p, v)) = Len(q) + 1
    <2> DEFINE e(i) == IF i <= p THEN q[i] ELSE IF i = p + 1 THEN v ELSE q[i - 1]
    <2>1. \A i \in 1 .. Len(q) + 1 : e(i) \in Voices
      BY <1>1
    <2> HIDE DEF e
    <2>2. Len(q) + 1 \in Nat /\ [i \in 1 .. Len(q) + 1 |-> e(i)] \in Seq(Voices)
          /\ Len([i \in 1 .. Len(q) + 1 |-> e(i)]) = Len(q) + 1
      BY <1>0, <2>1
    <2> QED BY <2>2 DEF Insert, e
  <1>3. Insert(q, p, v)[p + 1] = v
    BY <1>0 DEF Insert
  <1>4. ASSUME NEW i \in 1 .. Len(q)
        PROVE  Shift(p, i) \in 1 .. Len(q) + 1 /\ Insert(q, p, v)[Shift(p, i)] = q[i]
    BY <1>0 DEF Insert, Shift
  <1>5. ASSUME NEW j \in 1 .. Len(q) + 1, j # p + 1
        PROVE  \E i \in 1 .. Len(q) : j = Shift(p, i)
    <2>1. CASE j <= p
      <3>1. j \in 1 .. Len(q) /\ j = Shift(p, j)
        BY <1>0, <2>1 DEF Shift
      <3> QED BY <3>1
    <2>2. CASE j > p
      <3>1. j - 1 \in 1 .. Len(q) /\ j = Shift(p, j - 1)
        BY <1>0, <1>5, <2>2 DEF Shift
      <3> QED BY <3>1
    <2> QED BY <1>0, <2>1, <2>2
  <1> QED BY <1>2, <1>3, <1>4, <1>5 DEF GrownSeq

(* The places of the voices before and after.                                *)
Moved(k, p, l, i) == IF l = k THEN Shift(p, i) ELSE i
Grown(s, r, k, p, v) ==
    /\ r \in [Lists -> Seq(Voices)] /\ p + 1 \in 1 .. Len(r[k]) /\ r[k][p + 1] = v
    /\ \A l \in Lists : \A i \in 1 .. Len(s[l]) :
           Moved(k, p, l, i) \in 1 .. Len(r[l]) /\ r[l][Moved(k, p, l, i)] = s[l][i]
    /\ \A l \in Lists : \A j \in 1 .. Len(r[l]) :
           \/ l = k /\ j = p + 1
           \/ \E i \in 1 .. Len(s[l]) : j = Moved(k, p, l, i)
(* What it makes of the lists.                                               *)
LEMMA InsertedIs ==
    ASSUME NEW s \in [Lists -> Seq(Voices)], NEW k \in Lists, NEW p \in 0 .. Len(s[k]),
           NEW v \in Voices
    PROVE  Grown(s, Inserted(s, k, p, v), k, p, v)
  <1> DEFINE r == Inserted(s, k, p, v)
  <1>0. s[k] \in Seq(Voices) /\ Len(s[k]) \in Nat
    OBVIOUS
  <1>1. r[k] = Insert(s[k], p, v) /\ \A l \in Lists : l # k => r[l] = s[l]
    BY DEF Inserted
  <1>2. /\ r[k] \in Seq(Voices) /\ Len(r[k]) = Len(s[k]) + 1 /\ r[k][p + 1] = v
        /\ \A i \in 1 .. Len(s[k]) :
               Shift(p, i) \in 1 .. Len(s[k]) + 1 /\ r[k][Shift(p, i)] = s[k][i]
        /\ \A j \in 1 .. Len(s[k]) + 1 :
               j = p + 1 \/ \E i \in 1 .. Len(s[k]) : j = Shift(p, i)
    <2>1. GrownSeq(s[k], Insert(s[k], p, v), p, v)
      BY <1>0, InsertIs
    <2> HIDE DEF r
    <2>2. GrownSeq(s[k], r[k], p, v)
      BY <1>1, <2>1
    <2> QED BY <2>2 DEF GrownSeq
  <1>3. r \in [Lists -> Seq(Voices)]
    BY <1>1, <1>2 DEF Inserted
  <1>4. p + 1 \in 1 .. Len(r[k])
    BY <1>0, <1>2
  <1> HIDE DEF r
  <1>5. Grown(s, r, k, p, v)
    BY <1>1, <1>2, <1>3, <1>4 DEF Moved, Grown
  <1> QED BY <1>5 DEF r

(* Moving keeps the order.                                                   *)
LEMMA MovedKeeps ==
    ASSUME NEW k \in Lists, NEW p \in Nat, NEW l \in Lists, NEW m \in Lists, NEW i \in Nat,
           NEW j \in Nat
    PROVE  /\ Comes(l, i, m, j) <=> Comes(l, Moved(k, p, l, i), m, Moved(k, p, m, j))
           /\ Moved(k, p, l, i) # p + 1 \/ l # k
           /\ Moved(k, p, l, i) = Moved(k, p, l, j) <=> i = j
  BY DEF Comes, Moved, Shift, Lists

(* A voice that is on no list can be put anywhere; t and lk become what      *)
(* VOICE_ON writes.                                                          *)
LEMMA InsertedSpells ==
    ASSUME NEW s, NEW t, NEW lk, Spells(s, t, lk), NEW k \in Lists,
           NEW p \in 0 .. Len(s[k]), NEW v \in Voices, ~On(s, v), NEW t2, NEW lk2,
           \A l \in Lists : t2[l] = IF l = k /\ p = 0 THEN v ELSE t[l],
           \A u \in Voices : lk2[u] = IF u = v THEN VoiceAt(s[k], p + 1)
                                      ELSE IF p > 0 /\ u = s[k][p] THEN v ELSE lk[u]
    PROVE  Spells(Inserted(s, k, p, v), t2, lk2)
  <1> DEFINE r == Inserted(s, k, p, v)
  <1>0. /\ s \in [Lists -> Seq(Voices)] /\ \A l \in Lists : Len(s[l]) \in Nat
        /\ p \in Nat /\ p <= Len(s[k])
    BY DEF Spells
  <1>1. /\ r \in [Lists -> Seq(Voices)] /\ p + 1 \in 1 .. Len(r[k]) /\ r[k][p + 1] = v
        /\ \A l \in Lists : \A i \in 1 .. Len(s[l]) :
               Moved(k, p, l, i) \in 1 .. Len(r[l]) /\ r[l][Moved(k, p, l, i)] = s[l][i]
        /\ \A l \in Lists : \A j \in 1 .. Len(r[l]) :
               \/ l = k /\ j = p + 1
               \/ \E i \in 1 .. Len(s[l]) : j = Moved(k, p, l, i)
    <2>1. Grown(s, r, k, p, v)
      BY <1>0, InsertedIs, Zenon
    <2> HIDE DEF r
    <2> QED BY <2>1 DEF Grown
  <1>2. /\ Len(r[k]) = Len(s[k]) + 1 /\ \A l \in Lists : l # k => r[l] = s[l]
    <2>1. Len(Insert(s[k], p, v)) = Len(s[k]) + 1
      BY <1>0, InsertIs DEF GrownSeq
    <2> QED BY <1>0, <2>1 DEF Inserted
  <1> HIDE DEF r
  <1>3. Once(r)
    <2>1. ASSUME NEW l \in Lists, NEW m \in Lists, NEW i \in 1 .. Len(r[l]),
                 NEW j \in 1 .. Len(r[m]), r[l][i] = r[m][j]
          PROVE  l = m /\ i = j
      <3>1. CASE (l = k /\ i = p + 1) /\ (m = k /\ j = p + 1)
        BY <3>1
      <3>2. ASSUME NEW a \in Lists, NEW x \in 1 .. Len(s[a])
            PROVE  r[a][Moved(k, p, a, x)] # v
        <4>1. r[a][Moved(k, p, a, x)] = s[a][x] /\ s[a][x] # v
          BY <1>1 DEF On
        <4> QED BY <4>1
      <3>3. CASE (l = k /\ i = p + 1) /\ \E x \in 1 .. Len(s[m]) : j = Moved(k, p, m, x)
        BY <1>1, <2>1, <3>2, <3>3
      <3>4. CASE (m = k /\ j = p + 1) /\ \E x \in 1 .. Len(s[l]) : i = Moved(k, p, l, x)
        BY <1>1, <2>1, <3>2, <3>4
      <3>5. CASE /\ \E x \in 1 .. Len(s[l]) : i = Moved(k, p, l, x)
                 /\ \E y \in 1 .. Len(s[m]) : j = Moved(k, p, m, y)
        <4>1. PICK x \in 1 .. Len(s[l]), y \in 1 .. Len(s[m]) :
                  i = Moved(k, p, l, x) /\ j = Moved(k, p, m, y)
          BY <3>5
        <4>2. s[l][x] = s[m][y]
          BY <1>1, <2>1, <4>1
        <4>3. l = m /\ x = y
          BY <4>2 DEF Spells, Once
        <4> QED BY <4>1, <4>3
      <3> QED BY <1>1, <3>1, <3>3, <3>4, <3>5
    <2> QED BY <2>1 DEF Once
  <1>4. ASSUME NEW l \in Lists PROVE t2[l] = VoiceAt(r[l], 1)
    <2>1. CASE l # k
      BY <1>2, <2>1 DEF Spells
    <2>2. CASE l = k /\ p = 0
      BY <1>0, <1>1, <1>2, <2>2 DEF VoiceAt
    <2>3. CASE l = k /\ p > 0
      <3>1. 1 \in 1 .. Len(s[k]) /\ Moved(k, p, k, 1) = 1 /\ 1 <= Len(r[k])
        BY <1>0, <1>2, <2>3 DEF Moved, Shift
      <3>2. r[k][1] = s[k][1]
        BY <1>1, <3>1
      <3> QED BY <1>0, <2>3, <3>1, <3>2 DEF Spells, VoiceAt
    <2> QED BY <1>0, <2>1, <2>2, <2>3
  <1>5. ASSUME NEW l \in Lists, NEW j \in 1 .. Len(r[l])
        PROVE  lk2[r[l][j]] = VoiceAt(r[l], j + 1)
    <2>1. CASE l = k /\ j = p + 1
      <3>1. CASE p < Len(s[k])
        <4>1. p + 1 \in 1 .. Len(s[k]) /\ Moved(k, p, k, p + 1) = (p + 1) + 1
              /\ p + 1 <= Len(s[k]) /\ (p + 1) + 1 <= Len(r[k])
          BY <1>0, <1>2, <3>1 DEF Moved, Shift
        <4>2. r[k][(p + 1) + 1] = s[k][p + 1]
          BY <1>1, <4>1
        <4> QED BY <1>1, <2>1, <4>1, <4>2 DEF VoiceAt
      <3>2. CASE p = Len(s[k])
        <4>1. ~(p + 1 <= Len(s[k])) /\ ~((p + 1) + 1 <= Len(r[k]))
          BY <1>0, <1>2, <3>2
        <4> QED BY <1>1, <2>1, <4>1 DEF VoiceAt
      <3> QED BY <1>0, <3>1, <3>2
    <2>2. ASSUME NEW i \in 1 .. Len(s[l]), j = Moved(k, p, l, i)
          PROVE  lk2[r[l][j]] = VoiceAt(r[l], j + 1)
      <3>1. r[l][j] = s[l][i] /\ s[l][i] \in Voices /\ s[l][i] # v
        BY <1>0, <1>1, <2>2 DEF On
      <3>2. (p > 0 /\ s[l][i] = s[k][p]) <=> (l = k /\ i = p)
        BY <1>0 DEF Spells, Once
      <3>3. CASE l = k /\ i = p
        <4>1. j = p /\ p + 1 <= Len(r[k])
          BY <1>0, <1>2, <2>2, <3>3 DEF Moved, Shift
        <4> QED BY <1>1, <3>1, <3>2, <3>3, <4>1 DEF VoiceAt
      <3>4. CASE ~(l = k /\ i = p)
        <4>1. lk2[r[l][j]] = VoiceAt(s[l], i + 1)
          BY <3>1, <3>2, <3>4 DEF Spells
        <4>2. CASE i + 1 <= Len(s[l])
          <5>1. i + 1 \in 1 .. Len(s[l]) /\ Moved(k, p, l, i + 1) = j + 1
            BY <1>0, <2>2, <3>4, <4>2 DEF Moved, Shift
          <5>2. j + 1 \in 1 .. Len(r[l]) /\ r[l][j + 1] = s[l][i + 1]
            BY <1>1, <5>1
          <5> QED BY <4>1, <4>2, <5>2 DEF VoiceAt
        <4>3. CASE ~(i + 1 <= Len(s[l]))
          <5>1. i = Len(s[l]) /\ ~(j + 1 <= Len(r[l]))
            BY <1>0, <1>2, <2>2, <3>4, <4>3 DEF Moved, Shift
          <5> QED BY <4>1, <4>3, <5>1 DEF VoiceAt
        <4> QED BY <4>2, <4>3
      <3> QED BY <3>3, <3>4
    <2> QED BY <1>1, <2>1, <2>2
  <1> QED BY <1>1, <1>3, <1>4, <1>5 DEF Spells, r

(* What comes before what, and in which list, stays so.                      *)
Before(s, v, w) ==
    \E l, k \in Lists : \E i \in 1 .. Len(s[l]), j \in 1 .. Len(s[k]) :
        s[l][i] = v /\ s[k][j] = w /\ Comes(l, i, k, j)
OnList(s, v, l) == \E i \in 1 .. Len(s[l]) : s[l][i] = v

(* Putting a voice in: what came before what still does.                     *)
LEMMA InsertedKeeps ==
    ASSUME NEW s \in [Lists -> Seq(Voices)], NEW k \in Lists, NEW p \in 0 .. Len(s[k]),
           NEW x \in Voices
    PROVE  /\ \A v, w : Before(s, v, w) => Before(Inserted(s, k, p, x), v, w)
           /\ \A v : \A l \in Lists : OnList(s, v, l) => OnList(Inserted(s, k, p, x), v, l)
  <1> DEFINE r == Inserted(s, k, p, x)
  <1>0. p \in Nat /\ \A l \in Lists : Len(s[l]) \in Nat
    OBVIOUS
  <1>1. Grown(s, r, k, p, x)
    BY InsertedIs
  <1> HIDE DEF r
  <1>2. ASSUME NEW l \in Lists, NEW i \in 1 .. Len(s[l])
        PROVE  Moved(k, p, l, i) \in 1 .. Len(r[l]) /\ r[l][Moved(k, p, l, i)] = s[l][i]
    BY <1>1 DEF Grown
  <1>3. ASSUME NEW v, NEW w, Before(s, v, w)
        PROVE  Before(r, v, w)
    <2>0. PICK l \in Lists, m \in Lists :
              \E i \in 1 .. Len(s[l]), j \in 1 .. Len(s[m]) :
                  s[l][i] = v /\ s[m][j] = w /\ Comes(l, i, m, j)
      BY <1>3 DEF Before
    <2>1. PICK i \in 1 .. Len(s[l]), j \in 1 .. Len(s[m]) :
              s[l][i] = v /\ s[m][j] = w /\ Comes(l, i, m, j)
      BY <2>0
    <2>2. Comes(l, Moved(k, p, l, i), m, Moved(k, p, m, j))
      BY <1>0, <2>1, MovedKeeps
    <2> QED BY <1>2, <2>1, <2>2 DEF Before
  <1>4. ASSUME NEW v, NEW l \in Lists, OnList(s, v, l)
        PROVE  OnList(r, v, l)
    <2>1. PICK i \in 1 .. Len(s[l]) : s[l][i] = v
      BY <1>4 DEF OnList
    <2>2. PICK j \in 1 .. Len(r[l]) : r[l][j] = v
      BY <1>2, <2>1
    <2> QED BY <2>2 DEF OnList
  <1> QED BY <1>3, <1>4 DEF r

(* Nothing comes before itself, and before a plain voice there are only      *)
(* plain ones.                                                               *)
LEMMA BeforeMeans ==
    ASSUME NEW s \in [Lists -> Seq(Voices)], Once(s), Sorted(s), NEW v, NEW w, Before(s, v, w)
    PROVE  v # w /\ (Role[w] = "plain" => Role[v] = "plain")
  <1>0. PICK l \in Lists, m \in Lists :
            \E i \in 1 .. Len(s[l]), j \in 1 .. Len(s[m]) :
                s[l][i] = v /\ s[m][j] = w /\ Comes(l, i, m, j)
    BY DEF Before
  <1>1. PICK i \in 1 .. Len(s[l]), j \in 1 .. Len(s[m]) :
            s[l][i] = v /\ s[m][j] = w /\ Comes(l, i, m, j)
    BY <1>0
  <1>2. v # w
    <2>1. SUFFICES ASSUME v = w PROVE FALSE
      OBVIOUS
    <2>2. l = m /\ i = j
      BY <1>1, <2>1 DEF Once
    <2> QED BY <1>1, <2>2 DEF Comes, Lists
  <1> QED BY <1>1, <1>2 DEF Sorted

-------------------------------------------------------------------------------
(* The driver takes a voice out of the lists.                                *)
Without(q, p) == [i \in 1 .. Len(q) - 1 |-> IF i < p THEN q[i] ELSE q[i + 1]]
Removed(s, k, p) == [s EXCEPT ![k] = Without(s[k], p)]
Kept(k, p, l, i) == IF l = k /\ i >= p THEN i + 1 ELSE i

(* Where the voices that stay come from.                                     *)
Shrunk(s, r, k, p) ==
    /\ r \in [Lists -> Seq(Voices)] /\ Len(r[k]) = Len(s[k]) - 1
    /\ \A l \in Lists : l # k => r[l] = s[l]
    /\ \A l \in Lists : \A i \in 1 .. Len(r[l]) :
           /\ Kept(k, p, l, i) \in 1 .. Len(s[l])
           /\ r[l][i] = s[l][Kept(k, p, l, i)]
           /\ l # k \/ Kept(k, p, l, i) # p

(* What taking one out makes of the lists.                                   *)
LEMMA RemovedIs ==
    ASSUME NEW s \in [Lists -> Seq(Voices)], NEW k \in Lists, NEW p \in 1 .. Len(s[k])
    PROVE  Shrunk(s, Removed(s, k, p), k, p)
  <1> DEFINE r == Removed(s, k, p)
             e(i) == IF i < p THEN s[k][i] ELSE s[k][i + 1]
  <1>0. /\ s[k] \in Seq(Voices) /\ Len(s[k]) \in Nat /\ p \in Nat /\ Len(s[k]) - 1 \in Nat
        /\ 1 <= p /\ p <= Len(s[k])
    OBVIOUS
  <1>1. ASSUME NEW i \in 1 .. Len(s[k]) - 1
        PROVE  Kept(k, p, k, i) \in 1 .. Len(s[k]) /\ e(i) = s[k][Kept(k, p, k, i)]
               /\ e(i) \in Voices /\ Kept(k, p, k, i) # p
    <2>1. Kept(k, p, k, i) \in 1 .. Len(s[k]) /\ Kept(k, p, k, i) # p
      BY <1>0 DEF Kept
    <2>2. e(i) = s[k][Kept(k, p, k, i)]
      BY <1>0 DEF Kept
    <2> HIDE DEF e
    <2> QED BY <1>0, <2>1, <2>2
  <1>2. Without(s[k], p) = [i \in 1 .. Len(s[k]) - 1 |-> e(i)]
    BY DEF Without
  <1> HIDE DEF e
  <1>3. Without(s[k], p) \in Seq(Voices) /\ Len(Without(s[k], p)) = Len(s[k]) - 1
    BY <1>0, <1>1, <1>2
  <1>4. \A i \in 1 .. Len(s[k]) - 1 : Without(s[k], p)[i] = s[k][Kept(k, p, k, i)]
    BY <1>1, <1>2
  <1>5. r[k] = Without(s[k], p) /\ \A l \in Lists : l # k => r[l] = s[l]
    BY DEF Removed
  <1>6. r \in [Lists -> Seq(Voices)]
    BY <1>3 DEF Removed
  <1>7. ASSUME NEW l \in Lists, NEW i \in 1 .. Len(r[l])
        PROVE  /\ Kept(k, p, l, i) \in 1 .. Len(s[l])
               /\ r[l][i] = s[l][Kept(k, p, l, i)]
               /\ l # k \/ Kept(k, p, l, i) # p
    <2>1. CASE l = k
      <3> HIDE DEF r
      <3> QED BY <1>1, <1>3, <1>4, <1>5, <2>1
    <2>2. CASE l # k
      <3>1. Kept(k, p, l, i) = i
        BY <2>2 DEF Kept
      <3> HIDE DEF r
      <3> QED BY <1>5, <2>2, <3>1
    <2> QED BY <2>1, <2>2
  <1> HIDE DEF r
  <1>8. Shrunk(s, r, k, p)
    BY <1>3, <1>5, <1>6, <1>7 DEF Shrunk
  <1> QED BY <1>8 DEF r

(* Taking a voice out keeps the order of the others, and which is next.      *)
LEMMA KeptKeeps ==
    ASSUME NEW k \in Lists, NEW p \in Nat \ {0}, NEW l \in Lists, NEW m \in Lists,
           NEW i \in Nat \ {0}, NEW j \in Nat \ {0}
    PROVE  /\ Comes(l, i, m, j) => Comes(l, Kept(k, p, l, i), m, Kept(k, p, m, j))
           /\ Kept(k, p, l, i) = Kept(k, p, l, j) => i = j
           /\ Kept(k, p, l, i + 1) = IF l = k /\ i + 1 = p THEN p + 1
                                     ELSE Kept(k, p, l, i) + 1
           /\ (l = k /\ Kept(k, p, l, i) + 1 = p) <=> (l = k /\ i + 1 = p)
  <1>1. Comes(l, i, m, j) => Comes(l, Kept(k, p, l, i), m, Kept(k, p, m, j))
    BY DEF Comes, Kept, Lists
  <1>2. Kept(k, p, l, i) = Kept(k, p, l, j) => i = j
    BY DEF Kept
  <1>3. Kept(k, p, l, i + 1) = IF l = k /\ i + 1 = p THEN p + 1 ELSE Kept(k, p, l, i) + 1
    BY DEF Kept
  <1>4. (l = k /\ Kept(k, p, l, i) + 1 = p) <=> (l = k /\ i + 1 = p)
    BY DEF Kept
  <1> QED BY <1>1, <1>2, <1>3, <1>4

(* What the driver writes to take v out.                                     *)
Unlinks(t, lk, v, t2, lk2) ==
    /\ \A l \in Lists : t2[l] = IF t[l] = v THEN lk[v] ELSE t[l]
    /\ \A u \in Voices : lk2[u] = IF u # v /\ lk[u] = v THEN lk[v] ELSE lk[u]

(* The lists without the voice are what GuestService leaves, in order.       *)
LEMMA RemovedSpells ==
    ASSUME NEW s, NEW t, NEW lk, Spells(s, t, lk), NEW k \in Lists, NEW p \in 1 .. Len(s[k]),
           NEW v, v = s[k][p], NEW t2, NEW lk2, Unlinks(t, lk, v, t2, lk2)
    PROVE  /\ Spells(Removed(s, k, p), t2, lk2)
           /\ Sorted(s) => Sorted(Removed(s, k, p))
  <1> DEFINE r == Removed(s, k, p)
  <1>0. /\ s \in [Lists -> Seq(Voices)] /\ \A l \in Lists : Len(s[l]) \in Nat
        /\ p \in Nat \ {0} /\ p <= Len(s[k])
    BY DEF Spells
  <1>1. /\ r \in [Lists -> Seq(Voices)] /\ Len(r[k]) = Len(s[k]) - 1
        /\ \A l \in Lists : l # k => r[l] = s[l]
        /\ \A l \in Lists : \A i \in 1 .. Len(r[l]) :
               /\ Kept(k, p, l, i) \in 1 .. Len(s[l])
               /\ r[l][i] = s[l][Kept(k, p, l, i)]
               /\ l # k \/ Kept(k, p, l, i) # p
    <2>1. Shrunk(s, r, k, p)
      BY <1>0, RemovedIs, Zenon
    <2> HIDE DEF r
    <2> QED BY <2>1 DEF Shrunk
  <1> HIDE DEF r
  <1>2. v \in Voices /\ v # NoVoice
    BY <1>0
  <1>3. ASSUME NEW l \in Lists, NEW m \in Nat \ {0}
        PROVE  VoiceAt(r[l], m) = VoiceAt(s[l], Kept(k, p, l, m))
    <2>1. CASE m <= Len(r[l])
      <3>1. m \in 1 .. Len(r[l])
        BY <1>1, <2>1
      <3>2. Kept(k, p, l, m) \in 1 .. Len(s[l]) /\ r[l][m] = s[l][Kept(k, p, l, m)]
        BY <1>1, <3>1
      <3> QED BY <1>0, <2>1, <3>2 DEF VoiceAt
    <2>2. CASE ~(m <= Len(r[l]))
      <3>1. ~(Kept(k, p, l, m) <= Len(s[l]))
        BY <1>0, <1>1, <2>2 DEF Kept
      <3> QED BY <2>2, <3>1 DEF VoiceAt
    <2> QED BY <2>1, <2>2
  <1>4. ASSUME NEW l \in Lists, NEW m \in Nat \ {0}
        PROVE  VoiceAt(s[l], m) = v <=> l = k /\ m = p
    <2>1. CASE m <= Len(s[l])
      <3>1. m \in 1 .. Len(s[l]) /\ VoiceAt(s[l], m) = s[l][m]
        BY <1>0, <2>1 DEF VoiceAt
      <3> QED BY <3>1 DEF Spells, Once
    <2>2. CASE ~(m <= Len(s[l]))
      BY <1>0, <1>2, <2>2 DEF VoiceAt
    <2> QED BY <2>1, <2>2
  <1>5. lk[v] = VoiceAt(s[k], p + 1)
    BY DEF Spells
  <1>6. Once(r)
    <2>1. ASSUME NEW l \in Lists, NEW m \in Lists, NEW i \in 1 .. Len(r[l]),
                 NEW j \in 1 .. Len(r[m]), r[l][i] = r[m][j]
          PROVE  l = m /\ i = j
      <3>1. i \in Nat \ {0} /\ j \in Nat \ {0}
        BY <1>1
      <3>2. l = m /\ Kept(k, p, l, i) = Kept(k, p, m, j)
        <4>1. /\ Kept(k, p, l, i) \in 1 .. Len(s[l]) /\ Kept(k, p, m, j) \in 1 .. Len(s[m])
              /\ s[l][Kept(k, p, l, i)] = s[m][Kept(k, p, m, j)]
          BY <1>1, <2>1
        <4>2. Once(s)
          BY DEF Spells
        <4>3. PICK a \in 1 .. Len(s[l]), b \in 1 .. Len(s[m]) :
                  a = Kept(k, p, l, i) /\ b = Kept(k, p, m, j) /\ s[l][a] = s[m][b]
          BY <4>1
        <4>4. l = m /\ a = b
          BY <4>2, <4>3 DEF Once
        <4> QED BY <4>3, <4>4
      <3>3. Kept(k, p, l, i) = Kept(k, p, l, j) => i = j
        BY <1>0, <3>1, KeptKeeps
      <3> QED BY <3>2, <3>3
    <2> QED BY <2>1 DEF Once
  <1>7. ASSUME NEW l \in Lists PROVE t2[l] = VoiceAt(r[l], 1)
    <2>1. t[l] = VoiceAt(s[l], 1) /\ (t[l] = v <=> l = k /\ 1 = p)
          /\ VoiceAt(r[l], 1) = VoiceAt(s[l], Kept(k, p, l, 1))
      BY <1>3, <1>4 DEF Spells
    <2>2. Kept(k, p, l, 1) = IF l = k /\ 1 = p THEN p + 1 ELSE 1
      BY <1>0 DEF Kept
    <2> QED BY <1>5, <2>1, <2>2 DEF Unlinks
  <1>8. ASSUME NEW l \in Lists, NEW j \in 1 .. Len(r[l])
        PROVE  lk2[r[l][j]] = VoiceAt(r[l], j + 1)
    <2> DEFINE i == Kept(k, p, l, j)
    <2>1. i \in 1 .. Len(s[l]) /\ r[l][j] = s[l][i] /\ (l # k \/ i # p)
          /\ j \in Nat \ {0} /\ j + 1 \in Nat \ {0}
      <3>1. j \in Nat \ {0} /\ j + 1 \in Nat \ {0}
        BY <1>1
      <3> QED BY <1>1, <3>1, Zenon
    <2>2. i + 1 \in Nat \ {0} /\ i \in Nat \ {0} /\ i <= Len(s[l]) /\ s[l][i] \in Voices
      BY <1>0, <2>1
    <2>3. s[l][i] # v
      BY <2>1 DEF Spells, Once
    <2>4. lk[s[l][i]] = VoiceAt(s[l], i + 1)
      BY <2>1 DEF Spells
    <2>5. lk[s[l][i]] = v <=> (l = k /\ i + 1 = p)
      BY <1>4, <2>2, <2>4
    <2>6. VoiceAt(r[l], j + 1) = VoiceAt(s[l], Kept(k, p, l, j + 1))
      BY <1>3, <2>1
    <2>7. /\ Kept(k, p, l, j + 1) = IF l = k /\ j + 1 = p THEN p + 1 ELSE i + 1
          /\ (l = k /\ i + 1 = p) <=> (l = k /\ j + 1 = p)
      BY <1>0, <2>1, KeptKeeps
    <2> HIDE DEF i
    <2>8. lk2[s[l][i]] = IF lk[s[l][i]] = v THEN lk[v] ELSE lk[s[l][i]]
      BY <2>2, <2>3 DEF Unlinks
    <2> QED BY <1>5, <2>1, <2>4, <2>5, <2>6, <2>7, <2>8
  <1>9. Sorted(s) => Sorted(r)
    <2> SUFFICES ASSUME Sorted(s), NEW l \in Lists, NEW m \in Lists, NEW i \in 1 .. Len(r[l]),
                        NEW j \in 1 .. Len(r[m]), Comes(l, i, m, j), Role[r[m][j]] = "plain"
                 PROVE  Role[r[l][i]] = "plain"
      BY DEF Sorted
    <2>1. i \in Nat \ {0} /\ j \in Nat \ {0}
      BY <1>1
    <2>2. Comes(l, Kept(k, p, l, i), m, Kept(k, p, m, j))
      BY <1>0, <2>1, KeptKeeps
    <2>3. /\ Kept(k, p, l, i) \in 1 .. Len(s[l]) /\ r[l][i] = s[l][Kept(k, p, l, i)]
          /\ Kept(k, p, m, j) \in 1 .. Len(s[m]) /\ r[m][j] = s[m][Kept(k, p, m, j)]
      BY <1>1
    <2> QED BY <2>2, <2>3 DEF Sorted
  <1> QED BY <1>1, <1>6, <1>7, <1>8, <1>9 DEF Spells, r

(* The next voice of a list is behind what the walk has met up to here.      *)
LEMMA NextAhead ==
    ASSUME NEW s, NEW t, NEW lk, Spells(s, t, lk), NEW l \in Lists, NEW w,
           OnList(s, w, l), lk[w] # NoVoice
    PROVE  /\ OnList(s, lk[w], l) /\ Before(s, w, lk[w])
           /\ \A v : Before(s, v, w) => Before(s, v, lk[w])
  <1>0. s \in [Lists -> Seq(Voices)] /\ Once(s) /\ \A m \in Lists : Len(s[m]) \in Nat
    BY DEF Spells
  <1>1. PICK p \in 1 .. Len(s[l]) : s[l][p] = w
    BY DEF OnList
  <1>2. lk[w] = VoiceAt(s[l], p + 1)
    BY <1>1 DEF Spells
  <1>3. p + 1 \in 1 .. Len(s[l]) /\ s[l][p + 1] = lk[w]
    BY <1>0, <1>2 DEF VoiceAt
  <1>4. OnList(s, lk[w], l)
    BY <1>3 DEF OnList
  <1>5. Comes(l, p, l, p + 1)
    BY <1>0 DEF Comes
  <1>6. Before(s, w, lk[w])
    BY <1>1, <1>3, <1>5 DEF Before
  <1>7. ASSUME NEW v, Before(s, v, w)
        PROVE  Before(s, v, lk[w])
    <2>1. PICK m \in Lists, k \in Lists :
              \E i \in 1 .. Len(s[m]), j \in 1 .. Len(s[k]) :
                  s[m][i] = v /\ s[k][j] = w /\ Comes(m, i, k, j)
      BY <1>7 DEF Before
    <2>2. PICK i \in 1 .. Len(s[m]), j \in 1 .. Len(s[k]) :
              s[m][i] = v /\ s[k][j] = w /\ Comes(m, i, k, j)
      BY <2>1
    <2>3. k = l /\ j = p
      BY <1>0, <1>1, <2>2 DEF Once
    <2>4. Comes(m, i, l, p + 1)
      BY <1>0, <2>2, <2>3 DEF Comes, Lists
    <2> QED BY <1>3, <2>2, <2>4 DEF Before
  <1> QED BY <1>4, <1>6, <1>7

-------------------------------------------------------------------------------
(* Where the walk goes next, and that it has left behind what is queued.     *)
Ahead == IF fr.pc \in AtVoice THEN fr.nxt ELSE fr.cur
Walking(s) ==
    fr.pc \in AtVoice \cup {"walk"} =>
        /\ \A i \in 1 .. Len(queue) : \E l \in 1 .. fr.list : OnList(s, queue[i], l)
        /\ Ahead # NoVoice =>
               /\ OnList(s, Ahead, fr.list)
               /\ \A i \in 1 .. Len(queue) : Before(s, queue[i], Ahead)
ListInv == \E s : Spells(s, top, link) /\ Sorted(s) /\ Walking(s)

(* VOICE_ON is on its way for a voice that is on no list.                    *)
CallInv ==
    /\ cpu.pc = "link" => cpu.op = "on"
    /\ cpu.pc \in {"set", "link"} /\ cpu.op = "on" => ~Listed(top, link, cpu.v)

(* The queue holds no voice twice and its plain ones first; sources that     *)
(* wait for their multipass voice have been dealt from it; between two       *)
(* frames it is empty and the next walk starts with the first list.          *)
SortedQueue ==
    \A i, j \in 1 .. Len(queue) : i < j =>
        queue[i] # queue[j] /\ (Role[queue[j]] = "plain" => Role[queue[i]] = "plain")
SchedInv ==
    /\ sched.ok /\ (fr.pc # "deal" => ~sched.dirty)
    /\ sched.dirty => \E i \in 1 .. fr.n : Role[queue[i]] = "source"
OutsideInv == fr.pc = "outside" => queue = <<>> /\ fr.list = 1
QueueInv == SortedQueue /\ SchedInv /\ OutsideInv

(* The inductive invariant for QueueAssertsHold.                             *)
ListsInv == ListInv /\ CallInv /\ QueueInv

(* Steps that leave the lists alone and the walk where it is.                *)
LEMMA ListKept ==
    ASSUME ListInv, UNCHANGED <<top, link, queue>>, fr'.list = fr.list,
           fr'.cur = fr.cur, fr'.nxt = fr.nxt, fr'.pc \in AtVoice <=> fr.pc \in AtVoice,
           fr'.pc = "walk" => fr.pc = "walk"
    PROVE  ListInv'
  <1>1. PICK s : Spells(s, top, link) /\ Sorted(s) /\ Walking(s)
    BY DEF ListInv
  <1>2. Ahead' = Ahead
    BY DEF Ahead
  <1>3. Walking(s)'
    BY <1>1, <1>2 DEF Walking
  <1>4. Spells(s, top', link')
    BY <1>1
  <1> QED BY <1>1, <1>3, <1>4 DEF ListInv

(* Steps after which no list is walked along.                                *)
LEMMA ListIdle ==
    ASSUME ListInv, UNCHANGED <<top, link>>, fr'.pc \notin AtVoice \cup {"walk"}
    PROVE  ListInv'
  <1>1. PICK s : Spells(s, top, link) /\ Sorted(s) /\ Walking(s)
    BY DEF ListInv
  <1>2. Walking(s)'
    BY DEF Walking
  <1>3. Spells(s, top', link')
    BY <1>1
  <1> QED BY <1>1, <1>2, <1>3 DEF ListInv

(* VOICE_ON's edit of the lists, under the feet of the walk: the new voice   *)
(* changes neither the order of the others nor where the walk goes next.     *)
LEMMA LinkKeepsLists ==
    ASSUME TypeInv, ListInv, CallInv, CpuLink
    PROVE  ListInv'
  <1>1. PICK s : Spells(s, top, link) /\ Sorted(s) /\ Walking(s)
    BY DEF ListInv
  <1>2. PICK v \in Voices : v = cpu.v
    BY DEF CpuLink, TypeInv, TypeOK, GuestTypes, Handles
  <1>3. /\ s \in [Lists -> Seq(Voices)]
        /\ top \in [Lists -> Handles] /\ link \in [Voices -> Handles]
    BY <1>1 DEF Spells, TypeInv, TypeOK, GuestTypes
  <1>4. ~On(s, v)
    <2>1. ~Listed(top, link, v)
      BY <1>2 DEF CallInv, CpuLink
    <2> QED BY <1>1, <2>1, ListedOn
  <1>5. \E k \in Lists : \E p \in 0 .. Len(s[k]) : Spells(Inserted(s, k, p, v), top', link')
    <2>1. ASSUME NEW k \in Lists, link' = [link EXCEPT ![v] = top[k]],
                 top' = [top EXCEPT ![k] = v]
          PROVE  Spells(Inserted(s, k, 0, v), top', link') /\ 0 \in 0 .. Len(s[k])
      <3>1. 0 \in 0 .. Len(s[k]) /\ top[k] = VoiceAt(s[k], 0 + 1)
        BY <1>1, <1>3 DEF Spells
      <3>2. \A l \in Lists : top'[l] = IF l = k /\ 0 = 0 THEN v ELSE top[l]
        BY <1>3, <2>1
      <3>3. \A u \in Voices : link'[u] = IF u = v THEN VoiceAt(s[k], 0 + 1)
                                         ELSE IF 0 > 0 /\ u = s[k][0] THEN v ELSE link[u]
        BY <1>3, <2>1, <3>1
      <3> QED BY <1>1, <1>4, <3>1, <3>2, <3>3, InsertedSpells
    <2>2. ASSUME NEW a \in Voices \ {v}, Listed(top, link, a),
                 link' = [link EXCEPT ![v] = link[a], ![a] = v], UNCHANGED top
          PROVE  \E k \in Lists : \E p \in 0 .. Len(s[k]) :
                     Spells(Inserted(s, k, p, v), top', link')
      <3>1. On(s, a)
        BY <1>1, <2>2, ListedOn
      <3>2. PICK k \in Lists : \E p \in 1 .. Len(s[k]) : s[k][p] = a
        BY <3>1 DEF On
      <3>3. PICK p \in 1 .. Len(s[k]) : s[k][p] = a
        BY <3>2
      <3>4. p \in 0 .. Len(s[k]) /\ p > 0 /\ p # 0 /\ link[a] = VoiceAt(s[k], p + 1)
        BY <1>1, <1>3, <3>3 DEF Spells
      <3>5. \A l \in Lists : top'[l] = IF l = k /\ p = 0 THEN v ELSE top[l]
        BY <2>2, <3>4
      <3>6. \A u \in Voices : link'[u] = IF u = v THEN VoiceAt(s[k], p + 1)
                                         ELSE IF p > 0 /\ u = s[k][p] THEN v ELSE link[u]
        BY <1>3, <2>2, <3>3, <3>4
      <3>7. Spells(Inserted(s, k, p, v), top', link')
        BY <1>1, <1>4, <3>4, <3>5, <3>6, InsertedSpells
      <3> QED BY <3>4, <3>7
    <2> QED BY <1>2, <2>1, <2>2 DEF CpuLink
  <1>6. PICK k \in Lists : \E p \in 0 .. Len(s[k]) : Spells(Inserted(s, k, p, v), top', link')
    BY <1>5
  <1>7. PICK p \in 0 .. Len(s[k]) : Spells(Inserted(s, k, p, v), top', link')
    BY <1>6
  <1>8. PICK r : r = Inserted(s, k, p, v)
    OBVIOUS
  <1>9. Sorted(r)
    <2>1. PlainFirst(top', link')
      BY DEF CpuLink
    <2> QED BY <1>7, <1>8, <2>1, PlainSorted
  <1>10. Walking(r)'
    <2>1. UNCHANGED <<fr, queue>>
      BY DEF CpuLink, work
    <2>2. Ahead' = Ahead
      BY <2>1 DEF Ahead
    <2>3. /\ \A u, w : Before(s, u, w) => Before(r, u, w)
          /\ \A u : \A l \in Lists : OnList(s, u, l) => OnList(r, u, l)
      BY <1>3, <1>8, InsertedKeeps
    <2>4. fr.list \in Lists /\ 1 .. fr.list \subseteq Lists
      BY DEF TypeInv, TypeOK, FrameTypes, Lists
    <2> QED BY <1>1, <2>1, <2>2, <2>3, <2>4 DEF Walking
  <1> QED BY <1>7, <1>8, <1>9, <1>10 DEF ListInv

(* The driver takes a voice out while no frame is under way.                 *)
LEMMA ServiceKeepsLists ==
    ASSUME TypeInv, ListInv, GuestService
    PROVE  ListInv'
  <1>1. fr'.pc \notin AtVoice \cup {"walk"}
    BY DEF GuestService, AtVoice
  <1>2. CASE UNCHANGED <<top, link>>
    BY <1>1, <1>2, ListIdle
  <1>3. ASSUME NEW v \in Voices \ active, Listed(top, link, v),
               top' = [l \in Lists |-> IF top[l] = v THEN link[v] ELSE top[l]],
               link' = [a \in Voices |-> IF a # v /\ link[a] = v THEN link[v] ELSE link[a]]
        PROVE  ListInv'
    <2>1. PICK s : Spells(s, top, link) /\ Sorted(s)
      BY DEF ListInv
    <2>2. On(s, v)
      BY <1>3, <2>1, ListedOn
    <2>3. PICK k \in Lists : \E p \in 1 .. Len(s[k]) : s[k][p] = v
      BY <2>2 DEF On
    <2>4. PICK p \in 1 .. Len(s[k]) : v = s[k][p]
      BY <2>3
    <2>5. Unlinks(top, link, v, top', link')
      BY <1>3 DEF Unlinks
    <2>6. PICK r : r = Removed(s, k, p)
      OBVIOUS
    <2>7. Spells(r, top', link') /\ Sorted(r)
      <3>1. /\ Spells(Removed(s, k, p), top', link')
            /\ Sorted(s) => Sorted(Removed(s, k, p))
        BY <2>1, <2>4, <2>5, RemovedSpells
      <3> QED BY <2>1, <2>6, <3>1
    <2>8. Walking(r)'
      BY <1>1 DEF Walking
    <2> QED BY <2>7, <2>8 DEF ListInv
  <1> QED BY <1>2, <1>3 DEF GuestService

(* The top of a list is behind all that is on the lists before it.           *)
LEMMA TopAhead ==
    ASSUME NEW s, NEW t, NEW lk, Spells(s, t, lk), NEW l \in Lists, t[l] # NoVoice
    PROVE  /\ OnList(s, t[l], l)
           /\ \A k \in Lists : \A v : k < l /\ OnList(s, v, k) => Before(s, v, t[l])
  <1>1. 1 \in 1 .. Len(s[l]) /\ s[l][1] = t[l]
    BY DEF Spells, VoiceAt
  <1>2. ASSUME NEW k \in Lists, NEW v, k < l, OnList(s, v, k)
        PROVE  Before(s, v, t[l])
    <2>1. PICK i \in 1 .. Len(s[k]) : s[k][i] = v
      BY <1>2 DEF OnList
    <2>2. Comes(k, i, l, 1)
      BY <1>2 DEF Comes
    <2> QED BY <1>1, <2>1, <2>2 DEF Before
  <1> QED BY <1>1, <1>2 DEF OnList

(* FrameStart: nothing is queued yet.                                        *)
LEMMA StartKeepsLists ==
    ASSUME TypeInv, ListInv, OutsideInv, FrameStart
    PROVE  ListInv'
  <1>1. PICK s : Spells(s, top, link) /\ Sorted(s)
    BY DEF ListInv
  <1>2. /\ fr'.pc = "walk" /\ fr'.list = 1 /\ fr'.cur = top[1] /\ queue' = <<>>
        /\ UNCHANGED <<top, link>> /\ 1 \in Lists
    BY DEF FrameStart, OutsideInv, TypeInv, TypeOK, FrameTypes, guest, work, Lists
  <1>3. Ahead' = top[1]
    BY <1>2 DEF Ahead, AtVoice
  <1>4. top[1] # NoVoice => OnList(s, top[1], 1)
    BY <1>1, <1>2, TopAhead
  <1>5. Walking(s)'
    BY <1>2, <1>3, <1>4 DEF Walking
  <1> QED BY <1>1, <1>2, <1>5 DEF ListInv

(* NextList: what is queued is on this list or on one before.                *)
LEMMA NextListKeepsLists ==
    ASSUME TypeInv, ListInv, NextList
    PROVE  ListInv'
  <1>1. PICK s : Spells(s, top, link) /\ Sorted(s) /\ Walking(s)
    BY DEF ListInv
  <1>2. CASE ~(fr.list < NumLists)
    <2>1. fr'.pc \notin AtVoice \cup {"walk"} /\ UNCHANGED <<top, link>>
      BY <1>2 DEF NextList, AtVoice, Outside, guest
    <2> QED BY <2>1, ListIdle
  <1>3. CASE fr.list < NumLists
    <2>1. /\ fr'.pc = "walk" /\ fr'.list = fr.list + 1 /\ fr'.cur = top[fr.list + 1]
          /\ UNCHANGED <<top, link, queue>> /\ fr.pc = "walk"
      BY <1>3 DEF NextList, TypeInv, TypeOK, FrameTypes, guest, work
    <2>2. PICK l \in Lists : l = fr.list + 1 /\ l > fr.list
      BY <1>3 DEF TypeInv, TypeOK, FrameTypes, Lists
    <2>3. Ahead' = top[l]
      BY <2>1, <2>2 DEF Ahead, AtVoice
    <2>4. \A i \in 1 .. Len(queue) : \E k \in 1 .. fr.list : OnList(s, queue[i], k)
      BY <1>1, <2>1 DEF Walking
    <2>5. ASSUME NEW k \in 1 .. fr.list
          PROVE  k \in Lists /\ k < l /\ k \in 1 .. l
      BY <2>2 DEF Lists, TypeInv, TypeOK, FrameTypes
    <2>6. ASSUME top[l] # NoVoice
          PROVE  OnList(s, top[l], l) /\ \A i \in 1 .. Len(queue) : Before(s, queue[i], top[l])
      <3>1. /\ OnList(s, top[l], l)
            /\ \A k \in Lists : \A v : k < l /\ OnList(s, v, k) => Before(s, v, top[l])
        BY <1>1, <2>6, TopAhead
      <3> QED BY <2>4, <2>5, <3>1
    <2>7. \A i \in 1 .. Len(queue) : \E k \in 1 .. l : OnList(s, queue[i], k)
      BY <2>4, <2>5
    <2>8. Walking(s)'
      BY <2>1, <2>2, <2>3, <2>6, <2>7 DEF Walking
    <2> QED BY <1>1, <2>1, <2>8 DEF ListInv
  <1> QED BY <1>2, <1>3

(* A step to the voice behind the one at hand, which may have been queued.   *)
LEMMA VisitKeepsLists ==
    ASSUME TypeInv, ListInv, VisitIdle \/ VisitActive
    PROVE  ListInv'
  <1>1. PICK s : Spells(s, top, link) /\ Sorted(s) /\ Walking(s)
    BY DEF ListInv
  <1>2. /\ fr.pc = "walk" /\ fr.cur # NoVoice /\ fr'.list = fr.list
        /\ fr'.pc \in {"walk", "acquire"} /\ UNCHANGED <<top, link>>
        /\ queue' = queue \/ queue' = Append(queue, fr.cur)
    BY DEF VisitIdle, VisitActive, InList, TypeInv, TypeOK, FrameTypes, guest, work
  <1>3. Ahead' = link[fr.cur]
    BY DEF VisitIdle, VisitActive, InList, Ahead, AtVoice, TypeInv, TypeOK, FrameTypes
  <1>4. PICK l \in Lists : l = fr.list /\ l \in 1 .. l
    BY DEF TypeInv, TypeOK, FrameTypes, Lists
  <1>5. Ahead = fr.cur
    BY <1>2 DEF Ahead, AtVoice
  <1>6. /\ OnList(s, fr.cur, l) /\ \A i \in 1 .. Len(queue) : Before(s, queue[i], fr.cur)
        /\ \A i \in 1 .. Len(queue) : \E k \in 1 .. l : OnList(s, queue[i], k)
    BY <1>1, <1>2, <1>4, <1>5 DEF Walking
  <1>7. ASSUME link[fr.cur] # NoVoice
        PROVE  /\ OnList(s, link[fr.cur], l) /\ Before(s, fr.cur, link[fr.cur])
               /\ \A v : Before(s, v, fr.cur) => Before(s, v, link[fr.cur])
    BY <1>1, <1>6, <1>7, NextAhead
  <1>8. ASSUME NEW i \in 1 .. Len(queue')
        PROVE  queue'[i] = fr.cur \/ \E j \in 1 .. Len(queue) : queue'[i] = queue[j]
    <2>1. queue \in Seq(Voices) /\ Len(queue) \in Nat
      BY DEF TypeInv, TypeOK, WorkTypes
    <2>2. CASE queue' = queue
      BY <2>2
    <2>3. CASE queue' = Append(queue, fr.cur)
      <3>1. i \in 1 .. Len(queue) + 1
        BY <2>1, <2>3
      <3>2. queue'[i] = IF i <= Len(queue) THEN queue[i] ELSE fr.cur
        BY <2>1, <2>3, <3>1
      <3>3. i <= Len(queue) => i \in 1 .. Len(queue)
        BY <2>1, <3>1
      <3> QED BY <3>2, <3>3
    <2> QED BY <1>2, <2>2, <2>3
  <1>9. \A i \in 1 .. Len(queue') : \E k \in 1 .. l : OnList(s, queue'[i], k)
    BY <1>4, <1>6, <1>8
  <1>10. link[fr.cur] # NoVoice =>
             /\ OnList(s, link[fr.cur], l)
             /\ \A i \in 1 .. Len(queue') : Before(s, queue'[i], link[fr.cur])
    BY <1>6, <1>7, <1>8
  <1>11. Walking(s)'
    BY <1>2, <1>3, <1>4, <1>9, <1>10 DEF Walking
  <1> QED BY <1>1, <1>2, <1>11 DEF ListInv

(* With its lock, the voice at hand is left for the one read before.         *)
LEMMA TakenKeepsLists ==
    ASSUME TypeInv, ListInv, AcquireTaken
    PROVE  ListInv'
  <1>1. PICK s : Spells(s, top, link) /\ Sorted(s) /\ Walking(s)
    BY DEF ListInv
  <1>2. /\ fr.pc \in AtVoice /\ fr'.pc = "walk" /\ fr'.list = fr.list /\ fr'.cur = fr.nxt
        /\ UNCHANGED <<top, link, queue>>
    BY DEF AcquireTaken, AtVoice, TypeInv, TypeOK, FrameTypes, guest, work
  <1>3. Ahead' = Ahead
    BY <1>2 DEF Ahead, AtVoice
  <1>4. Walking(s)'
    BY <1>1, <1>2, <1>3 DEF Walking
  <1> QED BY <1>1, <1>2, <1>4 DEF ListInv

(* No step disturbs what the lists spell and how far the walk has come.      *)
LEMMA ListsInductive ==
    ASSUME TypeInv, ListInv, CallInv, OutsideInv, [Next]_vars
    PROVE  ListInv'
  <1> USE DEF AtVoice
  <1>1. fr \in [pc : FramePcs, list : Lists, cur : Handles, nxt : Handles, n : Nat]
    BY DEF TypeInv, TypeOK, FrameTypes
  <1>2. ASSUME UNCHANGED <<top, link, queue>>, UNCHANGED fr \/ Wake
        PROVE  ListInv'
    <2>1. /\ fr'.list = fr.list /\ fr'.cur = fr.cur /\ fr'.nxt = fr.nxt
          /\ fr'.pc \in AtVoice <=> fr.pc \in AtVoice
          /\ fr'.pc = "walk" => fr.pc = "walk"
      BY <1>1, <1>2 DEF Wake
    <2> QED BY <1>2, <2>1, ListKept
  <1>3. CASE CpuStep \/ AudioBroadcast
    <2>1. UNCHANGED queue /\ (UNCHANGED fr \/ Wake)
      BY <1>3, CpuFrame DEF work
    <2>2. UNCHANGED <<top, link>> \/ CpuLink \/ GuestService
      BY <1>3 DEF CpuStep, CpuFinish, CpuUnlocks, CpuCall, CpuSet, CpuEdit, CpuClear,
         CpuSignal, CpuVoiceOff, AudioBroadcast, guest
    <2> QED BY <1>2, <2>1, <2>2, LinkKeepsLists, ServiceKeepsLists
  <1>4. CASE AcquireRefused \/ Stall
    <2>1. /\ UNCHANGED <<top, link, queue>>
          /\ fr'.list = fr.list /\ fr'.cur = fr.cur /\ fr'.nxt = fr.nxt
          /\ fr'.pc \in AtVoice /\ fr.pc \in AtVoice /\ fr'.pc # "walk"
      BY <1>1, <1>4 DEF AcquireRefused, Stall, guest, work
    <2> QED BY <2>1, ListKept
  <1>5. CASE Dispatch \/ Deal \/ Await \/ AwaitUnsignalled \/ Finish
    <2>1. UNCHANGED <<top, link>>
      BY <1>5 DEF Dispatch, Deal, Await, AwaitUnsignalled, Finish, guest
    <2>2. fr'.pc \notin AtVoice \cup {"walk"}
      BY <1>5, FramePc DEF Finish, Outside
    <2> QED BY <2>1, <2>2, ListIdle
  <1>6. ASSUME NEW w \in Workers, WorkerStep(w) \/ WorkerUnsignalled(w)
        PROVE  ListInv'
    <2>1. UNCHANGED <<top, link, queue>>
      BY <1>6 DEF WorkerStep, WorkerWoken, WorkerProcess, WorkerFinish, WorkerUnsignalled, guest
    <2>2. UNCHANGED fr \/ fr'.pc = "finish"
      BY <1>1, <1>6 DEF WorkerStep, WorkerWoken, WorkerProcess, WorkerFinish, WorkerUnsignalled,
         WorkerDone
    <2> QED BY <1>2, <2>1, <2>2, ListIdle
  <1>7. CASE UNCHANGED vars
    BY <1>2, <1>7 DEF vars
  <1> QED BY <1>3, <1>4, <1>5, <1>6, <1>7, StartKeepsLists, NextListKeepsLists,
             VisitKeepsLists, TakenKeepsLists, NextCases DEF FrameStep

(* A guest that turns on only voices it has in no list: nobody else puts one *)
(* there before VOICE_ON does.                                               *)
LEMMA CallInductive ==
    ASSUME ~Relink, TypeInv, CallInv, [Next]_vars
    PROVE  CallInv'
  <1>0. cpu \in [pc : {"idle", "set", "link", "edit", "clear", "signal"}, v : Handles,
                 op : {"none", "lock", "unlock", "on", "release"}, keep : BOOLEAN]
    BY DEF TypeInv, TypeOK, GuestTypes
  <1>1. CASE UNCHANGED <<top, link, cpu>>
    BY <1>1 DEF CallInv
  <1>2. CASE cpu'.pc \notin {"set", "link"}
    BY <1>2 DEF CallInv
  <1>3. ASSUME NEW v \in Voices, NEW op \in {"lock", "on", "release", "unlock"}, CpuCall(op, v)
        PROVE  CallInv'
    <2>1. UNCHANGED <<top, link>> /\ cpu'.op = op /\ cpu'.v = v
          /\ (op = "on" => ~Listed(top, link, v)) /\ (cpu'.pc = "link" => op = "on")
      BY <1>3 DEF CpuCall
    <2>2. Listed(top, link, v)' <=> Listed(top, link, v)
      BY <2>1
    <2> QED BY <2>1, <2>2 DEF CallInv
  <1>4. CASE CpuSet
    <2>1. /\ UNCHANGED <<top, link>> /\ cpu.pc = "set"
          /\ cpu'.pc = "link" => cpu.op = "on" /\ cpu'.op = cpu.op /\ cpu'.v = cpu.v
          /\ cpu'.pc # "set"
      BY <1>0, <1>4 DEF CpuSet, Idle
    <2> QED BY <2>1 DEF CallInv
  <1>5. CASE CpuLink \/ CpuEdit \/ CpuClear \/ CpuSignal \/ GuestService
    <2>1. cpu'.pc \notin {"set", "link"}
      BY <1>0, <1>5 DEF CpuLink, CpuEdit, CpuClear, CpuSignal, GuestService, Idle
    <2> QED BY <1>2, <2>1
  <1>6. CASE CpuStep
    BY <1>1, <1>3, <1>4, <1>5, <1>6 DEF CpuStep, CpuFinish, CpuUnlocks, CpuVoiceOff
  <1>7. CASE FrameStep \/ AwaitUnsignalled \/ AudioBroadcast
    BY <1>1, <1>7 DEF FrameStep, AwaitUnsignalled, FrameStart, VisitIdle, VisitActive, AcquireTaken,
       AcquireRefused, Stall, NextList, Dispatch, Deal, Await, Finish, AudioBroadcast, guest
  <1>8. ASSUME NEW w \in Workers, WorkerStep(w) \/ WorkerUnsignalled(w)
        PROVE  CallInv'
    BY <1>1, <1>8 DEF WorkerStep, WorkerWoken, WorkerProcess, WorkerFinish, WorkerUnsignalled,
       guest
  <1>9. CASE UNCHANGED vars
    BY <1>1, <1>9 DEF vars
  <1> QED BY <1>6, <1>7, <1>8, <1>9, NextCases

(* voice_work_enqueue: the voice at hand is behind all that are queued.      *)
LEMMA VisitKeepsQueue ==
    ASSUME TypeInv, ListInv, SortedQueue, VisitActive
    PROVE  SortedQueue'
  <1>1. PICK s : Spells(s, top, link) /\ Sorted(s) /\ Walking(s)
    BY DEF ListInv
  <1>2. /\ fr.pc = "walk" /\ fr.cur # NoVoice /\ queue' = Append(queue, fr.cur)
        /\ queue \in Seq(Voices) /\ Len(queue) \in Nat
    BY DEF VisitActive, InList, TypeInv, TypeOK, WorkTypes
  <1>3. \A i \in 1 .. Len(queue) : Before(s, queue[i], fr.cur)
    BY <1>1, <1>2 DEF Walking, Ahead, AtVoice
  <1>4. \A i \in 1 .. Len(queue) :
            queue[i] # fr.cur /\ (Role[fr.cur] = "plain" => Role[queue[i]] = "plain")
    BY <1>1, <1>3, BeforeMeans DEF Spells
  <1>5. ASSUME NEW i \in 1 .. Len(queue'), NEW j \in 1 .. Len(queue'), i < j
        PROVE  /\ queue'[i] # queue'[j]
               /\ Role[queue'[j]] = "plain" => Role[queue'[i]] = "plain"
    <2>1. /\ i \in 1 .. Len(queue) /\ queue'[i] = queue[i]
          /\ queue'[j] = IF j <= Len(queue) THEN queue[j] ELSE fr.cur
          /\ j <= Len(queue) => j \in 1 .. Len(queue)
      BY <1>2, <1>5
    <2> QED BY <1>4, <1>5, <2>1 DEF SortedQueue
  <1> QED BY <1>5 DEF SortedQueue

(* voice_work_schedule: a plain voice is not dealt after a source.           *)
LEMMA DealKeepsSched ==
    ASSUME TypeInv, SortedQueue, SchedInv, Deal
    PROVE  SchedInv'
  <1>1. /\ fr.pc = "deal" /\ fr'.pc = "deal" /\ fr'.n = fr.n + 1 /\ fr.n \in Nat
        /\ queue' = queue /\ queue \in Seq(Voices) /\ fr.n + 1 \in 1 .. Len(queue)
        /\ sched' = SchedStep(sched, queue[fr.n + 1])
    BY DEF Deal, TypeInv, TypeOK, FrameTypes, WorkTypes
  <1>2. PICK v \in Voices : v = queue[fr.n + 1]
    BY <1>1
  <1>3. /\ sched'.ok = (sched.ok /\ (Role[v] = "multi" \/ Role[v] = "source" \/ ~sched.dirty))
        /\ sched'.dirty = ((sched.dirty /\ ~(Role[v] = "multi")) \/ Role[v] = "source")
    BY <1>1, <1>2 DEF SchedStep
  <1>4. sched.dirty => Role[v] # "plain"
    <2> SUFFICES ASSUME sched.dirty, Role[v] = "plain" PROVE FALSE
      OBVIOUS
    <2>1. PICK i \in 1 .. fr.n : Role[queue[i]] = "source"
      BY DEF SchedInv
    <2>2. i \in 1 .. Len(queue) /\ i < fr.n + 1
      BY <1>1
    <2> QED BY <1>1, <1>2, <2>1, <2>2 DEF SortedQueue
  <1>5. Role[v] \in {"plain", "source", "multi"}
    BY DEF Roles
  <1>6. sched'.ok
    BY <1>3, <1>4, <1>5 DEF SchedInv
  <1>7. sched'.dirty => \E i \in 1 .. fr.n + 1 : Role[queue[i]] = "source"
    <2>1. CASE Role[v] = "source"
      BY <1>1, <1>2, <2>1
    <2>2. ASSUME sched.dirty PROVE \E i \in 1 .. fr.n + 1 : Role[queue[i]] = "source"
      <3>1. PICK i \in 1 .. fr.n : Role[queue[i]] = "source"
        BY <2>2 DEF SchedInv
      <3>2. i \in 1 .. fr.n + 1
        BY <1>1
      <3> QED BY <3>1, <3>2
    <2> QED BY <1>3, <2>1, <2>2
  <1> QED BY <1>1, <1>6, <1>7 DEF SchedInv

(* Every other step keeps the queue in order and the scheduling's locals.    *)
LEMMA QueueInductive ==
    ASSUME TypeInv, ListInv, QueueInv, [Next]_vars
    PROVE  QueueInv'
  <1> USE DEF AtVoice
  <1>0. fr \in [pc : FramePcs, list : Lists, cur : Handles, nxt : Handles, n : Nat]
    BY DEF TypeInv, TypeOK, FrameTypes
  <1>1. ASSUME UNCHANGED <<queue, sched, fr>>
        PROVE  QueueInv'
    BY <1>1 DEF QueueInv, SortedQueue, SchedInv, OutsideInv
  <1>2. ASSUME UNCHANGED <<queue, sched>>, fr.pc # "deal", fr'.pc # "outside"
        PROVE  QueueInv'
    BY <1>2 DEF QueueInv, SortedQueue, SchedInv, OutsideInv
  <1>3. CASE CpuStep \/ AudioBroadcast
    <2>1. UNCHANGED <<queue, sched>> /\ (UNCHANGED fr \/ Wake)
      BY <1>3, CpuFrame DEF work
    <2>2. CASE Wake /\ fr.pc = "stalled"
      BY <1>0, <1>2, <2>1, <2>2 DEF Wake
    <2> QED BY <1>1, <2>1, <2>2 DEF Wake
  <1>4. CASE FrameStart \/ VisitIdle \/ NextList
    <2>1. UNCHANGED <<queue, sched>>
      BY <1>4 DEF FrameStart, VisitIdle, NextList, work
    <2> QED BY <1>2, <1>4, <2>1, FramePc
  <1>5. CASE AcquireTaken \/ AcquireRefused \/ Stall
    BY <1>0, <1>2, <1>5 DEF AcquireTaken, AcquireRefused, Stall, work
  <1>6. CASE VisitActive
    <2>1. SortedQueue'
      BY <1>6, VisitKeepsQueue DEF QueueInv
    <2>2. fr.pc = "walk" /\ fr'.pc = "acquire" /\ UNCHANGED sched
      BY <1>0, <1>6 DEF VisitActive, InList
    <2> QED BY <2>1, <2>2 DEF QueueInv, SchedInv, OutsideInv
  <1>7. CASE Dispatch
    <2>1. /\ UNCHANGED <<queue, sched>> /\ fr.pc = "dispatch"
          /\ fr'.pc = "outside" => queue = <<>> /\ fr'.list = 1
      BY <1>0, <1>7 DEF Dispatch, Outside, work
    <2> QED BY <2>1 DEF QueueInv, SortedQueue, SchedInv, OutsideInv
  <1>8. CASE Deal
    <2>1. SchedInv'
      BY <1>8, DealKeepsSched DEF QueueInv
    <2>2. UNCHANGED queue /\ fr'.pc = "deal"
      BY <1>0, <1>8 DEF Deal
    <2> QED BY <2>1, <2>2 DEF QueueInv, SortedQueue, OutsideInv
  <1>9. CASE Await
    <2>1. UNCHANGED queue /\ fr'.pc = "await" /\ sched'.ok /\ ~sched'.dirty
      BY <1>9 DEF Await, Outside, SchedStart
    <2> QED BY <2>1 DEF QueueInv, SortedQueue, SchedInv, OutsideInv
  <1>10. CASE Finish
    <2>1. queue' = <<>> /\ UNCHANGED sched /\ fr.pc = "finish" /\ fr'.list = 1
      BY <1>10 DEF Finish, Outside
    <2> QED BY <2>1 DEF QueueInv, SortedQueue, SchedInv, OutsideInv
  <1>11. ASSUME NEW w \in Workers, WorkerStep(w) \/ WorkerUnsignalled(w)
         PROVE  QueueInv'
    <2>1. UNCHANGED <<queue, sched>>
      BY <1>11 DEF WorkerStep, WorkerWoken, WorkerProcess, WorkerFinish, WorkerUnsignalled
    <2>2. UNCHANGED fr \/ (fr.pc = "await" /\ fr'.pc = "finish")
      BY <1>0, <1>11 DEF WorkerStep, WorkerWoken, WorkerProcess, WorkerFinish, WorkerUnsignalled,
         WorkerDone
    <2> QED BY <1>1, <1>2, <2>1, <2>2
  <1>12. CASE UNCHANGED vars
    BY <1>1, <1>12 DEF vars
  <1>13. CASE AwaitUnsignalled
    BY <1>2, <1>13, FramePc DEF AwaitUnsignalled, work
  <1> QED BY <1>3, <1>4, <1>5, <1>6, <1>7, <1>8, <1>9, <1>10, <1>11, <1>12, <1>13,
             NextCases DEF FrameStep

(* At first every list is empty, and so is the queue.                        *)
LEMMA ListsInit == Init => ListsInv
  <1> SUFFICES ASSUME Init PROVE ListsInv
    OBVIOUS
  <1>1. PICK s : s = [l \in Lists |-> <<>>]
    OBVIOUS
  <1>2. s \in [Lists -> Seq(Voices)] /\ \A l \in Lists : s[l] = <<>> /\ Len(s[l]) = 0
    BY <1>1
  <1>3. Spells(s, top, link) /\ Sorted(s)
    BY <1>2 DEF Init, Spells, Once, VoiceAt, Sorted
  <1>4. fr.pc = "outside" /\ fr.list = 1 /\ queue = <<>> /\ sched = SchedStart /\ cpu = Idle
    BY DEF Init, Outside
  <1>5. Walking(s)
    BY <1>4 DEF Walking, AtVoice
  <1>6. CallInv
    BY <1>4 DEF CallInv, Idle
  <1>7. QueueInv
    BY <1>4 DEF QueueInv, SortedQueue, SchedInv, OutsideInv, SchedStart
  <1> QED BY <1>3, <1>5, <1>6, <1>7 DEF ListsInv, ListInv

(* QueueAssertsHold: as long as the guest turns on only voices that are in   *)
(* no list, voice_work_enqueue always has room and voice_work_schedule never *)
(* meets a plain voice between the sources of the bin and their multipass    *)
(* voice, although VOICE_ON edits the lists while the frame walks them.      *)
THEOREM QueueAsserts ==
    ASSUME ~Relink
    PROVE  Spec => []QueueAssertsHold
  <1>1. Init => TypeInv /\ ListsInv
    BY TypesInductive, ListsInit
  <1>2. TypeInv /\ ListsInv /\ [Next]_vars => (TypeInv /\ ListsInv)'
    <2> SUFFICES ASSUME TypeInv, ListsInv, [Next]_vars PROVE (TypeInv /\ ListsInv)'
      OBVIOUS
    <2>1. ListInv /\ CallInv /\ QueueInv /\ OutsideInv
      BY DEF ListsInv, QueueInv
    <2>2. TypeInv'
      BY TypesInductive
    <2>3. ListInv' /\ CallInv' /\ QueueInv'
      BY <2>1, ListsInductive, CallInductive, QueueInductive
    <2> QED BY <2>2, <2>3 DEF ListsInv
  <1>3. ASSUME TypeInv, ListsInv PROVE QueueAssertsHold
    <2>1. queue \in Seq(Voices) /\ Len(queue) \in Nat
      BY <1>3 DEF TypeInv, TypeOK, WorkTypes
    <2>2. \A i, j \in 1 .. Len(queue) : queue[i] = queue[j] => i = j
      BY <1>3, <2>1 DEF ListsInv, QueueInv, SortedQueue
    <2>3. Len(queue) <= MaxVoices
      BY <2>1, <2>2, Room
    <2> QED BY <1>3, <2>3 DEF ListsInv, QueueInv, SchedInv, QueueAssertsHold
  <1> QED BY <1>1, <1>2, <1>3, PTL DEF Spec
================================================================================
