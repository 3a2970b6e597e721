--------------------------- MODULE SurfaceCacheProofs ---------------------------
(* For any video memory, targets, sizes and any guest (Careful, Forced,      *)
(* MaskedClears): types, and that surfaces never share memory.  For a        *)
(* careful guest that clears no masked target and leaves what is displayed   *)
(* to the renderer (DisplayKept): that the flags tell which copy is newest,  *)
(* that nobody reads an old one, and that the assertions about bindings and  *)
(* sizes hold.                                                               *)
(*                                                                           *)
(* Every operation of surface.c is a function from states of the cache to    *)
(* states, so the argument is one lemma for each of them: it leads from      *)
(* Sound to Sound.  Sound says that bindings and newest copies are of        *)
(* surfaces that exist and that no two surfaces overlap.  The evictions and  *)
(* the downloads of a list are folds; what one step of a fold keeps, the     *)
(* fold keeps (EvictAllKeeps, DownloadAllKeeps).  The second half goes       *)
(* through the operations again, with Good for Sound: what the flags of      *)
(* every surface say while the CPU is at a cell, and from Calm to Calm: what *)
(* the bindings are between two methods.                                     *)
EXTENDS SurfaceCache, FiniteSetTheorems, NaturalInduction

(* Folds over finite sets.  FoldSet takes some member of what is left; E is  *)
(* the step, as a function, and F the fold of each subset.                   *)
Some(s) == CHOOSE x \in s : TRUE
FoldBody(g, E, F, s) == IF s = {} THEN g ELSE E[<<F[s \ {Some(s)}], Some(s)>>]

IsFold(F, g, E, S) == F = [s \in SUBSET S |-> FoldBody(g, E, F, s)]

(* What is left is smaller.                                                  *)
LEMMA Smaller ==
    ASSUME NEW S, IsFiniteSet(S), NEW s \in SUBSET S, s # {}
    PROVE  /\ Some(s) \in s /\ s \ {Some(s)} \in SUBSET S /\ (s \ {Some(s)}) \cup {Some(s)} = s
           /\ Cardinality(s) \in Nat /\ Cardinality(s \ {Some(s)}) \in Nat
           /\ Cardinality(s \ {Some(s)}) < Cardinality(s)
  <1>1. Some(s) \in s
    BY DEF Some
  <1>2. IsFiniteSet(s)
    BY FS_Subset
  <1>3. IsFiniteSet(s \ {Some(s)}) /\ Cardinality(s \ {Some(s)}) = Cardinality(s) - 1
    BY <1>1, <1>2, FS_RemoveElement
  <1>4. Cardinality(s) \in Nat /\ Cardinality(s \ {Some(s)}) \in Nat
    BY <1>2, <1>3, FS_CardinalityType
  <1> QED BY <1>1, <1>3, <1>4

(* A fold over a finite set is well defined.                                 *)
LEMMA FoldExists ==
    ASSUME NEW S, IsFiniteSet(S), NEW g, NEW E
    PROVE  \E F : IsFold(F, g, E, S)
  <1> DEFINE Good(F, k) == \A s \in SUBSET S : Cardinality(s) <= k => F[s] = FoldBody(g, E, F, s)
             T == {k \in Nat : \E F : Good(F, k)}
             Up(F) == [s \in SUBSET S |-> FoldBody(g, E, F, s)]
  <1> HIDE DEF Up
  <1>0. \A s \in SUBSET S : Cardinality(s) \in Nat
    BY FS_Subset, FS_CardinalityType
  <1>1. ASSUME NEW F, NEW G, NEW s \in SUBSET S,
               s # {} => F[s \ {Some(s)}] = G[s \ {Some(s)}]
        PROVE  FoldBody(g, E, F, s) = FoldBody(g, E, G, s)
    BY <1>1, Zenon DEF FoldBody
  <1>2. ASSUME NEW F, NEW s \in SUBSET S
        PROVE  Up(F)[s] = FoldBody(g, E, F, s)
    BY DEF Up
  <1>3. ASSUME NEW k \in Nat, NEW F,
               \A s \in SUBSET S : Cardinality(s) < k => F[s] = FoldBody(g, E, F, s)
        PROVE  Good(Up(F), k)
    <2>1. ASSUME NEW s \in SUBSET S, Cardinality(s) <= k
          PROVE  Up(F)[s] = FoldBody(g, E, Up(F), s)
      <3>1. ASSUME s # {} PROVE F[s \ {Some(s)}] = Up(F)[s \ {Some(s)}]
        <4>1. /\ s \ {Some(s)} \in SUBSET S /\ Cardinality(s) \in Nat
              /\ Cardinality(s \ {Some(s)}) \in Nat
              /\ Cardinality(s \ {Some(s)}) < Cardinality(s)
          BY <3>1, Smaller
        <4>2. Cardinality(s \ {Some(s)}) < k
          BY <2>1, <4>1
        <4> QED BY <1>2, <1>3, <4>1, <4>2
      <3> QED BY <1>1, <1>2, <3>1
    <2> QED BY <2>1
  <1>4. 0 \in T
    <2>1. \A s \in SUBSET S : ~(Cardinality(s) < 0)
      BY <1>0
    <2>2. Good(Up(<<>>), 0)
      BY <1>3, <2>1
    <2> HIDE DEF Good
    <2> QED BY <2>2
  <1>5. ASSUME NEW k \in Nat, k \in T
        PROVE  k + 1 \in T
    <2>1. PICK F : Good(F, k)
      BY <1>5
    <2>2. \A s \in SUBSET S : Cardinality(s) < k + 1 => F[s] = FoldBody(g, E, F, s)
      BY <1>0, <2>1
    <2>3. Good(Up(F), k + 1)
      BY <1>3, <2>2
    <2> HIDE DEF Good
    <2> QED BY <2>3
  <1>6. Nat \subseteq T
    <2> HIDE DEF T
    <2> QED BY <1>4, <1>5, Induction
  <1>7. Cardinality(S) \in Nat
    BY <1>0
  <1>8. PICK F : Good(F, Cardinality(S))
    BY <1>6, <1>7
  <1>9. ASSUME NEW s \in SUBSET S
        PROVE  F[s] = FoldBody(g, E, F, s)
    <2>1. Cardinality(s) <= Cardinality(S)
      BY FS_Subset
    <2> QED BY <1>8, <2>1
  <1>10. Up(F) = [s \in SUBSET S |-> FoldBody(g, E, Up(F), s)]
    <2>1. ASSUME NEW s \in SUBSET S
          PROVE  FoldBody(g, E, F, s) = FoldBody(g, E, Up(F), s)
      <3>1. ASSUME s # {} PROVE F[s \ {Some(s)}] = Up(F)[s \ {Some(s)}]
        <4>1. s \ {Some(s)} \in SUBSET S
          OBVIOUS
        <4> QED BY <1>2, <1>9, <4>1
      <3> QED BY <1>1, <3>1
    <2> QED BY <2>1 DEF Up
  <1> QED BY <1>10 DEF IsFold

(* What holds at first and is kept from each subset to the next holds at the *)
(* end; G[s] are the states allowed once s has been dealt with.              *)
LEMMA FoldKeeps ==
    ASSUME NEW S, IsFiniteSet(S), NEW G, NEW F, F[{}] \in G[{}],
           \A s \in SUBSET S : s # {} /\ F[s \ {Some(s)}] \in G[s \ {Some(s)}] => F[s] \in G[s]
    PROVE  \A s \in SUBSET S : F[s] \in G[s]
  <1> DEFINE T == {k \in Nat : \A s \in SUBSET S : Cardinality(s) <= k => F[s] \in G[s]}
  <1>0. \A s \in SUBSET S : Cardinality(s) \in Nat /\ (Cardinality(s) = 0 <=> s = {})
    BY FS_Subset, FS_CardinalityType, FS_EmptySet
  <1>2. 0 \in T
    <2>2. \A s \in SUBSET S : Cardinality(s) <= 0 => s = {}
      BY <1>0
    <2> QED BY <2>2
  <1>3. ASSUME NEW k \in Nat, k \in T
        PROVE  k + 1 \in T
    <2>1. ASSUME NEW s \in SUBSET S, Cardinality(s) <= k + 1, s # {}
          PROVE  F[s] \in G[s]
      <3> DEFINE r == s \ {Some(s)}
      <3>1. /\ r \in SUBSET S
            /\ Cardinality(s) \in Nat /\ Cardinality(r) \in Nat /\ Cardinality(r) < Cardinality(s)
        BY <2>1, Smaller
      <3>2. Cardinality(r) <= k
        <4> HIDE DEF r
        <4> QED BY <2>1, <3>1
      <3>3. F[r] \in G[r]
        <4> HIDE DEF r
        <4> QED BY <1>3, <3>1, <3>2
      <3> QED BY <2>1, <3>3
    <2>2. \A s \in SUBSET S : Cardinality(s) <= k + 1 => F[s] \in G[s]
      <3>1. ASSUME NEW s \in SUBSET S, Cardinality(s) <= k + 1
            PROVE  F[s] \in G[s]
        BY <2>1, <3>1
      <3> QED BY <3>1
    <2> QED BY <2>2
  <1>4. Nat \subseteq T
    <2> HIDE DEF T
    <2> QED BY <1>2, <1>3, Induction
  <1>5. ASSUME NEW s \in SUBSET S
        PROVE  F[s] \in G[s]
    <2>1. Cardinality(s) \in T
      <3> HIDE DEF T
      <3> QED BY <1>0, <1>4
    <2>2. Cardinality(s) <= Cardinality(s)
      BY <1>0
    <2> QED BY <2>1, <2>2
  <1> QED BY <1>5

(* ... for the evictions of a set of surfaces,                               *)
LEMMA EvictAllKeeps ==
    ASSUME NEW S, IsFiniteSet(S), NEW g, NEW G, g \in G[{}],
           \A s \in SUBSET S : \A x \in S \ s : \A h \in G[s] : Evict(h, x) \in G[s \cup {x}]
    PROVE  EvictAll(g, S) \in G[S]
  <1> DEFINE U == UNION {G[s] : s \in SUBSET S}
             E == [hx \in U \X S |-> Evict(hx[1], hx[2])]
             Rest(s) == s \ {Some(s)}
             I == CHOOSE F : F = [s \in SUBSET S |->
                                     IF s = {} THEN g ELSE Evict(F[s \ {Some(s)}], Some(s))]
  <1>1. \A h \in U, x \in S : E[<<h, x>>] = Evict(h, x)
    OBVIOUS
  <1> HIDE DEF E
  <1>2. PICK F : IsFold(F, g, E, S)
    BY FoldExists
  <1>3. \A s \in SUBSET S : s # {} =>
            /\ Some(s) \in S /\ Rest(s) \in SUBSET S /\ Some(s) \in S \ Rest(s)
            /\ Rest(s) \cup {Some(s)} = s
    BY Smaller
  <1>4. ASSUME NEW s \in SUBSET S, s # {}, NEW h \in G[Rest(s)]
        PROVE  h \in U /\ Evict(h, Some(s)) \in G[s] /\ E[<<h, Some(s)>>] = Evict(h, Some(s))
    <2>1. /\ Some(s) \in S /\ Rest(s) \in SUBSET S /\ Some(s) \in S \ Rest(s)
          /\ Rest(s) \cup {Some(s)} = s
      BY <1>3, <1>4
    <2> HIDE DEF Rest
    <2>2. h \in U
      BY <1>4, <2>1
    <2>3. Evict(h, Some(s)) \in G[Rest(s) \cup {Some(s)}]
      BY <1>4, <2>1
    <2> HIDE DEF U
    <2> QED BY <1>1, <2>1, <2>2, <2>3
  <1>5. \A s \in SUBSET S : F[s] = FoldBody(g, E, F, s)
    BY <1>2 DEF IsFold
  <1> HIDE DEF U
  <1>6. \A s \in SUBSET S : F[s] \in G[s]
    <2>1. F[{}] \in G[{}]
      BY <1>5 DEF FoldBody
    <2>2. ASSUME NEW s \in SUBSET S, s # {}, F[Rest(s)] \in G[Rest(s)]
          PROVE  F[s] \in G[s]
      <3>1. F[s] = E[<<F[Rest(s)], Some(s)>>]
        BY <1>5, <2>2 DEF FoldBody
      <3> QED BY <1>4, <2>2, <3>1
    <2> QED BY <2>1, <2>2, FoldKeeps
  <1>7. F = [s \in SUBSET S |-> IF s = {} THEN g ELSE Evict(F[s \ {Some(s)}], Some(s))]
    <2>1. ASSUME NEW s \in SUBSET S
          PROVE  FoldBody(g, E, F, s) = IF s = {} THEN g ELSE Evict(F[s \ {Some(s)}], Some(s))
      <3>1. CASE s = {}
        BY <3>1 DEF FoldBody
      <3>2. CASE s # {}
        <4>1. Rest(s) \in SUBSET S
          OBVIOUS
        <4>2. E[<<F[Rest(s)], Some(s)>>] = Evict(F[Rest(s)], Some(s))
          BY <1>4, <1>6, <3>2, <4>1
        <4> QED BY <3>2, <4>2 DEF FoldBody
      <3> QED BY <3>1, <3>2
    <2> QED BY <1>2, <2>1 DEF IsFold
  <1>8. I = [s \in SUBSET S |-> IF s = {} THEN g ELSE Evict(I[s \ {Some(s)}], Some(s))]
    BY <1>7, Zenon
  <1>9. EvictAll(g, S) = I[S]
    BY Zenon DEF EvictAll, FoldSet, MapThenFoldSet, Some
  <1> HIDE DEF I
  <1>10. \A s \in SUBSET S : I[s] \in G[s]
    <2>1. I[{}] \in G[{}]
      BY <1>8
    <2>2. ASSUME NEW s \in SUBSET S, s # {}, I[Rest(s)] \in G[Rest(s)]
          PROVE  I[s] \in G[s]
      <3>1. I[s] = Evict(I[Rest(s)], Some(s))
        BY <1>8, <2>2
      <3> QED BY <1>4, <2>2, <3>1
    <2> QED BY <2>1, <2>2, FoldKeeps
  <1> QED BY <1>9, <1>10
(* ... and for their downloads.                                              *)
LEMMA DownloadAllKeeps ==
    ASSUME NEW S, IsFiniteSet(S), NEW g, NEW G, g \in G[{}],
           \A s \in SUBSET S : \A x \in S \ s : \A h \in G[s] : Download(h, x) \in G[s \cup {x}]
    PROVE  DownloadAll(g, S) \in G[S]
  <1> DEFINE U == UNION {G[s] : s \in SUBSET S}
             E == [hx \in U \X S |-> Download(hx[1], hx[2])]
             Rest(s) == s \ {Some(s)}
             I == CHOOSE F : F = [s \in SUBSET S |->
                                     IF s = {} THEN g ELSE Download(F[s \ {Some(s)}], Some(s))]
  <1>1. \A h \in U, x \in S : E[<<h, x>>] = Download(h, x)
    OBVIOUS
  <1> HIDE DEF E
  <1>2. PICK F : IsFold(F, g, E, S)
    BY FoldExists
  <1>3. \A s \in SUBSET S : s # {} =>
            /\ Some(s) \in S /\ Rest(s) \in SUBSET S /\ Some(s) \in S \ Rest(s)
            /\ Rest(s) \cup {Some(s)} = s
    BY Smaller
  <1>4. ASSUME NEW s \in SUBSET S, s # {}, NEW h \in G[Rest(s)]
        PROVE  h \in U /\ Download(h, Some(s)) \in G[s] /\ E[<<h, Some(s)>>] = Download(h, Some(s))
    <2>1. /\ Some(s) \in S /\ Rest(s) \in SUBSET S /\ Some(s) \in S \ Rest(s)
          /\ Rest(s) \cup {Some(s)} = s
      BY <1>3, <1>4
    <2> HIDE DEF Rest
    <2>2. h \in U
      BY <1>4, <2>1
    <2>3. Download(h, Some(s)) \in G[Rest(s) \cup {Some(s)}]
      BY <1>4, <2>1
    <2> HIDE DEF U
    <2> QED BY <1>1, <2>1, <2>2, <2>3
  <1>5. \A s \in SUBSET S : F[s] = FoldBody(g, E, F, s)
    BY <1>2 DEF IsFold
  <1> HIDE DEF U
  <1>6. \A s \in SUBSET S : F[s] \in G[s]
    <2>1. F[{}] \in G[{}]
      BY <1>5 DEF FoldBody
    <2>2. ASSUME NEW s \in SUBSET S, s # {}, F[Rest(s)] \in G[Rest(s)]
          PROVE  F[s] \in G[s]
      <3>1. F[s] = E[<<F[Rest(s)], Some(s)>>]
        BY <1>5, <2>2 DEF FoldBody
      <3> QED BY <1>4, <2>2, <3>1
    <2> QED BY <2>1, <2>2, FoldKeeps
  <1>7. F = [s \in SUBSET S |-> IF s = {} THEN g ELSE Download(F[s \ {Some(s)}], Some(s))]
    <2>1. ASSUME NEW s \in SUBSET S
          PROVE  FoldBody(g, E, F, s) = IF s = {} THEN g ELSE Download(F[s \ {Some(s)}], Some(s))
      <3>1. CASE s = {}
        BY <3>1 DEF FoldBody
      <3>2. CASE s # {}
        <4>1. Rest(s) \in SUBSET S
          OBVIOUS
        <4>2. E[<<F[Rest(s)], Some(s)>>] = Download(F[Rest(s)], Some(s))
          BY <1>4, <1>6, <3>2, <4>1
        <4> QED BY <3>2, <4>2 DEF FoldBody
      <3> QED BY <3>1, <3>2
    <2> QED BY <1>2, <2>1 DEF IsFold
  <1>8. I = [s \in SUBSET S |-> IF s = {} THEN g ELSE Download(I[s \ {Some(s)}], Some(s))]
    BY <1>7, Zenon
  <1>9. DownloadAll(g, S) = I[S]
    BY Zenon DEF DownloadAll, FoldSet, MapThenFoldSet, Some
  <1> HIDE DEF I
  <1>10. \A s \in SUBSET S : I[s] \in G[s]
    <2>1. I[{}] \in G[{}]
      BY <1>8
    <2>2. ASSUME NEW s \in SUBSET S, s # {}, I[Rest(s)] \in G[Rest(s)]
          PROVE  I[s] \in G[s]
      <3>1. I[s] = Download(I[Rest(s)], Some(s))
        BY <1>8, <2>2
      <3> QED BY <1>4, <2>2, <3>1
    <2> QED BY <2>1, <2>2, FoldKeeps
  <1> QED BY <1>9, <1>10
-------------------------------------------------------------------------------
(* The constants: RAM and no surface are named by numbers past every cell.   *)
LEMMA FiniteIsBounded ==
    ASSUME NEW S \in SUBSET Nat, IsFiniteSet(S)
    PROVE  \E b \in Nat : \A y \in S : y <= b
  <1> DEFINE Below(s) == \E b \in Nat : \A y \in s : y <= b
             F == [s \in SUBSET S |-> s]
             G == [s \in SUBSET S |-> {r \in SUBSET S : Below(r)}]
  <1>1. F[{}] \in G[{}]
    OBVIOUS
  <1>2. ASSUME NEW s \in SUBSET S, s # {}, F[s \ {Some(s)}] \in G[s \ {Some(s)}]
        PROVE  F[s] \in G[s]
    <2>1. PICK b \in Nat : \A y \in s \ {Some(s)} : y <= b
      BY <1>2
    <2>2. Some(s) \in s /\ Some(s) \in Nat
      BY <1>2, Smaller
    <2> DEFINE d == b + Some(s)
    <2>3. d \in Nat /\ Some(s) <= d /\ b <= d
      BY <2>2
    <2>4. \A y \in s : y <= d
      BY <2>1, <2>2, <2>3
    <2> HIDE DEF d
    <2> QED BY <2>3, <2>4
  <1> HIDE DEF F, G
  <1>3. F[S] \in G[S]
    BY <1>1, <1>2, FoldKeeps
  <1> QED BY <1>3 DEF F, G

LEMMA GreatestExists ==
    ASSUME NEW S \in SUBSET Nat, S # {}, IsFiniteSet(S)
    PROVE  Max(S) \in S /\ \A y \in S : y <= Max(S)
  <1> DEFINE B == {b \in Nat : \A y \in S : y <= b}
  <1>1. B # {}
    BY FiniteIsBounded
  <1>2. PICK b \in B : \A c \in B : b <= c
    BY <1>1, WellOrdered
  <1>3. b \in S
    <2> SUFFICES ASSUME b \notin S PROVE FALSE
      OBVIOUS
    <2>1. \A y \in S : y <= b /\ y # b
      OBVIOUS
    <2>2. b # 0 /\ b - 1 \in Nat /\ \A y \in S : y <= b - 1
      <3>1. PICK y \in S : TRUE
        OBVIOUS
      <3>2. b \in Nat /\ y \in Nat /\ y <= b /\ y # b
        BY <2>1
      <3>3. b # 0 /\ b - 1 \in Nat
        BY <3>2
      <3>4. ASSUME NEW z \in S PROVE z <= b - 1
        BY <2>1, <3>3
      <3> QED BY <3>3, <3>4
    <2> QED BY <1>2, <2>2
  <1>4. \E x \in S : \A y \in S : x >= y
    BY <1>3
  <1> QED BY <1>4 DEF Max

LEMMA LeastExists ==
    ASSUME NEW S \in SUBSET Nat, S # {}
    PROVE  Min(S) \in S
  <1>1. \E x \in S : \A y \in S : x <= y
    BY WellOrdered
  <1> QED BY <1>1 DEF Min

LEMMA Constants ==
    /\ Cells \in SUBSET Nat /\ IsFiniteSet(Cells)
    /\ ColorAddrs \in SUBSET Addrs /\ ZetaAddrs \in SUBSET Addrs /\ Addrs \in SUBSET Cells
    /\ IsFiniteSet(Addrs) /\ Addrs \in SUBSET Nat
    /\ Sizes \in SUBSET (Nat \ {0})
    /\ Min(ColorAddrs) \in ColorAddrs /\ Max(ZetaAddrs) \in ZetaAddrs /\ Min(Sizes) \in Sizes
    /\ Ram \in Nat /\ NoAddr \in Nat /\ Ram # NoAddr /\ Ram \notin Cells /\ NoAddr \notin Addrs
  <1>1. /\ Cells \in SUBSET Nat /\ IsFiniteSet(Cells) /\ DisplayCell \in Cells
        /\ ColorAddrs # {} /\ ZetaAddrs # {} /\ Sizes # {}
        /\ Sizes \in SUBSET (Nat \ {0}) /\ Sizes \in SUBSET Nat /\ IsFiniteSet(Sizes)
    BY CellsAssumption
  <1>2. ColorAddrs \in SUBSET Addrs /\ ZetaAddrs \in SUBSET Addrs /\ Addrs \in SUBSET Cells
    BY CellsAssumption DEF Addrs
  <1>3. IsFiniteSet(Addrs) /\ IsFiniteSet(ZetaAddrs) /\ Addrs \in SUBSET Nat
        /\ ColorAddrs \in SUBSET Nat /\ ZetaAddrs \in SUBSET Nat
    <2>1. ZetaAddrs \in SUBSET Cells
      BY <1>2
    <2> QED BY <1>1, <1>2, <2>1, FS_Subset
  <1>4. Min(ColorAddrs) \in ColorAddrs /\ Max(ZetaAddrs) \in ZetaAddrs /\ Min(Sizes) \in Sizes
    BY <1>1, <1>3, LeastExists, GreatestExists
  <1>5. Max(Cells) \in Nat /\ \A c \in Cells : c <= Max(Cells)
    BY <1>1, GreatestExists
  <1>6. Ram \in Nat /\ NoAddr \in Nat /\ Ram # NoAddr
    BY <1>5 DEF Ram, NoAddr
  <1>7. \A c \in Cells : c # Ram /\ c # NoAddr
    BY <1>1, <1>5 DEF Ram, NoAddr
  <1> QED BY <1>1, <1>2, <1>3, <1>4, <1>6, <1>7
-------------------------------------------------------------------------------
(* States of the cache.                                                      *)
Surface == [size : {0} \cup Sizes, color : BOOLEAN, dirty : BOOLEAN, up : BOOLEAN, down : BOOLEAN]
Binding == Addrs \cup {NoAddr}
Checks == {"color", "zeta", "dimensions", "texture", "blit"}
GPU == [surf : [Addrs -> Surface], bind : [color : Binding, zeta : Binding],
        addr : [color : ColorAddrs, zeta : ZetaAddrs], clip : Sizes, last : {0} \cup Sizes,
        stale : SUBSET Parts, drawn : SUBSET Parts,
        fresh : [Cells -> SUBSET ({Ram} \cup Addrs)], bad : SUBSET Checks]

BindSound(g) ==
    /\ g.bind["color"] \in Live(g) \cup {NoAddr}
    /\ g.bind["zeta"] \in Live(g) \cup {NoAddr}
FreshSound(g) == \A c \in Cells : g.fresh[c] \subseteq {Ram} \cup Live(g)
Apart(g) == \A a, b \in Live(g) : a # b => Cover(g, a) \cap Cover(g, b) = {}
Sound == {g \in GPU : BindSound(g) /\ FreshSound(g) /\ Apart(g)}

(* What the lemmas below need of a sound state.                              *)
LEMMA SoundTyped ==
    ASSUME NEW g \in Sound
    PROVE  /\ g \in GPU /\ g.surf \in [Addrs -> Surface]
           /\ g.addr["color"] \in Addrs /\ g.addr["zeta"] \in Addrs /\ g.clip \in Sizes
           /\ g.bind["color"] \in Binding /\ g.bind["zeta"] \in Binding
           /\ Live(g) \in SUBSET Addrs /\ IsFiniteSet(Live(g))
           /\ \A p \in Parts : g.addr[p] \in Addrs /\ (g.bind[p] # NoAddr => g.bind[p] \in Live(g))
  <1>1. g \in GPU /\ Live(g) \in SUBSET Addrs /\ g.surf \in [Addrs -> Surface]
    BY DEF Sound, GPU, Live
  <1>2. IsFiniteSet(Live(g))
    BY <1>1, Constants, FS_Subset
  <1> QED BY <1>1, <1>2, Constants DEF Sound, GPU, BindSound, Parts, Addrs

(* The target registers are as before; so are the sizes of the surfaces.     *)
Alike(g, h) == h.addr = g.addr /\ h.clip = g.clip
SameSize(g, h) == \A a \in Addrs : h.surf[a].size = g.surf[a].size

LEMMA SizeRules ==
    ASSUME NEW g, NEW h, SameSize(g, h)
    PROVE  Live(h) = Live(g) /\ \A a \in Addrs : Cover(h, a) = Cover(g, a)
  BY DEF SameSize, Live, Cover

(* Nothing but flags and copies changes.                                    *)
LEMMA SameSound ==
    ASSUME NEW g \in Sound, NEW h \in GPU, SameSize(g, h), BindSound(h),
           \A c \in Cells : h.fresh[c] \subseteq {Ram} \cup Live(g)
    PROVE  h \in Sound
  <1>1. Live(h) = Live(g) /\ \A a \in Addrs : Cover(h, a) = Cover(g, a)
    BY SizeRules
  <1>2. Apart(h)
    BY <1>1, SoundTyped DEF Sound, Apart
  <1> QED BY <1>1, <1>2 DEF Sound, FreshSound

LEMMA BindRule ==
    ASSUME NEW g \in Sound, NEW h, SameSize(g, h), h.bind = g.bind
    PROVE  BindSound(h)
  BY SizeRules DEF Sound, BindSound

(* Copies and writes.                                                        *)
LEMMA CopySound ==
    ASSUME NEW g \in Sound, NEW cells, NEW from, NEW to \in {Ram} \cup Live(g)
    PROVE  /\ Copy(g, cells, from, to) \in Sound
           /\ Copy(g, cells, from, to).surf = g.surf
           /\ Copy(g, cells, from, to).bind = g.bind
           /\ Alike(g, Copy(g, cells, from, to))
  <1> DEFINE f == [c \in Cells |-> IF c \notin cells THEN g.fresh[c]
                                   ELSE IF from \in g.fresh[c] THEN g.fresh[c] \cup {to}
                                   ELSE g.fresh[c] \ {to}]
             h == Copy(g, cells, from, to)
  <1>1. \A c \in Cells : f[c] \subseteq {Ram} \cup Live(g)
    BY DEF Sound, FreshSound
  <1>2. f \in [Cells -> SUBSET ({Ram} \cup Addrs)]
    BY <1>1, SoundTyped
  <1>3. h = [g EXCEPT !.fresh = f]
    BY DEF Copy
  <1> HIDE DEF f, h
  <1>4. h \in GPU /\ h.fresh = f /\ h.surf = g.surf /\ h.bind = g.bind /\ Alike(g, h)
    BY <1>2, <1>3, SoundTyped DEF GPU, Alike
  <1>5. h \in Sound
    BY <1>1, <1>4, SameSound, BindRule DEF SameSize
  <1> QED BY <1>4, <1>5 DEF h

LEMMA WrittenSound ==
    ASSUME NEW g \in Sound, NEW cells, NEW copy \in {Ram} \cup Live(g)
    PROVE  /\ Written(g, cells, copy) \in Sound
           /\ Written(g, cells, copy).surf = g.surf
           /\ Written(g, cells, copy).bind = g.bind
           /\ Alike(g, Written(g, cells, copy))
  <1> DEFINE f == [c \in Cells |-> IF c \in cells THEN {copy} ELSE g.fresh[c]]
             h == Written(g, cells, copy)
  <1>1. \A c \in Cells : f[c] \subseteq {Ram} \cup Live(g)
    BY DEF Sound, FreshSound
  <1>2. f \in [Cells -> SUBSET ({Ram} \cup Addrs)]
    BY <1>1, SoundTyped
  <1>3. h = [g EXCEPT !.fresh = f]
    BY DEF Written
  <1> HIDE DEF f, h
  <1>4. h \in GPU /\ h.fresh = f /\ h.surf = g.surf /\ h.bind = g.bind /\ Alike(g, h)
    BY <1>2, <1>3, SoundTyped DEF GPU, Alike
  <1>5. h \in Sound
    BY <1>1, <1>4, SameSound, BindRule DEF SameSize
  <1> QED BY <1>4, <1>5 DEF h

(* One surface changes, but not its size.                                  *)
LEMMA SurfaceSound ==
    ASSUME NEW g \in Sound, NEW a \in Addrs, NEW s \in Surface, s.size = g.surf[a].size
    PROVE  /\ [g EXCEPT !.surf[a] = s] \in Sound
           /\ SameSize(g, [g EXCEPT !.surf[a] = s])
           /\ [g EXCEPT !.surf[a] = s].bind = g.bind
           /\ Alike(g, [g EXCEPT !.surf[a] = s])
  <1> DEFINE h == [g EXCEPT !.surf[a] = s]
  <1>1. /\ h \in GPU /\ h.surf = [g.surf EXCEPT ![a] = s] /\ h.fresh = g.fresh
        /\ h.bind = g.bind /\ Alike(g, h)
    BY SoundTyped DEF GPU, Alike
  <1> HIDE DEF h
  <1>2. SameSize(g, h)
    BY <1>1, SoundTyped DEF SameSize
  <1>3. h \in Sound
    BY <1>1, <1>2, SameSound, BindRule DEF Sound, FreshSound
  <1> QED BY <1>1, <1>2, <1>3 DEF h

(* Flags that are set or cleared.                                            *)
LEMMA SurfaceTyped ==
    ASSUME NEW s \in Surface, NEW b \in BOOLEAN
    PROVE  /\ Clean(s) \in Surface /\ Clean(s).size = s.size
           /\ [s EXCEPT !.up = b] \in Surface /\ [s EXCEPT !.up = b].size = s.size
           /\ [s EXCEPT !.down = b] \in Surface /\ [s EXCEPT !.down = b].size = s.size
           /\ [s EXCEPT !.dirty = b] \in Surface /\ [s EXCEPT !.dirty = b].size = s.size
  BY DEF Surface, Clean
-------------------------------------------------------------------------------
(* Downloads and uploads.                                                  *)
LEMMA DownloadSound ==
    ASSUME NEW g \in Sound, NEW a \in Live(g)
    PROVE  /\ Download(g, a) \in Sound /\ SameSize(g, Download(g, a))
           /\ Download(g, a).bind = g.bind /\ Alike(g, Download(g, a))
  <1> DEFINE k == Copy(g, Cover(g, a), a, Ram)
  <1>1. k \in Sound /\ k.surf = g.surf /\ k.bind = g.bind /\ Alike(g, k)
    BY CopySound
  <1> HIDE DEF k
  <1>2. a \in Addrs /\ k.surf[a] \in Surface
    BY <1>1, SoundTyped
  <1>3. Clean(k.surf[a]) \in Surface /\ Clean(k.surf[a]).size = k.surf[a].size
    BY <1>2, SurfaceTyped
  <1>4. Download(g, a) = [k EXCEPT !.surf[a] = Clean(k.surf[a])]
    BY DEF Download, k
  <1> DEFINE h == Download(g, a)
  <1>5. h \in Sound /\ SameSize(k, h) /\ h.bind = k.bind /\ Alike(k, h)
    BY <1>1, <1>2, <1>3, <1>4, SurfaceSound
  <1> QED BY <1>1, <1>5 DEF SameSize, Alike

LEMMA DownloadIfDirtySound ==
    ASSUME NEW g \in Sound, NEW a \in Live(g)
    PROVE  /\ DownloadIfDirty(g, a) \in Sound /\ SameSize(g, DownloadIfDirty(g, a))
           /\ DownloadIfDirty(g, a).bind = g.bind /\ Alike(g, DownloadIfDirty(g, a))
  BY DownloadSound DEF DownloadIfDirty, SameSize, Alike

LEMMA DownloadAllSound ==
    ASSUME NEW g \in Sound, NEW S \in SUBSET Live(g)
    PROVE  DownloadAll(g, S) \in Sound /\ SameSize(g, DownloadAll(g, S))
  <1> DEFINE G == [s \in SUBSET S |-> {h \in Sound : SameSize(g, h)}]
  <1>1. IsFiniteSet(S)
    BY SoundTyped, FS_Subset
  <1>2. g \in G[{}]
    BY DEF SameSize
  <1>3. ASSUME NEW s \in SUBSET S, NEW x \in S \ s, NEW h \in G[s]
        PROVE  Download(h, x) \in G[s \cup {x}]
    <2>1. h \in Sound /\ SameSize(g, h)
      OBVIOUS
    <2>2. x \in Live(h)
      BY <2>1, SizeRules
    <2>3. Download(h, x) \in Sound /\ SameSize(h, Download(h, x))
      BY <2>1, <2>2, DownloadSound
    <2>4. SameSize(g, Download(h, x))
      BY <2>1, <2>3 DEF SameSize
    <2> QED BY <2>3, <2>4
  <1> HIDE DEF G
  <1>4. DownloadAll(g, S) \in G[S]
    BY <1>1, <1>2, <1>3, DownloadAllKeeps
  <1> QED BY <1>4 DEF G

LEMMA UploadSound ==
    ASSUME NEW g \in Sound, NEW a \in Live(g)
    PROVE  Upload(g, a) \in Sound /\ SameSize(g, Upload(g, a)) /\ Upload(g, a).bind = g.bind
  <1>1. CASE g.surf[a].up
    <2> DEFINE k == Copy(g, Cover(g, a), Ram, a)
    <2>1. k \in Sound /\ k.surf = g.surf /\ k.bind = g.bind
      BY CopySound
    <2> HIDE DEF k
    <2>2. a \in Addrs /\ k.surf[a] \in Surface
      BY <2>1, SoundTyped
    <2> DEFINE t == [k.surf[a] EXCEPT !.up = FALSE]
    <2>3. t \in Surface /\ t.size = k.surf[a].size
      BY <2>2, SurfaceTyped
    <2>4. Upload(g, a) = [k EXCEPT !.surf[a] = t]
      BY <1>1 DEF Upload, k
    <2> HIDE DEF t
    <2> DEFINE h == Upload(g, a)
    <2>5. h \in Sound /\ SameSize(k, h) /\ h.bind = k.bind
      BY <2>1, <2>2, <2>3, <2>4, SurfaceSound
    <2> QED BY <2>1, <2>5 DEF SameSize
  <1>2. CASE ~g.surf[a].up
    BY <1>2 DEF Upload, SameSize
  <1> QED BY <1>1, <1>2
-------------------------------------------------------------------------------
(* Evictions.                                                              *)
LEMMA InvalidateSound ==
    ASSUME NEW g \in Sound, NEW a \in Addrs
    PROVE  /\ Invalidate(g, a) \in Sound
           /\ \A b \in Addrs : Invalidate(g, a).surf[b].size = IF b = a THEN 0 ELSE g.surf[b].size
           /\ Alike(g, Invalidate(g, a))
  <1> DEFINE h == Invalidate(g, a)
             f == [c \in Cells |-> g.fresh[c] \ {a}]
             bad == g.bad \cup {p \in Parts : g.bind[p] = a /\ p \notin g.stale}
             left == [color |-> OtherThan(a, g.bind.color), zeta |-> OtherThan(a, g.bind.zeta)]
  <1>1. Absent \in Surface /\ Absent.size = 0
    BY DEF Absent, Surface
  <1>2. f \in [Cells -> SUBSET ({Ram} \cup Addrs)] /\ bad \in SUBSET Checks
    BY SoundTyped DEF GPU, Parts, Checks
  <1>3. /\ left \in [color : Binding, zeta : Binding]
        /\ left["color"] \in {g.bind["color"], NoAddr} \ {a}
        /\ left["zeta"] \in {g.bind["zeta"], NoAddr} \ {a}
    BY SoundTyped, Constants DEF Binding, OtherThan
  <1> HIDE DEF f, bad, left
  <1>4. h = [g EXCEPT !.bad = bad, !.bind = left, !.surf[a] = Absent, !.fresh = f]
    BY DEF Invalidate, f, bad, left
  <1> HIDE DEF h
  <1>5. /\ h.surf = [g.surf EXCEPT ![a] = Absent] /\ h.fresh = f /\ h.bind = left
        /\ h.addr = g.addr /\ h.clip = g.clip /\ h \in GPU
    BY <1>1, <1>2, <1>3, <1>4, SoundTyped, ZenonT(30) DEF GPU
  <1>6. \A b \in Addrs : h.surf[b].size = IF b = a THEN 0 ELSE g.surf[b].size
    BY <1>1, <1>5, SoundTyped
  <1>7. Live(h) = Live(g) \ {a} /\ \A b \in Live(h) : Cover(h, b) = Cover(g, b)
    BY <1>6 DEF Live, Cover
  <1>8. BindSound(h)
    BY <1>3, <1>5, <1>7 DEF Sound, BindSound
  <1>9. FreshSound(h)
    BY <1>5, <1>7 DEF Sound, FreshSound, f
  <1>10. Apart(h)
    BY <1>7 DEF Sound, Apart
  <1> QED BY <1>5, <1>6, <1>8, <1>9, <1>10 DEF Sound, Alike, h

LEMMA EvictSound ==
    ASSUME NEW g \in Sound, NEW a \in Live(g)
    PROVE  /\ Evict(g, a) \in Sound
           /\ \A b \in Addrs : Evict(g, a).surf[b].size = IF b = a THEN 0 ELSE g.surf[b].size
           /\ Alike(g, Evict(g, a))
  <1> DEFINE k == DownloadIfDirty(g, a)
  <1>1. k \in Sound /\ SameSize(g, k) /\ Alike(g, k)
    BY DownloadIfDirtySound
  <1>2. a \in Addrs
    BY SoundTyped
  <1> HIDE DEF k
  <1>3. /\ Invalidate(k, a) \in Sound /\ Alike(k, Invalidate(k, a))
        /\ \A b \in Addrs : Invalidate(k, a).surf[b].size = IF b = a THEN 0 ELSE k.surf[b].size
    BY <1>1, <1>2, InvalidateSound
  <1>4. Evict(g, a) = Invalidate(k, a)
    BY DEF Evict, k
  <1> QED BY <1>1, <1>3, <1>4 DEF SameSize, Alike

LEMMA EvictAllSound ==
    ASSUME NEW g \in Sound, NEW S \in SUBSET Live(g)
    PROVE  /\ EvictAll(g, S) \in Sound
           /\ \A b \in Addrs : EvictAll(g, S).surf[b].size = IF b \in S THEN 0 ELSE g.surf[b].size
           /\ Alike(g, EvictAll(g, S))
  <1> DEFINE Left(h, s) == \A b \in Addrs : h.surf[b].size = IF b \in s THEN 0 ELSE g.surf[b].size
             G == [s \in SUBSET S |-> {h \in Sound : Left(h, s) /\ Alike(g, h)}]
  <1>1. IsFiniteSet(S)
    BY SoundTyped, FS_Subset
  <1>2. g \in G[{}]
    BY DEF Alike
  <1>3. ASSUME NEW s \in SUBSET S, NEW x \in S \ s, NEW h \in G[s]
        PROVE  Evict(h, x) \in G[s \cup {x}]
    <2>1. h \in Sound /\ Left(h, s) /\ Alike(g, h)
      OBVIOUS
    <2>2. x \in Live(h)
      BY <2>1 DEF Live
    <2>3. /\ Evict(h, x) \in Sound /\ Alike(h, Evict(h, x))
          /\ \A b \in Addrs : Evict(h, x).surf[b].size = IF b = x THEN 0 ELSE h.surf[b].size
      BY <2>1, <2>2, EvictSound
    <2>4. Left(Evict(h, x), s \cup {x}) /\ Alike(g, Evict(h, x))
      BY <2>1, <2>3 DEF Alike
    <2> HIDE DEF Left
    <2>5. s \cup {x} \in SUBSET S
      OBVIOUS
    <2> QED BY <2>3, <2>4, <2>5
  <1> HIDE DEF G
  <1>4. EvictAll(g, S) \in G[S]
    BY <1>1, <1>2, <1>3, EvictAllKeeps
  <1> QED BY <1>4 DEF G
-------------------------------------------------------------------------------
(* surface_put makes room first, so the new surface overlaps no other.       *)
LEMMA PutSound ==
    ASSUME NEW g \in Sound, NEW a \in Addrs, NEW n \in Sizes, NEW color \in BOOLEAN
    PROVE  /\ Put(g, a, n, color) \in Sound /\ a \in Live(Put(g, a, n, color))
           /\ Alike(g, Put(g, a, n, color))
  <1> DEFINE O == Overlapping(g, Span(a, n))
             k == EvictAll(g, O)
             s == [size |-> n, color |-> color, dirty |-> FALSE, up |-> TRUE, down |-> FALSE]
             h == Put(g, a, n, color)
  <1>1. O \in SUBSET Live(g)
    BY DEF Overlapping
  <1>2. /\ k \in Sound /\ Alike(g, k)
        /\ \A b \in Addrs : k.surf[b].size = IF b \in O THEN 0 ELSE g.surf[b].size
    <2> HIDE DEF O
    <2> QED BY <1>1, EvictAllSound
  <1>3. s \in Surface /\ s.size = n
    BY DEF Surface
  <1>4. h = [k EXCEPT !.surf[a] = s]
    BY DEF Put
  <1> HIDE DEF k, s, h
  <1>5. /\ h.surf = [k.surf EXCEPT ![a] = s] /\ h.fresh = k.fresh /\ h.bind = k.bind
        /\ Alike(k, h) /\ h \in GPU
    BY <1>2, <1>3, <1>4, SoundTyped, ZenonT(30) DEF GPU, Alike
  <1>6. \A b \in Addrs : h.surf[b].size = IF b = a THEN n ELSE k.surf[b].size
    BY <1>2, <1>3, <1>5, SoundTyped
  <1>7. n # 0
    BY Constants
  <1>8. Live(h) = Live(k) \cup {a}
    BY <1>6, <1>7 DEF Live
  <1>9. Cover(h, a) = Span(a, n) /\ \A b \in Live(h) : b # a => Cover(h, b) = Cover(k, b)
    BY <1>6, <1>8 DEF Cover, Live
  <1>10. ASSUME NEW b \in Live(k), b # a
         PROVE  Cover(k, b) \cap Span(a, n) = {}
    <2>1. b \in Addrs /\ k.surf[b].size # 0
      BY DEF Live
    <2>2. b \notin O /\ b \in Live(g) /\ Cover(k, b) = Cover(g, b)
      <3> HIDE DEF O
      <3> QED BY <1>2, <2>1 DEF Live, Cover
    <2> QED BY <2>2 DEF Overlapping
  <1>11. Apart(h)
    <2>1. ASSUME NEW b \in Live(h), NEW c \in Live(h), b # c
          PROVE  Cover(h, b) \cap Cover(h, c) = {}
      <3>1. CASE b = a
        BY <1>8, <1>9, <1>10, <2>1, <3>1
      <3>2. CASE c = a
        BY <1>8, <1>9, <1>10, <2>1, <3>2
      <3>3. CASE b # a /\ c # a
        BY <1>2, <1>8, <1>9, <2>1, <3>3 DEF Sound, Apart
      <3> QED BY <3>1, <3>2, <3>3
    <2> QED BY <2>1 DEF Apart
  <1>12. BindSound(h) /\ FreshSound(h)
    BY <1>2, <1>5, <1>8 DEF Sound, BindSound, FreshSound
  <1> QED BY <1>2, <1>5, <1>8, <1>11, <1>12 DEF Sound, Alike, h

(* A binding to a surface that exists, or to none.                         *)
LEMMA BindingSound ==
    ASSUME NEW g \in Sound, NEW p \in Parts, NEW b \in Live(g) \cup {NoAddr}
    PROVE  /\ [g EXCEPT !.bind[p] = b] \in Sound
           /\ [g EXCEPT !.bind[p] = b].surf = g.surf
           /\ [g EXCEPT !.bind[p] = b].stale = g.stale
           /\ Alike(g, [g EXCEPT !.bind[p] = b])
  <1> DEFINE h == [g EXCEPT !.bind[p] = b]
  <1>1. b \in Binding
    BY SoundTyped DEF Binding
  <1>2. /\ h \in GPU /\ h.surf = g.surf /\ h.fresh = g.fresh /\ Alike(g, h) /\ h.stale = g.stale
        /\ h.bind["color"] \in {g.bind["color"], b} /\ h.bind["zeta"] \in {g.bind["zeta"], b}
    BY <1>1, SoundTyped DEF GPU, Alike, Parts
  <1> HIDE DEF h
  <1>3. SameSize(g, h)
    BY <1>2 DEF SameSize
  <1>4. BindSound(h)
    BY <1>2, <1>3, SizeRules DEF Sound, BindSound
  <1>5. h \in Sound
    BY <1>2, <1>3, <1>4, SameSound DEF Sound, FreshSound
  <1> QED BY <1>2, <1>5 DEF h

LEMMA UnbindSound ==
    ASSUME NEW g \in Sound, NEW p \in Parts
    PROVE  Unbind(g, p) \in Sound /\ Alike(g, Unbind(g, p)) /\ Unbind(g, p).surf = g.surf
  BY BindingSound DEF Unbind

LEMMA FreedSound ==
    ASSUME NEW g \in Sound, NEW p \in Parts
    PROVE  Freed(g, p) \in Sound /\ Alike(g, Freed(g, p))
  <1>1. Other(p) \in Parts
    BY DEF Other, Parts
  <1>2. Unbind(g, p) \in Sound /\ Alike(g, Unbind(g, p))
    BY UnbindSound
  <1>3. /\ Unbind(Unbind(g, p), Other(p)) \in Sound
        /\ Alike(Unbind(g, p), Unbind(Unbind(g, p), Other(p)))
    BY <1>1, <1>2, UnbindSound
  <1> QED BY <1>2, <1>3 DEF Freed, Alike

(* Registers and marks that say nothing of surfaces.                       *)
LEMMA MarksSound ==
    ASSUME NEW g \in Sound, NEW h \in GPU, h.surf = g.surf, h.bind = g.bind, h.fresh = g.fresh
    PROVE  h \in Sound
  <1>1. SameSize(g, h)
    BY DEF SameSize
  <1> QED BY <1>1, SameSound, BindRule DEF Sound, FreshSound

LEMMA AttachSound ==
    ASSUME NEW g \in Sound, NEW p \in Parts, NEW z \in BOOLEAN, g.addr[p] \in Live(g)
    PROVE  Attach(g, p, z) \in Sound
  <1> DEFINE k == [g EXCEPT !.bind[p] = g.addr[p]]
             t == (g.stale \cup (IF z THEN {"zeta"} ELSE {})) \ {p}
             h == Attach(g, p, z)
  <1>1. k \in Sound /\ k.stale = g.stale
    BY BindingSound
  <1>2. t \in SUBSET Parts
    BY SoundTyped DEF GPU, Parts
  <1> HIDE DEF t
  <1>3. h = [g EXCEPT !.bind[p] = g.addr[p], !.stale = t]
    BY DEF Attach, t
  <1> HIDE DEF h
  <1>4. h = [k EXCEPT !.stale = t]
    BY <1>3, SoundTyped DEF GPU
  <1> HIDE DEF k
  <1>5. h \in GPU /\ h.surf = k.surf /\ h.bind = k.bind /\ h.fresh = k.fresh
    BY <1>1, <1>2, <1>4, SoundTyped DEF GPU
  <1> QED BY <1>1, <1>5, MarksSound DEF h

(* update_surface_part, with what it evicts.                                 *)
LEMMA RebindAtSound ==
    ASSUME NEW g \in Sound, NEW p \in Parts, NEW n \in Sizes
    PROVE  RebindAt(g, p, n) \in Sound
  <1> DEFINE a == g.addr[p]
  <1>1. a \in Addrs
    BY SoundTyped
  <1>2. CASE a \in Live(g) /\ Compatible(g, p, n)
    BY <1>2, AttachSound DEF RebindAt
  <1>3. CASE ~(a \in Live(g) /\ Compatible(g, p, n))
    <2> DEFINE k == EvictAll(g, {a} \cap Live(g))
               h == Put(k, a, n, p = "color")
    <2>1. k \in Sound /\ Alike(g, k)
      BY EvictAllSound
    <2> HIDE DEF k
    <2>2. h \in Sound /\ a \in Live(h) /\ Alike(k, h)
      BY <1>1, <2>1, PutSound
    <2> HIDE DEF h
    <2>3. h.addr[p] \in Live(h)
      BY <2>1, <2>2 DEF Alike
    <2>4. AttachNew(h, p, n) \in Sound
      BY <2>2, <2>3, AttachSound DEF AttachNew
    <2>5. RebindAt(g, p, n) = AttachNew(h, p, n)
      BY <1>3 DEF RebindAt, h, k
    <2> QED BY <2>4, <2>5
  <1> QED BY <1>2, <1>3

LEMMA UpdatePartSound ==
    ASSUME NEW g \in Sound, NEW upload \in BOOLEAN, NEW p \in Parts
    PROVE  UpdatePart(g, upload, p) \in Sound
  <1>1. TargetSize(g, p) \in Sizes
    <2>1. g.clip \in Sizes /\ (g.bind["color"] # NoAddr => g.bind["color"] \in Live(g))
      BY SoundTyped DEF Parts
    <2>2. \A a \in Live(g) : g.surf[a].size \in Sizes
      BY SoundTyped DEF Live, Surface
    <2> QED BY <2>1, <2>2 DEF TargetSize
  <1>2. Freed(g, p) \in Sound
    BY FreedSound
  <1>3. Rebind(g, p) \in Sound
    BY <1>1, <1>2, RebindAtSound DEF Rebind
  <1> DEFINE k == Refresh(g, upload, p)
             d == IF upload THEN k.drawn ELSE k.drawn \ {p}
             h == UpdatePart(g, upload, p)
  <1>4. k \in Sound
    BY <1>3 DEF Refresh
  <1> HIDE DEF k
  <1>5. d \in SUBSET Parts
    BY <1>4, SoundTyped DEF GPU
  <1>6. h = [k EXCEPT !.drawn = d]
    BY DEF UpdatePart, k
  <1> HIDE DEF d, h
  <1>7. h \in GPU /\ h.surf = k.surf /\ h.bind = k.bind /\ h.fresh = k.fresh
    BY <1>4, <1>5, <1>6, SoundTyped DEF GPU
  <1> QED BY <1>4, <1>7, MarksSound DEF h

(* pgraph_vk_surface_update, the checks of readers, draws and blits.         *)
LEMMA UploadPartSound ==
    ASSUME NEW g \in Sound, NEW p \in Parts
    PROVE  UploadPart(g, p) \in Sound
  BY SoundTyped, UploadSound DEF UploadPart

LEMMA FailureSound ==
    ASSUME NEW g \in Sound, NEW check \in Checks
    PROVE  [g EXCEPT !.bad = g.bad \cup {check}] \in Sound
  <1> DEFINE h == [g EXCEPT !.bad = g.bad \cup {check}]
  <1>1. h \in GPU /\ h.surf = g.surf /\ h.bind = g.bind /\ h.fresh = g.fresh
    BY SoundTyped DEF GPU
  <1> QED BY <1>1, MarksSound

LEMMA MatchDimsSound ==
    ASSUME NEW g \in Sound
    PROVE  MatchDims(g) \in Sound
  BY FailureSound DEF MatchDims, Checks

LEMMA CheckSound ==
    ASSUME NEW g \in Sound, NEW cells, NEW copy, NEW reader \in Checks
    PROVE  Check(g, cells, copy, reader) \in Sound
  BY FailureSound DEF Check

LEMMA UpdateForDrawSound ==
    ASSUME NEW g \in Sound, NEW writes \in SUBSET Parts
    PROVE  UpdateForDraw(g, writes) \in Sound
  <1> DEFINE Step(h, p) == PartForDraw(UnbindStale(h, p), writes, p)
  <1>1. Reshape(g) \in Sound
    <2> DEFINE h == [g EXCEPT !.last = g.clip, !.stale = Parts]
    <2>1. h \in GPU /\ h.surf = g.surf /\ h.bind = g.bind /\ h.fresh = g.fresh
      BY SoundTyped DEF GPU
    <2>2. h \in Sound
      BY <2>1, MarksSound
    <2> QED BY <2>2 DEF Reshape
  <1>2. ASSUME NEW h \in Sound, NEW p \in Parts
        PROVE  Step(h, p) \in Sound
    <2>1. UnbindStale(h, p) \in Sound
      BY UnbindSound DEF UnbindStale
    <2> QED BY <2>1, UpdatePartSound DEF PartForDraw
  <1>3. "color" \in Parts /\ "zeta" \in Parts
    BY DEF Parts
  <1>4. Step(Step(Reshape(g), "color"), "zeta") \in Sound
    <2> HIDE DEF Step
    <2> QED BY <1>1, <1>2, <1>3
  <1>5. UploadBound(Step(Step(Reshape(g), "color"), "zeta")) \in Sound
    <2> HIDE DEF Step
    <2> QED BY <1>3, <1>4, UploadPartSound DEF UploadBound
  <1> QED BY <1>5, MatchDimsSound DEF UpdateForDraw

LEMMA UpdateNoUploadSound ==
    ASSUME NEW g \in Sound, NEW on
    PROVE  UpdateNoUpload(g, on) \in Sound
  <1> DEFINE Step(h, p) == IF p \in h.drawn \cap on THEN UpdatePart(h, FALSE, p) ELSE h
  <1>1. ASSUME NEW h \in Sound, NEW p \in Parts
        PROVE  Step(h, p) \in Sound
    BY UpdatePartSound
  <1>2. "color" \in Parts /\ "zeta" \in Parts
    BY DEF Parts
  <1>3. Step(Step(g, "color"), "zeta") \in Sound
    <2> HIDE DEF Step
    <2> QED BY <1>1, <1>2
  <1> QED BY <1>3, MatchDimsSound DEF UpdateNoUpload

LEMMA ExpiredSound ==
    ASSUME NEW g \in Sound, NEW h \in Expired(g)
    PROVE  h \in Sound
  <1>1. PICK old \in SUBSET (Live(g) \ Bound(g)) : h = EvictAll(g, old)
    BY DEF Expired
  <1> QED BY <1>1, EvictAllSound

LEMMA MarkSound ==
    ASSUME NEW g \in Sound, NEW p \in Parts
    PROVE  Mark(g, p) \in Sound
  <1> DEFINE a == g.bind[p]
  <1>1. CASE a = NoAddr
    <2> DEFINE h == [g EXCEPT !.drawn = g.drawn \cup {p}]
    <2>1. h \in GPU /\ h.surf = g.surf /\ h.bind = g.bind /\ h.fresh = g.fresh
      BY SoundTyped DEF GPU
    <2>2. h \in Sound
      BY <2>1, MarksSound
    <2> QED BY <1>1, <2>2 DEF Mark
  <1>2. CASE a # NoAddr
    <2>1. a \in Live(g) /\ a \in Addrs
      BY <1>2, SoundTyped
    <2> DEFINE k == Written(g, Span(a, g.clip), a)
    <2>2. k \in Sound
      BY <2>1, WrittenSound
    <2> HIDE DEF k
    <2> DEFINE d == k.drawn \cup {p}
               j == [k EXCEPT !.drawn = d]
    <2>3. d \in SUBSET Parts
      BY <2>2, SoundTyped DEF GPU
    <2> HIDE DEF d
    <2>4. j \in GPU /\ j.surf = k.surf /\ j.bind = k.bind /\ j.fresh = k.fresh
      BY <2>2, <2>3, SoundTyped DEF GPU
    <2>5. j \in Sound
      BY <2>2, <2>4, MarksSound
    <2> DEFINE t == [k.surf[a] EXCEPT !.dirty = TRUE]
    <2>6. t \in Surface /\ t.size = j.surf[a].size
      <3>1. k.surf[a] \in Surface
        BY <2>1, <2>2, SoundTyped
      <3>2. t \in Surface /\ t.size = k.surf[a].size
        BY <3>1, SurfaceTyped
      <3> QED BY <2>4, <3>2
    <2>7. Mark(g, p) = [k EXCEPT !.drawn = d, !.surf[a] = t]
      BY <1>2 DEF Mark, k, d
    <2> HIDE DEF t
    <2>8. Mark(g, p) = [j EXCEPT !.surf[a] = t]
      BY <2>2, <2>7, SoundTyped DEF GPU
    <2> HIDE DEF j
    <2> QED BY <2>1, <2>5, <2>6, <2>8, SurfaceSound
  <1> QED BY <1>1, <1>2

LEMMA MarkDrawnSound ==
    ASSUME NEW g \in Sound, NEW writes
    PROVE  MarkDrawn(g, writes) \in Sound
  <1> DEFINE Step(h, p) == IF p \in writes THEN Mark(h, p) ELSE h
  <1>1. ASSUME NEW h \in Sound, NEW p \in Parts
        PROVE  Step(h, p) \in Sound
    BY MarkSound
  <1>2. "color" \in Parts /\ "zeta" \in Parts
    BY DEF Parts
  <1>3. Step(Step(g, "color"), "zeta") \in Sound
    <2> HIDE DEF Step
    <2> QED BY <1>1, <1>2
  <1> QED BY <1>3 DEF MarkDrawn

(* What a clear writes without marking it.                                   *)
LEMMA WipePartsSound ==
    ASSUME NEW g \in Sound, NEW ps
    PROVE  WipeParts(g, ps) \in Sound
  <1> DEFINE Step(h, p) == IF p \in ps THEN Wipe(h, p) ELSE h
  <1>1. ASSUME NEW h \in Sound, NEW p \in Parts
        PROVE  Step(h, p) \in Sound
    <2>1. CASE h.bind[p] = NoAddr
      BY <2>1 DEF Wipe
    <2>2. CASE h.bind[p] # NoAddr
      <3>1. h.bind[p] \in Live(h)
        BY <2>2, SoundTyped
      <3>2. Written(h, Span(h.bind[p], h.clip), h.bind[p]) \in Sound
        BY <3>1, WrittenSound
      <3> QED BY <2>2, <3>2 DEF Wipe
    <2> QED BY <2>1, <2>2
  <1>2. "color" \in Parts /\ "zeta" \in Parts
    BY DEF Parts
  <1>3. Step(Step(g, "color"), "zeta") \in Sound
    <2> HIDE DEF Step
    <2> QED BY <1>1, <1>2
  <1> QED BY <1>3 DEF WipeParts

LEMMA BlitDestSound ==
    ASSUME NEW g \in Sound, NEW a, NEW n
    PROVE  BlitDest(g, a, n) \in Sound
  <1>1. CASE a \in Live(g)
    <2> DEFINE k == Remains(g, a, n)
               t == [k.surf[a] EXCEPT !.up = TRUE]
    <2>1. a \in Addrs /\ g.surf[a] \in Surface
      BY <1>1, SoundTyped
    <2>2. [g EXCEPT !.surf[a] = Clean(g.surf[a])] \in Sound
      BY <2>1, SurfaceTyped, SurfaceSound
    <2>3. k \in Sound
      BY <1>1, <2>2, DownloadIfDirtySound DEF Remains
    <2> HIDE DEF k
    <2>4. t \in Surface /\ t.size = k.surf[a].size
      BY <2>1, <2>3, SoundTyped, SurfaceTyped
    <2>5. BlitDest(g, a, n) = [k EXCEPT !.surf[a] = t]
      BY <1>1 DEF BlitDest, k
    <2> HIDE DEF t
    <2> QED BY <2>1, <2>3, <2>4, <2>5, SurfaceSound
  <1>2. CASE a \notin Live(g)
    BY <1>2 DEF BlitDest
  <1> QED BY <1>1, <1>2
-------------------------------------------------------------------------------
(* The inductive invariant: what the interface is about to ask for exists.   *)
CpuType == [pc : {"idle", "ask", "wait", "access"}, cell : Nat, write : BOOLEAN]
UiType  == [pc : {"idle", "ask", "wait"}, a : Binding]

IInv ==
    /\ gpu \in Sound /\ req \in BOOLEAN /\ evt \in BOOLEAN /\ pf \in {"idle", "downloaded"}
    /\ cpu \in CpuType /\ ui \in UiType
    /\ ui.pc = "ask" => ui.a \in Live(gpu)

(* Each action keeps it.                                                     *)
LEMMA InitInv == Init => IInv
  <1> SUFFICES ASSUME Init PROVE IInv
    OBVIOUS
  <1>1. Absent \in Surface /\ Absent.size = 0
    BY DEF Absent, Surface
  <1>2. /\ gpu \in GPU /\ gpu.surf = [a \in Addrs |-> Absent]
        /\ gpu.bind["color"] = NoAddr /\ gpu.bind["zeta"] = NoAddr
        /\ gpu.fresh = [c \in Cells |-> {Ram}]
    BY <1>1, Constants DEF Init, GPU, Binding
  <1>3. Live(gpu) = {}
    BY <1>1, <1>2 DEF Live
  <1>4. gpu \in Sound
    BY <1>2, <1>3 DEF Sound, BindSound, FreshSound, Apart
  <1>5. cpu \in CpuType /\ ui \in UiType
    BY DEF Init, CpuType, UiType, Binding
  <1> QED BY <1>4, <1>5 DEF Init, IInv

LEMMA SettleInv ==
    ASSUME IInv, NEW g \in Sound, Settle(g)
    PROVE  IInv'
  BY DEF IInv, Settle

LEMMA MethodInv == IInv /\ Method => IInv'
  <1> SUFFICES ASSUME IInv, Method PROVE IInv'
    OBVIOUS
  <1>0. gpu \in Sound
    BY DEF IInv
  <1>1. ASSUME NEW p \in Parts, NEW a \in Addrs, NEW on, SetOffset(p, a, on),
               p = "color" => a \in ColorAddrs, p = "zeta" => a \in ZetaAddrs
        PROVE  IInv'
    <2>1. PICK g \in Expired(UpdateNoUpload(gpu, on)) : Settle(Moved(g, p, a))
      BY <1>1 DEF SetOffset
    <2>2. g \in Sound
      BY <1>0, UpdateNoUploadSound, ExpiredSound
    <2> DEFINE h == Moved(g, p, a)
    <2>3. h \in GPU /\ h.surf = g.surf /\ h.bind = g.bind /\ h.fresh = g.fresh
      BY <1>1, <2>2, SoundTyped DEF Moved, GPU, Parts
    <2> HIDE DEF h
    <2>4. h \in Sound
      BY <2>2, <2>3, MarksSound
    <2> QED BY <2>1, <2>4, SettleInv DEF h
  <1>2. ASSUME NEW n \in Sizes, NEW on, SetClip(n, on)
        PROVE  IInv'
    <2>1. PICK g \in Expired(UpdateNoUpload(gpu, on)) : Settle([g EXCEPT !.clip = n])
      BY <1>2 DEF SetClip
    <2>2. g \in Sound
      BY <1>0, UpdateNoUploadSound, ExpiredSound
    <2> DEFINE h == [g EXCEPT !.clip = n]
    <2>3. h \in GPU /\ h.surf = g.surf /\ h.bind = g.bind /\ h.fresh = g.fresh
      BY <2>2, SoundTyped DEF GPU
    <2>4. h \in Sound
      BY <2>2, <2>3, MarksSound
    <2> QED BY <2>1, <2>4, SettleInv
  <1>3. ASSUME NEW a, NEW b, NEW n, NEW on, Blit(a, b, n, on)
        PROVE  IInv'
    <2> DEFINE Read(g) == Check(BlitSource(g, a), Span(a, n), Ram, "blit")
    <2>1. PICK g \in Expired(UpdateNoUpload(gpu, on)) :
              Settle(Written(BlitDest(Read(g), b, n), Span(b, n), Ram))
      BY <1>3 DEF Blit
    <2>2. g \in Sound
      BY <1>0, UpdateNoUploadSound, ExpiredSound
    <2>3. BlitSource(g, a) \in Sound
      BY <2>2, DownloadIfDirtySound DEF BlitSource
    <2>4. Read(g) \in Sound
      BY <2>3, CheckSound DEF Checks
    <2> HIDE DEF Read
    <2>5. BlitDest(Read(g), b, n) \in Sound
      BY <2>4, BlitDestSound
    <2>6. Written(BlitDest(Read(g), b, n), Span(b, n), Ram) \in Sound
      BY <2>5, WrittenSound
    <2> QED BY <2>1, <2>6, SettleInv
  <1>4. ASSUME NEW writes \in SUBSET Parts, Draw(writes)
        PROVE  IInv'
    <2>1. PICK g \in Expired(UpdateForDraw(gpu, writes)) : Settle(MarkDrawn(g, writes))
      BY <1>4 DEF Draw
    <2>2. g \in Sound
      BY <1>0, UpdateForDrawSound, ExpiredSound
    <2>3. MarkDrawn(g, writes) \in Sound
      BY <2>2, MarkDrawnSound
    <2> QED BY <2>1, <2>3, SettleInv
  <1>9. ASSUME NEW writes \in SUBSET Parts, NEW enabled, ClearSurface(writes, enabled)
        PROVE  IInv'
    <2>1. PICK g \in Expired(UpdateForDraw(gpu, writes)) :
              Settle(MarkDrawn(WipeParts(g, writes \ enabled), enabled))
      BY <1>9 DEF ClearSurface
    <2>2. g \in Sound
      BY <1>0, UpdateForDrawSound, ExpiredSound
    <2>3. WipeParts(g, writes \ enabled) \in Sound
      BY <2>2, WipePartsSound
    <2>4. MarkDrawn(WipeParts(g, writes \ enabled), enabled) \in Sound
      BY <2>3, MarkDrawnSound
    <2> QED BY <2>1, <2>4, SettleInv
  <1>5. ASSUME NEW a, NEW n, Texture(a, n)
        PROVE  IInv'
    <2>1. CASE InImage(a, n)
      <3>1. Upload(gpu, a) \in Sound
        BY <1>0, <2>1, UploadSound DEF InImage
      <3>2. Check(Upload(gpu, a), Span(a, n), a, "texture") \in Sound
        BY <3>1, CheckSound DEF Checks
      <3>3. Settle(Check(Upload(gpu, a), Span(a, n), a, "texture"))
        BY <1>5, <2>1 DEF Texture
      <3> QED BY <3>2, <3>3, SettleInv
    <2>2. CASE ~InImage(a, n)
      <3> DEFINE S == {x \in Overlapping(gpu, Span(a, n)) : gpu.surf[x].dirty}
      <3>1. S \in SUBSET Live(gpu)
        BY DEF Overlapping
      <3>2. DownloadRange(gpu, Span(a, n)) \in Sound
        <4> HIDE DEF S
        <4>1. DownloadAll(gpu, S) \in Sound
          BY <1>0, <3>1, DownloadAllSound
        <4> QED BY <4>1 DEF DownloadRange, S
      <3>3. Check(DownloadRange(gpu, Span(a, n)), Span(a, n), Ram, "texture") \in Sound
        BY <3>2, CheckSound DEF Checks
      <3>4. Settle(Check(DownloadRange(gpu, Span(a, n)), Span(a, n), Ram, "texture"))
        BY <1>5, <2>2 DEF Texture
      <3> QED BY <3>3, <3>4, SettleInv
    <2> QED BY <2>1, <2>2
  <1>6. ASSUME DownloadDirty
        PROVE  IInv'
    <2> DEFINE S == {x \in Live(gpu) : gpu.surf[x].dirty}
    <2>1. DownloadAll(gpu, S) \in Sound
      BY <1>0, DownloadAllSound
    <2>2. Settle(DownloadAll(gpu, S))
      BY <1>6 DEF DownloadDirty
    <2> QED BY <2>1, <2>2, SettleInv
  <1>7. ASSUME Flush
        PROVE  IInv'
    <2> DEFINE g == Unbind(Unbind(gpu, "color"), "zeta")
               k == EvictAll(g, Live(g))
               h == [k EXCEPT !.last = 0, !.drawn = {}]
    <2>1. g \in Sound
      BY <1>0, UnbindSound DEF Parts
    <2> HIDE DEF g
    <2>2. k \in Sound
      BY <2>1, EvictAllSound
    <2> HIDE DEF k
    <2>3. h \in GPU /\ h.surf = k.surf /\ h.bind = k.bind /\ h.fresh = k.fresh
      BY <2>2, SoundTyped DEF GPU
    <2>4. h \in Sound
      BY <2>2, <2>3, MarksSound
    <2>5. Settle(h)
      BY <1>7 DEF Flush, g, k
    <2> QED BY <2>4, <2>5, SettleInv
  <1>8. /\ ColorAddrs \in SUBSET Addrs /\ ZetaAddrs \in SUBSET Addrs
        /\ "color" \in Parts /\ "zeta" \in Parts
    BY Constants DEF Parts
  <1> QED BY <1>1, <1>2, <1>3, <1>4, <1>5, <1>6, <1>7, <1>8, <1>9 DEF Method

LEMMA DownloadsInv == IInv /\ ProcessDownloads => IInv'
  <1> SUFFICES ASSUME IInv, ProcessDownloads PROVE IInv'
    OBVIOUS
  <1> DEFINE S == {a \in Live(gpu) : gpu.surf[a].down}
  <1>1. gpu' \in Sound /\ SameSize(gpu, gpu')
    BY DownloadAllSound DEF IInv, ProcessDownloads
  <1>2. Live(gpu') = Live(gpu)
    BY <1>1, SizeRules
  <1> QED BY <1>1, <1>2 DEF IInv, ProcessDownloads

LEMMA CallbackInv ==
    ASSUME IInv, NEW c \in CpuCells, NEW write \in BOOLEAN, CpuCallback(c, write)
    PROVE  IInv'
  <1> DEFINE touched == Overlapping(gpu, {c})
             dirty == {a \in touched : gpu.surf[a].dirty}
             Told(a) == [gpu.surf[a] EXCEPT !.up = @ \/ write, !.down = @ \/ a \in dirty]
             f == [a \in Addrs |-> IF a \in touched THEN Told(a) ELSE gpu.surf[a]]
  <1>1. gpu \in Sound /\ gpu \in GPU /\ gpu.surf \in [Addrs -> Surface]
    BY SoundTyped DEF IInv
  <1>2. gpu' = [gpu EXCEPT !.surf = f]
    BY DEF CpuCallback
  <1>3. \A a \in Addrs : Told(a) \in Surface /\ Told(a).size = gpu.surf[a].size
    BY <1>1, ZenonT(30) DEF Surface
  <1> HIDE DEF Told, touched
  <1>4. \A a \in Addrs : f[a] \in Surface /\ f[a].size = gpu.surf[a].size
    BY <1>1, <1>3
  <1>5. f \in [Addrs -> Surface]
    BY <1>4
  <1> HIDE DEF f
  <1>6. gpu' \in GPU /\ gpu'.surf = f /\ gpu'.bind = gpu.bind /\ gpu'.fresh = gpu.fresh
    BY <1>1, <1>2, <1>5 DEF GPU
  <1>7. SameSize(gpu, gpu')
    BY <1>4, <1>6 DEF SameSize
  <1>8. gpu' \in Sound
    BY <1>1, <1>6, <1>7, SameSound, BindRule DEF Sound, FreshSound
  <1>9. Live(gpu') = Live(gpu)
    BY <1>7, SizeRules
  <1>10. cpu' \in CpuType
    <2>1. c \in Nat
      BY CellsAssumption
    <2> QED BY <2>1 DEF CpuCallback, CpuType
  <1> QED BY <1>8, <1>9, <1>10 DEF IInv, CpuCallback

LEMMA CpuInv == IInv /\ CpuStep => IInv'
  <1> SUFFICES ASSUME IInv, CpuStep PROVE IInv'
    OBVIOUS
  <1>1. CASE CpuAsk
    BY <1>1 DEF IInv, CpuAsk, CpuType
  <1>2. CASE CpuWait
    BY <1>2 DEF IInv, CpuWait, CpuType
  <1>3. CASE CpuAccess
    <2>1. gpu' \in Sound /\ gpu'.surf = gpu.surf
      BY <1>3, WrittenSound DEF IInv, CpuAccess
    <2>2. Live(gpu') = Live(gpu)
      BY <2>1 DEF Live
    <2>3. cpu' \in CpuType
      BY <1>3 DEF CpuAccess, CpuType
    <2> QED BY <1>3, <2>1, <2>2, <2>3 DEF IInv, CpuAccess
  <1> QED BY <1>1, <1>2, <1>3 DEF CpuStep

LEMMA UiInv == IInv /\ (UiStep \/ \E a \in Live(gpu) : UiPick(a)) => IInv'
  <1> SUFFICES ASSUME IInv, UiStep \/ \E a \in Live(gpu) : UiPick(a) PROVE IInv'
    OBVIOUS
  <1>1. CASE UiAsk
    <2> DEFINE t == [gpu.surf[ui.a] EXCEPT !.down = TRUE]
    <2>1. gpu \in Sound /\ ui.a \in Addrs /\ gpu.surf[ui.a] \in Surface
      BY <1>1, SoundTyped DEF IInv, UiAsk
    <2>2. t \in Surface /\ t.size = gpu.surf[ui.a].size
      BY <2>1, SurfaceTyped
    <2> HIDE DEF t
    <2>3. gpu' \in Sound
      BY <1>1, <2>1, <2>2, SurfaceSound DEF UiAsk, t
    <2> QED BY <1>1, <2>3 DEF IInv, UiAsk, UiType, Binding
  <1>2. CASE UiWait
    BY <1>2 DEF IInv, UiWait, UiType, Binding
  <1>3. ASSUME NEW a \in Live(gpu), UiPick(a)
        PROVE  IInv'
    <2>1. a \in Binding
      BY SoundTyped DEF IInv, Binding
    <2> QED BY <1>3, <2>1 DEF IInv, UiPick, UiType
  <1> QED BY <1>1, <1>2, <1>3 DEF UiStep

(* The invariant is inductive.                                             *)
THEOREM Invariance == Spec => []IInv
  <1>1. Init => IInv
    BY InitInv
  <1>2. IInv /\ [Next]_vars => IInv'
    <2> SUFFICES ASSUME IInv, [Next]_vars PROVE IInv'
      OBVIOUS
    <2>1. CASE Method
      BY <2>1, MethodInv
    <2>2. CASE ProcessDownloads
      BY <2>2, DownloadsInv
    <2>3. CASE ReportDownloads
      BY <2>3 DEF IInv, ReportDownloads
    <2>4. CASE \E c \in CpuCells, write \in BOOLEAN : CpuCallback(c, write)
      BY <2>4, CallbackInv
    <2>5. CASE CpuStep
      BY <2>5, CpuInv
    <2>6. CASE UiStep \/ \E a \in Live(gpu) : UiPick(a)
      BY <2>6, UiInv
    <2>7. CASE UNCHANGED vars
      BY <2>7 DEF IInv, vars
    <2> QED BY <2>1, <2>2, <2>3, <2>4, <2>5, <2>6, <2>7 DEF Next
  <1> QED BY <1>1, <1>2, PTL DEF Spec

(* The bindings, and the copies that count as newest, are of surfaces that   *)
(* exist, across evictions, expiry and flushes, whatever the guest does.     *)
THEOREM Typed == Spec => []TypeOK
  <1>1. IInv => TypeOK
    <2> SUFFICES ASSUME IInv PROVE TypeOK
      OBVIOUS
    <2>1. gpu \in Sound /\ gpu \in GPU /\ gpu.surf \in [Addrs -> Surface]
      BY SoundTyped DEF IInv
    <2>2. \A a \in Live(gpu) : gpu.surf[a] \in
              [size : Sizes, color : BOOLEAN, dirty : BOOLEAN, up : BOOLEAN, down : BOOLEAN]
      BY <2>1 DEF Live, Surface
    <2>3. Bound(gpu) \subseteq Live(gpu)
      BY <2>1 DEF Sound, BindSound, Bound, Parts
    <2>4. gpu.fresh \in [Cells -> SUBSET ({Ram} \cup Live(gpu))]
      BY <2>1 DEF Sound, FreshSound, GPU
    <2>5. gpu.stale \subseteq Parts /\ gpu.drawn \subseteq Parts
      BY <2>1 DEF GPU
    <2>6. {req, evt} \subseteq BOOLEAN
      BY DEF IInv
    <2> QED BY <2>1, <2>2, <2>3, <2>4, <2>5, <2>6 DEF TypeOK, IInv, CpuType, UiType
  <1> QED BY <1>1, Invariance, PTL

(* No two surfaces of r->surfaces share memory, whatever the guest draws to, *)
(* at which sizes and in which order.                                        *)
THEOREM SurfacesApart == Spec => []NoOverlap
  <1>1. IInv => NoOverlap
    BY DEF IInv, Sound, Apart, NoOverlap
  <1> QED BY <1>1, Invariance, PTL
-------------------------------------------------------------------------------
(* What the flags say.  The CPU is at the cells K (one, or none); those it   *)
(* will write are W, and D those where it has been told that the downloads   *)
(* are done.                                                                 *)
Whole(g, a) == \A c \in Cover(g, a) : a \in g.fresh[c]
Touches(g, a, cells) == Cover(g, a) \cap cells # {}
SurfTrue(g, a, K, W, D) ==
    /\ ~g.surf[a].up \/ g.surf[a].dirty => Whole(g, a)
    /\ g.surf[a].up /\ g.surf[a].dirty => Touches(g, a, K)
    /\ g.surf[a].down => g.surf[a].dirty \/ (a \in Displayed /\ ~g.surf[a].up)
    /\ Touches(g, a, W) => g.surf[a].up
    /\ Touches(g, a, D) => ~g.surf[a].dirty
    /\ Touches(g, a, K) /\ g.surf[a].dirty => g.surf[a].down
RamTrue(g) ==
    \A c \in Cells : \/ Ram \in g.fresh[c]
                     \/ \E a \in Live(g) : c \in Cover(g, a) /\ g.surf[a].dirty
Good(g, K, W, D) ==
    g \in Sound /\ RamTrue(g) /\ \A a \in Live(g) : SurfTrue(g, a, K, W, D)

(* The target registers, bindings and marks are as before.                   *)
Registers(g, h) ==
    /\ h.addr = g.addr /\ h.clip = g.clip /\ h.last = g.last /\ h.stale = g.stale
    /\ h.drawn = g.drawn /\ h.bad = g.bad

LEMMA CoverRules ==
    ASSUME NEW g \in Sound, NEW a \in Live(g)
    PROVE  /\ a \in Addrs /\ a \in Nat /\ a # Ram /\ a # NoAddr
           /\ g.surf[a] \in Surface /\ g.surf[a].size \in Sizes /\ g.surf[a].size \in Nat
           /\ Cover(g, a) \in SUBSET Cells /\ a \in Cover(g, a)
           /\ \A b \in Live(g) : b # a => Cover(g, a) \cap Cover(g, b) = {}
  <1>1. a \in Addrs /\ g.surf[a] \in Surface /\ g.surf[a].size # 0
    BY SoundTyped DEF Live
  <1>2. g.surf[a].size \in Sizes /\ g.surf[a].size \in Nat \ {0}
    BY <1>1, Constants DEF Surface
  <1>3. a \in Nat /\ a # Ram /\ a # NoAddr
    BY <1>1, Constants
  <1>4. Cover(g, a) \in SUBSET Cells
    BY <1>1, <1>2, CellsAssumption DEF Cover, Span, Addrs
  <1>5. a \in Cover(g, a)
    BY <1>2, <1>3 DEF Cover, Span
  <1> QED BY <1>1, <1>2, <1>3, <1>4, <1>5 DEF Sound, Apart

(* A surface that is left alone, and whose copies stay newest.               *)
LEMMA SurfKept ==
    ASSUME NEW g, NEW h, NEW a, NEW K, NEW W, NEW D, SurfTrue(g, a, K, W, D),
           h.surf[a] = g.surf[a], \A c \in Cover(g, a) : a \in g.fresh[c] => a \in h.fresh[c]
    PROVE  SurfTrue(h, a, K, W, D)
  BY DEF SurfTrue, Whole, Touches, Cover

(* The newest copies of a cell after a download.                             *)
FreshAfter(g, a, c) ==
    IF c \notin Cover(g, a) THEN g.fresh[c]
    ELSE IF a \in g.fresh[c] THEN g.fresh[c] \cup {Ram} ELSE g.fresh[c] \ {Ram}

LEMMA DownloadFields ==
    ASSUME NEW g \in Sound, NEW a \in Live(g)
    PROVE  /\ Download(g, a).surf = [g.surf EXCEPT ![a] = Clean(g.surf[a])]
           /\ Download(g, a).bind = g.bind /\ Registers(g, Download(g, a))
           /\ \A c \in Cells : Download(g, a).fresh[c] = FreshAfter(g, a, c)
  BY SoundTyped DEF Download, Copy, GPU, Registers, FreshAfter

LEMMA CleanFields ==
    ASSUME NEW s \in Surface
    PROVE  Clean(s).size = s.size /\ Clean(s).color = s.color /\ Clean(s).up = s.up
           /\ ~Clean(s).dirty /\ ~Clean(s).down
  BY DEF Surface, Clean

LEMMA DownloadGood ==
    ASSUME NEW g, NEW K, NEW W, NEW D, Good(g, K, W, D), NEW a \in Live(g), Whole(g, a)
    PROVE  Good(Download(g, a), K, W, D)
  <1> DEFINE h == Download(g, a)
  <1>1. g \in Sound /\ h \in Sound /\ SameSize(g, h)
    BY DownloadSound DEF Good
  <1>2. /\ h.surf = [g.surf EXCEPT ![a] = Clean(g.surf[a])]
        /\ \A c \in Cells : h.fresh[c] = FreshAfter(g, a, c)
    BY <1>1, DownloadFields
  <1> HIDE DEF h
  <1>3. Live(h) = Live(g) /\ \A b \in Addrs : Cover(h, b) = Cover(g, b)
    BY <1>1, SizeRules
  <1>4. a \in Addrs /\ Cover(g, a) \in SUBSET Cells
    BY <1>1, CoverRules
  <1>5. g.surf \in [Addrs -> Surface]
    BY <1>1, SoundTyped
  <1>6. h.surf[a].up = g.surf[a].up /\ ~h.surf[a].dirty /\ ~h.surf[a].down
    BY <1>2, <1>4, <1>5, CleanFields
  <1>7. \A c \in Cover(g, a) : a \in h.fresh[c] /\ Ram \in h.fresh[c]
    BY <1>2, <1>4 DEF Whole, FreshAfter
  <1>8. ASSUME NEW b \in Live(h)
        PROVE  SurfTrue(h, b, K, W, D)
    <2>0. SurfTrue(g, b, K, W, D)
      BY <1>3 DEF Good
    <2>1. CASE b = a
      BY <1>3, <1>4, <1>6, <1>7, <2>0, <2>1 DEF SurfTrue, Whole, Touches
    <2>2. CASE b # a
      <3>1. h.surf[b] = g.surf[b]
        BY <1>2, <1>5, <2>2
      <3>2. \A c \in Cover(g, b) : c \in Cells /\ c \notin Cover(g, a)
        BY <1>1, <1>3, <2>2, CoverRules
      <3> QED BY <1>2, <2>0, <3>1, <3>2, SurfKept DEF FreshAfter
    <2> QED BY <2>1, <2>2
  <1>9. RamTrue(h)
    <2>1. ASSUME NEW c \in Cells, c \notin Cover(g, a)
          PROVE  \/ Ram \in h.fresh[c]
                 \/ \E b \in Live(h) : c \in Cover(h, b) /\ h.surf[b].dirty
      <3>1. CASE Ram \in g.fresh[c]
        BY <1>2, <2>1, <3>1 DEF FreshAfter
      <3>2. CASE \E b \in Live(g) : c \in Cover(g, b) /\ g.surf[b].dirty
        <4>1. PICK b \in Live(g) : c \in Cover(g, b) /\ g.surf[b].dirty
          BY <3>2
        <4>2. b # a /\ b \in Addrs
          BY <1>1, <2>1, <4>1, CoverRules
        <4>3. h.surf[b] = g.surf[b]
          BY <1>2, <1>5, <4>2
        <4> QED BY <1>3, <4>1, <4>2, <4>3
      <3> QED BY <3>1, <3>2 DEF Good, RamTrue
    <2> QED BY <1>7, <2>1 DEF RamTrue
  <1> QED BY <1>1, <1>8, <1>9 DEF Good, h

(* What is kept of a surface by the downloads of others.                     *)
LEMMA DownloadAllGood ==
    ASSUME NEW g, NEW K, NEW W, NEW D, Good(g, K, W, D), NEW S \in SUBSET Live(g),
           \A a \in S : Whole(g, a)
    PROVE  /\ Good(DownloadAll(g, S), K, W, D)
           /\ DownloadAll(g, S).bind = g.bind /\ Registers(g, DownloadAll(g, S))
           /\ \A b \in Addrs : DownloadAll(g, S).surf[b] =
                                   IF b \in S THEN Clean(g.surf[b]) ELSE g.surf[b]
  <1> DEFINE Done(h, s) ==
                 /\ Good(h, K, W, D) /\ h.bind = g.bind /\ Registers(g, h)
                 /\ \A b \in Addrs : h.surf[b] = IF b \in s THEN Clean(g.surf[b]) ELSE g.surf[b]
                 /\ \A a \in S : Whole(h, a)
             G == [s \in SUBSET S |-> {h \in Sound : Done(h, s)}]
  <1>1. IsFiniteSet(S) /\ g \in Sound
    BY SoundTyped, FS_Subset DEF Good
  <1>2. g \in G[{}]
    BY <1>1 DEF Registers
  <1>3. ASSUME NEW s \in SUBSET S, NEW x \in S \ s, NEW h \in G[s]
        PROVE  Download(h, x) \in G[s \cup {x}]
    <2> DEFINE j == Download(h, x)
    <2>1. h \in Sound /\ Done(h, s)
      OBVIOUS
    <2>2. g.surf \in [Addrs -> Surface] /\ h.surf \in [Addrs -> Surface]
      BY <1>1, <2>1, SoundTyped
    <2>3. SameSize(g, h)
      BY <2>1, <2>2, CleanFields DEF SameSize
    <2>4. Live(h) = Live(g) /\ x \in Live(h) /\ \A b \in Addrs : Cover(h, b) = Cover(g, b)
      BY <2>3, SizeRules
    <2>5. j \in Sound /\ Good(j, K, W, D)
      BY <2>1, <2>4, DownloadSound, DownloadGood
    <2>6. /\ j.surf = [h.surf EXCEPT ![x] = Clean(h.surf[x])] /\ j.bind = h.bind
          /\ Registers(h, j)
          /\ \A c \in Cells : j.fresh[c] = FreshAfter(h, x, c)
      BY <2>1, <2>4, DownloadFields
    <2>7. x \in Addrs /\ h.surf[x] = g.surf[x] /\ x # Ram
      BY <1>1, <2>1, <2>4, CoverRules
    <2> HIDE DEF j
    <2>8. \A b \in Addrs : j.surf[b] = IF b \in s \cup {x} THEN Clean(g.surf[b]) ELSE g.surf[b]
      BY <2>1, <2>2, <2>6, <2>7
    <2>9. SameSize(h, j)
      BY <2>2, <2>6, <2>7, CleanFields DEF SameSize
    <2>10. ASSUME NEW a \in S
           PROVE  Whole(j, a)
      <3>1. a \in Live(h) /\ a # Ram /\ Cover(h, a) \in SUBSET Cells /\ Cover(j, a) = Cover(h, a)
        BY <2>1, <2>4, <2>9, CoverRules, SizeRules
      <3>2. Whole(h, a)
        BY <2>1
      <3> QED BY <2>6, <3>1, <3>2 DEF Whole, FreshAfter
    <2>11. j.bind = g.bind /\ Registers(g, j)
      BY <2>1, <2>6 DEF Registers
    <2>12. s \cup {x} \in SUBSET S
      OBVIOUS
    <2>13. Done(j, s \cup {x})
      BY <2>5, <2>8, <2>10, <2>11
    <2> HIDE DEF Done
    <2> QED BY <2>5, <2>12, <2>13 DEF j
  <1>4. DownloadAll(g, S) \in G[S]
    <2> HIDE DEF G
    <2> QED BY <1>1, <1>2, <1>3, DownloadAllKeeps
  <1> QED BY <1>4
-------------------------------------------------------------------------------
(* Evictions, and a new surface in the room they make.                       *)
LEMMA InvalidateFields ==
    ASSUME NEW g \in Sound, NEW a \in Addrs, \A p \in Parts : g.bind[p] = a => p \in g.stale
    PROVE  /\ Invalidate(g, a).surf = [g.surf EXCEPT ![a] = Absent]
           /\ Registers(g, Invalidate(g, a))
           /\ \A p \in Parts : Invalidate(g, a).bind[p] = OtherThan(a, g.bind[p])
           /\ \A c \in Cells : Invalidate(g, a).fresh[c] = g.fresh[c] \ {a}
  <1> DEFINE h == Invalidate(g, a)
             f == [c \in Cells |-> g.fresh[c] \ {a}]
             bad == g.bad \cup {p \in Parts : g.bind[p] = a /\ p \notin g.stale}
             left == [color |-> OtherThan(a, g.bind.color), zeta |-> OtherThan(a, g.bind.zeta)]
  <1>1. bad = g.bad
    OBVIOUS
  <1>2. left["color"] = OtherThan(a, g.bind["color"]) /\ left["zeta"] = OtherThan(a, g.bind["zeta"])
    OBVIOUS
  <1>3. \A c \in Cells : f[c] = g.fresh[c] \ {a}
    OBVIOUS
  <1> HIDE DEF f, bad, left
  <1>4. h = [g EXCEPT !.bad = bad, !.bind = left, !.surf[a] = Absent, !.fresh = f]
    BY DEF Invalidate, f, bad, left
  <1> HIDE DEF h
  <1>5. /\ h.surf = [g.surf EXCEPT ![a] = Absent] /\ h.fresh = f /\ h.bind = left
        /\ h.addr = g.addr /\ h.clip = g.clip /\ h.last = g.last /\ h.stale = g.stale
        /\ h.drawn = g.drawn /\ h.bad = bad
    BY <1>4, SoundTyped DEF GPU
  <1> QED BY <1>1, <1>2, <1>3, <1>5 DEF Registers, Parts, h

LEMMA InvalidateGood ==
    ASSUME NEW g, NEW K, NEW W, NEW D, Good(g, K, W, D), NEW a \in Live(g), ~g.surf[a].dirty,
           \A p \in Parts : g.bind[p] = a => p \in g.stale
    PROVE  Good(Invalidate(g, a), K, W, D)
  <1> DEFINE h == Invalidate(g, a)
  <1>1. g \in Sound /\ a \in Addrs
    BY SoundTyped DEF Good
  <1>2. h \in Sound
    BY <1>1, InvalidateSound
  <1>3. /\ h.surf = [g.surf EXCEPT ![a] = Absent] /\ \A c \in Cells : h.fresh[c] = g.fresh[c] \ {a}
    BY <1>1, InvalidateFields
  <1> HIDE DEF h
  <1>4. g.surf \in [Addrs -> Surface]
    BY <1>1, SoundTyped
  <1>5. \A b \in Addrs : b # a => h.surf[b] = g.surf[b] /\ Cover(h, b) = Cover(g, b)
    BY <1>3, <1>4 DEF Cover
  <1>6. Live(h) = Live(g) \ {a}
    BY <1>1, <1>3, <1>4 DEF Live, Absent
  <1>7. ASSUME NEW b \in Live(h)
        PROVE  SurfTrue(h, b, K, W, D)
    <2>1. b \in Live(g) /\ b # a /\ SurfTrue(g, b, K, W, D)
      BY <1>6 DEF Good
    <2>2. Cover(g, b) \in SUBSET Cells /\ b \in Addrs
      BY <1>1, <2>1, CoverRules
    <2>3. \A c \in Cover(g, b) : b \in g.fresh[c] => b \in h.fresh[c]
      BY <1>3, <2>1, <2>2
    <2>4. h.surf[b] = g.surf[b]
      BY <1>5, <2>1, <2>2
    <2> QED BY <2>1, <2>3, <2>4, SurfKept
  <1>8. RamTrue(h)
    <2>1. ASSUME NEW c \in Cells
          PROVE  \/ Ram \in h.fresh[c]
                 \/ \E b \in Live(h) : c \in Cover(h, b) /\ h.surf[b].dirty
      <3>1. CASE Ram \in g.fresh[c]
        BY <1>1, <1>3, <3>1, CoverRules
      <3>2. CASE \E b \in Live(g) : c \in Cover(g, b) /\ g.surf[b].dirty
        <4>1. PICK b \in Live(g) : c \in Cover(g, b) /\ g.surf[b].dirty
          BY <3>2
        <4>2. b # a /\ b \in Addrs
          BY <1>1, <4>1, CoverRules
        <4> QED BY <1>5, <1>6, <4>1, <4>2
      <3> QED BY <3>1, <3>2 DEF Good, RamTrue
    <2> QED BY <2>1 DEF RamTrue
  <1> QED BY <1>2, <1>7, <1>8 DEF Good, h

(* Whether a set of surfaces may go: what is bound has been given up.        *)
MayGo(g, S) == \A p \in Parts : g.bind[p] \in S => p \in g.stale
Unbound(g, h, S) ==
    \A p \in Parts : h.bind[p] = IF g.bind[p] \in S THEN NoAddr ELSE g.bind[p]

LEMMA EvictGood ==
    ASSUME NEW g, NEW K, NEW W, NEW D, Good(g, K, W, D), NEW a \in Live(g), MayGo(g, {a})
    PROVE  /\ Good(Evict(g, a), K, W, D)
           /\ Registers(g, Evict(g, a)) /\ Unbound(g, Evict(g, a), {a})
           /\ \A b \in Addrs : Evict(g, a).surf[b] = IF b = a THEN Absent ELSE g.surf[b]
  <1> DEFINE k == DownloadIfDirty(g, a)
             h == Invalidate(k, a)
  <1>1. g \in Sound /\ a \in Addrs /\ g.surf \in [Addrs -> Surface]
    BY SoundTyped DEF Good
  <1>2. /\ Good(k, K, W, D) /\ k.bind = g.bind /\ Registers(g, k) /\ ~k.surf[a].dirty
        /\ \A b \in Addrs : b # a => k.surf[b] = g.surf[b]
    <2>1. CASE g.surf[a].dirty
      <3>1. Whole(g, a)
        BY <2>1 DEF Good, SurfTrue
      <3>2. k = Download(g, a)
        BY <2>1 DEF DownloadIfDirty
      <3>3. k.surf = [g.surf EXCEPT ![a] = Clean(g.surf[a])] /\ k.bind = g.bind /\ Registers(g, k)
        BY <1>1, <3>2, DownloadFields
      <3>4. Good(k, K, W, D)
        BY <3>1, <3>2, DownloadGood
      <3> HIDE DEF k
      <3>5. ~Clean(g.surf[a]).dirty
        BY <1>1, CleanFields
      <3> QED BY <1>1, <3>3, <3>4, <3>5
    <2>2. CASE ~g.surf[a].dirty
      BY <2>2 DEF DownloadIfDirty, Registers
    <2> QED BY <2>1, <2>2
  <1>3. k \in Sound /\ SameSize(g, k)
    BY <1>1, DownloadIfDirtySound
  <1> HIDE DEF k
  <1>4. a \in Live(k) /\ \A p \in Parts : k.bind[p] = a => p \in k.stale
    BY <1>2, <1>3, SizeRules DEF MayGo, Registers
  <1>5. Good(h, K, W, D)
    BY <1>2, <1>4, InvalidateGood
  <1>6. /\ h.surf = [k.surf EXCEPT ![a] = Absent] /\ Registers(k, h)
        /\ \A p \in Parts : h.bind[p] = OtherThan(a, k.bind[p])
    BY <1>1, <1>3, <1>4, InvalidateFields
  <1> HIDE DEF h
  <1>7. k.surf \in [Addrs -> Surface]
    BY <1>3, SoundTyped
  <1>8. \A b \in Addrs : h.surf[b] = IF b = a THEN Absent ELSE g.surf[b]
    BY <1>1, <1>2, <1>6, <1>7
  <1>9. Registers(g, h) /\ Unbound(g, h, {a})
    BY <1>2, <1>6 DEF Registers, Unbound, OtherThan
  <1>10. Evict(g, a) = h
    BY DEF Evict, h, k
  <1> QED BY <1>5, <1>8, <1>9, <1>10

LEMMA EvictAllGood ==
    ASSUME NEW g, NEW K, NEW W, NEW D, Good(g, K, W, D), NEW S \in SUBSET Live(g), MayGo(g, S)
    PROVE  /\ Good(EvictAll(g, S), K, W, D)
           /\ Registers(g, EvictAll(g, S)) /\ Unbound(g, EvictAll(g, S), S)
           /\ \A b \in Addrs : EvictAll(g, S).surf[b] = IF b \in S THEN Absent ELSE g.surf[b]
  <1> DEFINE Done(h, s) ==
                 /\ Good(h, K, W, D) /\ Registers(g, h) /\ Unbound(g, h, s)
                 /\ \A b \in Addrs : h.surf[b] = IF b \in s THEN Absent ELSE g.surf[b]
             G == [s \in SUBSET S |-> {h \in Sound : Done(h, s)}]
  <1>1. IsFiniteSet(S) /\ g \in Sound
    BY SoundTyped, FS_Subset DEF Good
  <1>2. g \in G[{}]
    <2>1. Done(g, {})
      BY DEF Registers, Unbound
    <2> HIDE DEF Done
    <2> QED BY <1>1, <2>1
  <1>3. ASSUME NEW s \in SUBSET S, NEW x \in S \ s, NEW h \in G[s]
        PROVE  Evict(h, x) \in G[s \cup {x}]
    <2> DEFINE j == Evict(h, x)
    <2>1. h \in Sound /\ Done(h, s)
      OBVIOUS
    <2>2. x \in Addrs /\ x # NoAddr /\ g.surf[x].size # 0
      BY <1>1, CoverRules DEF Live
    <2>3. x \in Live(h)
      BY <2>1, <2>2 DEF Live
    <2>4. MayGo(h, {x})
      BY <2>1, <2>2 DEF MayGo, Registers, Unbound
    <2>5. /\ Good(j, K, W, D) /\ Registers(h, j) /\ Unbound(h, j, {x})
          /\ \A b \in Addrs : j.surf[b] = IF b = x THEN Absent ELSE h.surf[b]
      BY <2>1, <2>3, <2>4, EvictGood
    <2> HIDE DEF j
    <2>6. /\ Registers(g, j)
          /\ \A b \in Addrs : j.surf[b] = IF b \in s \cup {x} THEN Absent ELSE g.surf[b]
      BY <2>1, <2>5 DEF Registers
    <2>7. Unbound(g, j, s \cup {x})
      BY <2>1, <2>2, <2>5 DEF Unbound
    <2>8. Done(j, s \cup {x}) /\ j \in Sound
      BY <2>5, <2>6, <2>7 DEF Good
    <2>9. s \cup {x} \in SUBSET S
      OBVIOUS
    <2> HIDE DEF Done
    <2> QED BY <2>8, <2>9 DEF j
  <1>4. EvictAll(g, S) \in G[S]
    <2> HIDE DEF G
    <2> QED BY <1>1, <1>2, <1>3, EvictAllKeeps
  <1> QED BY <1>4

(* A new surface is one that waits for its upload.                           *)
New(s) == s.up /\ ~s.dirty /\ ~s.down

LEMMA PutGood ==
    ASSUME NEW g, NEW K, NEW W, NEW D, Good(g, K, W, D), NEW a \in Addrs, NEW n \in Sizes,
           NEW color \in BOOLEAN, MayGo(g, Overlapping(g, Span(a, n)))
    PROVE  LET h == Put(g, a, n, color)
           IN  /\ Good(h, K, W, D) /\ Registers(g, h) /\ Unbound(g, h, Overlapping(g, Span(a, n)))
               /\ New(h.surf[a]) /\ h.surf[a].size = n /\ a \in Live(h)
               /\ \A b \in Live(h) : b # a => h.surf[b] = g.surf[b]
               /\ \A b \in Live(g) : b # a /\ b \notin Overlapping(g, Span(a, n)) =>
                      h.surf[b] = g.surf[b]
  <1> DEFINE O == Overlapping(g, Span(a, n))
             k == EvictAll(g, O)
             s == [size |-> n, color |-> color, dirty |-> FALSE, up |-> TRUE, down |-> FALSE]
             h == Put(g, a, n, color)
  <1>0. g \in Sound /\ a \in Nat /\ n \in Nat /\ n # 0
    BY Constants DEF Good
  <1>1. O \in SUBSET Live(g)
    BY DEF Overlapping
  <1>2. /\ Good(k, K, W, D) /\ Registers(g, k) /\ Unbound(g, k, O)
        /\ \A b \in Addrs : k.surf[b] = IF b \in O THEN Absent ELSE g.surf[b]
    <2> HIDE DEF O
    <2> QED BY <1>1, EvictAllGood DEF O
  <1>3. s.size = n /\ New(s)
    BY DEF New
  <1>4. h = [k EXCEPT !.surf[a] = s]
    BY DEF Put
  <1>5. h \in Sound /\ a \in Live(h)
    BY <1>0, PutSound
  <1>6. a \notin Live(k)
    <2> SUFFICES ASSUME a \in Live(k) PROVE FALSE
      OBVIOUS
    <2>1. a \notin O /\ a \in Live(g)
      BY <1>2 DEF Live, Absent
    <2>2. a \in Cover(g, a) /\ a \in Span(a, n)
      BY <1>0, <2>1, CoverRules DEF Span
    <2> QED BY <2>1, <2>2 DEF Overlapping
  <1> HIDE DEF k, s, h, O
  <1>7. /\ h.surf = [k.surf EXCEPT ![a] = s] /\ h.fresh = k.fresh /\ h.bind = k.bind
        /\ Registers(k, h) /\ k.surf \in [Addrs -> Surface] /\ k \in Sound
    BY <1>2, <1>4, SoundTyped DEF GPU, Registers, Good
  <1>8. /\ h.surf[a] = s
        /\ \A b \in Addrs : b # a => h.surf[b] = k.surf[b] /\ Cover(h, b) = Cover(k, b)
    BY <1>7 DEF Cover
  <1>9. Live(h) = Live(k) \cup {a}
    BY <1>0, <1>3, <1>8 DEF Live
  <1>10. ASSUME NEW b \in Live(h)
         PROVE  SurfTrue(h, b, K, W, D)
    <2>1. CASE b = a
      BY <1>3, <1>8, <2>1 DEF SurfTrue, New
    <2>2. CASE b # a
      <3>1. b \in Live(k) /\ b \in Addrs /\ SurfTrue(k, b, K, W, D)
        BY <1>2, <1>9, <2>2 DEF Good, Live
      <3> QED BY <1>7, <1>8, <2>2, <3>1, SurfKept
    <2> QED BY <2>1, <2>2
  <1>11. RamTrue(h)
    <2>1. ASSUME NEW b \in Live(k)
          PROVE  b \in Live(h) /\ b # a /\ h.surf[b] = k.surf[b] /\ Cover(h, b) = Cover(k, b)
      BY <1>6, <1>8, <1>9 DEF Live
    <2> QED BY <1>2, <1>7, <2>1 DEF Good, RamTrue
  <1>12. Registers(g, h) /\ Unbound(g, h, O)
    BY <1>2, <1>7 DEF Registers, Unbound
  <1>13. \A b \in Live(h) : b # a => h.surf[b] = g.surf[b]
    <2>1. ASSUME NEW b \in Live(h), b # a
          PROVE  h.surf[b] = g.surf[b]
      <3>1. b \in Addrs /\ k.surf[b].size # 0 /\ h.surf[b] = k.surf[b]
        BY <1>8, <2>1 DEF Live
      <3>2. b \notin O
        BY <1>2, <3>1 DEF Absent
      <3> QED BY <1>2, <3>1, <3>2
    <2> QED BY <2>1
  <1>14. \A b \in Live(g) : b # a /\ b \notin O => h.surf[b] = g.surf[b]
    BY <1>2, <1>8 DEF Live
  <1> QED BY <1>3, <1>5, <1>8, <1>10, <1>11, <1>12, <1>13, <1>14 DEF Good, h, O
-------------------------------------------------------------------------------
(* The targets, at any size the guest uses.                                  *)
Reach(g, p) == Span(g.addr[p], Max(Sizes))
TargetsApart(g) == Reach(g, "color") \cap Reach(g, "zeta") = {}

LEMMA ReachRules ==
    ASSUME NEW g \in Sound, TargetsApart(g), NEW p \in Parts
    PROVE  /\ Other(p) \in Parts /\ Other(p) # p /\ Other(Other(p)) = p
           /\ g.addr[p] \in Addrs /\ g.addr[Other(p)] \in Addrs /\ g.addr[p] # g.addr[Other(p)]
           /\ \A m, n \in Sizes : Span(g.addr[p], m) \cap Span(g.addr[Other(p)], n) = {}
  <1>1. g.addr["color"] \in Addrs /\ g.addr["zeta"] \in Addrs /\ Addrs \in SUBSET Nat
    BY SoundTyped, Constants
  <1>2. Sizes \in SUBSET Nat /\ Sizes \in SUBSET (Nat \ {0}) /\ Sizes # {} /\ IsFiniteSet(Sizes)
    BY CellsAssumption
  <1>3. Max(Sizes) \in Nat \ {0} /\ \A n \in Sizes : n <= Max(Sizes)
    BY <1>2, GreatestExists
  <1>4. ASSUME NEW a \in Nat, NEW n \in Sizes
        PROVE  Span(a, n) \subseteq Span(a, Max(Sizes)) /\ a \in Span(a, Max(Sizes))
    <2>1. n \in Nat /\ n <= Max(Sizes) /\ Max(Sizes) \in Nat \ {0}
      BY <1>2, <1>3
    <2> QED BY <2>1 DEF Span
  <1>5. g.addr["color"] # g.addr["zeta"]
    <2>1. PICK n \in Sizes : TRUE
      BY <1>2
    <2>2. g.addr["color"] \in Reach(g, "color") /\ g.addr["zeta"] \in Reach(g, "zeta")
      BY <1>1, <1>4, <2>1 DEF Reach
    <2> QED BY <2>2 DEF TargetsApart
  <1>6. \A m, n \in Sizes : Span(g.addr["color"], m) \cap Span(g.addr["zeta"], n) = {}
    BY <1>1, <1>4 DEF TargetsApart, Reach
  <1>7. CASE p = "color"
    BY <1>1, <1>5, <1>6, <1>7 DEF Other, Parts
  <1>8. CASE p = "zeta"
    BY <1>1, <1>5, <1>6, <1>8 DEF Other, Parts
  <1> QED BY <1>7, <1>8 DEF Parts

(* Bindings and registers do not matter to the flags.                        *)
LEMMA GoodSame ==
    ASSUME NEW g, NEW K, NEW W, NEW D, Good(g, K, W, D), NEW h \in Sound,
           h.surf = g.surf, h.fresh = g.fresh
    PROVE  Good(h, K, W, D) /\ Live(h) = Live(g)
  <1>1. Live(h) = Live(g) /\ \A a \in Live(g) : Cover(h, a) = Cover(g, a)
    BY DEF Live, Cover
  <1>2. \A a \in Live(h) : SurfTrue(h, a, K, W, D)
    BY <1>1, SurfKept DEF Good
  <1>3. RamTrue(h)
    BY <1>1 DEF Good, RamTrue
  <1> QED BY <1>1, <1>2, <1>3 DEF Good

LEMMA BindingGood ==
    ASSUME NEW g, NEW K, NEW W, NEW D, Good(g, K, W, D), NEW p \in Parts,
           NEW b \in Live(g) \cup {NoAddr}
    PROVE  LET h == [g EXCEPT !.bind[p] = b]
           IN  /\ Good(h, K, W, D) /\ Registers(g, h) /\ h.surf = g.surf /\ Live(h) = Live(g)
               /\ h.bind[p] = b /\ \A r \in Parts : r # p => h.bind[r] = g.bind[r]
  <1> DEFINE h == [g EXCEPT !.bind[p] = b]
  <1>1. g \in Sound
    BY DEF Good
  <1>2. h \in Sound
    BY <1>1, BindingSound
  <1>3. /\ h.surf = g.surf /\ h.fresh = g.fresh /\ Registers(g, h)
        /\ h.bind[p] = b /\ \A r \in Parts : r # p => h.bind[r] = g.bind[r]
    BY <1>1, SoundTyped DEF GPU, Registers, Parts
  <1> HIDE DEF h
  <1>4. Good(h, K, W, D) /\ Live(h) = Live(g)
    BY <1>2, <1>3, GoodSame
  <1> QED BY <1>3, <1>4 DEF h

LEMMA UnbindGood ==
    ASSUME NEW g, NEW K, NEW W, NEW D, Good(g, K, W, D), NEW p \in Parts
    PROVE  LET h == Unbind(g, p)
           IN  /\ Good(h, K, W, D) /\ Registers(g, h) /\ h.surf = g.surf /\ Live(h) = Live(g)
               /\ h.bind[p] = NoAddr /\ \A r \in Parts : r # p => h.bind[r] = g.bind[r]
  BY BindingGood DEF Unbind

LEMMA FreedGood ==
    ASSUME NEW g, NEW K, NEW W, NEW D, Good(g, K, W, D), NEW p \in Parts
    PROVE  LET h == Freed(g, p)
           IN  /\ Good(h, K, W, D) /\ Registers(g, h) /\ h.surf = g.surf /\ Live(h) = Live(g)
               /\ h.bind[p] = NoAddr /\ h.bind[Other(p)] # g.addr[p]
               /\ h.bind[Other(p)] \in {g.bind[Other(p)], NoAddr}
               /\ g.bind[Other(p)] # g.addr[p] => h.bind[Other(p)] = g.bind[Other(p)]
  <1> DEFINE o == Other(p)
             k == Unbind(g, p)
             j == Unbind(k, o)
  <1>1. o \in Parts /\ o # p /\ g.addr[p] # NoAddr
    BY SoundTyped, Constants DEF Other, Parts, Good
  <1> HIDE DEF o
  <1>2. /\ Good(k, K, W, D) /\ Registers(g, k) /\ k.surf = g.surf /\ Live(k) = Live(g)
        /\ k.bind[p] = NoAddr /\ k.bind[o] = g.bind[o]
    BY <1>1, UnbindGood
  <1> HIDE DEF k
  <1>3. /\ Good(j, K, W, D) /\ Registers(k, j) /\ j.surf = k.surf /\ Live(j) = Live(k)
        /\ j.bind[o] = NoAddr /\ j.bind[p] = k.bind[p]
    BY <1>1, <1>2, UnbindGood
  <1> HIDE DEF j
  <1>4. CASE g.bind[o] = g.addr[p]
    <2>1. Freed(g, p) = j
      BY <1>4 DEF Freed, j, k, o
    <2> QED BY <1>1, <1>2, <1>3, <1>4, <2>1 DEF Registers, o
  <1>5. CASE g.bind[o] # g.addr[p]
    <2>1. Freed(g, p) = k
      BY <1>5 DEF Freed, k, o
    <2> QED BY <1>1, <1>2, <1>5, <2>1 DEF o
  <1> QED BY <1>4, <1>5

LEMMA AttachGood ==
    ASSUME NEW g, NEW K, NEW W, NEW D, Good(g, K, W, D), NEW p \in Parts, NEW z \in BOOLEAN,
           g.addr[p] \in Live(g)
    PROVE  LET h == Attach(g, p, z)
           IN  /\ Good(h, K, W, D) /\ h.surf = g.surf /\ Live(h) = Live(g)
               /\ h.bind[p] = g.addr[p] /\ \A r \in Parts : r # p => h.bind[r] = g.bind[r]
               /\ h.addr = g.addr /\ h.clip = g.clip /\ h.last = g.last
               /\ h.drawn = g.drawn /\ h.bad = g.bad
               /\ h.stale = (g.stale \cup (IF z THEN {"zeta"} ELSE {})) \ {p}
  <1> DEFINE h == Attach(g, p, z)
             t == (g.stale \cup (IF z THEN {"zeta"} ELSE {})) \ {p}
  <1>1. g \in Sound
    BY DEF Good
  <1>2. h \in Sound
    BY <1>1, AttachSound
  <1>3. h = [g EXCEPT !.bind[p] = g.addr[p], !.stale = t]
    BY DEF Attach
  <1> HIDE DEF h, t
  <1>4. /\ h.surf = g.surf /\ h.fresh = g.fresh /\ h.addr = g.addr /\ h.clip = g.clip
        /\ h.last = g.last /\ h.drawn = g.drawn /\ h.bad = g.bad /\ h.stale = t
        /\ h.bind[p] = g.addr[p] /\ \A r \in Parts : r # p => h.bind[r] = g.bind[r]
    BY <1>1, <1>3, SoundTyped DEF GPU, Parts
  <1>5. Good(h, K, W, D) /\ Live(h) = Live(g)
    BY <1>2, <1>4, GoodSame
  <1> QED BY <1>4, <1>5 DEF h, t

(* What a target's update makes of the cache.                                *)
SizesMatch(h) ==
    h.bind["color"] # NoAddr /\ h.bind["zeta"] # NoAddr =>
        h.surf[h.bind["color"]].size = h.surf[h.bind["zeta"]].size
Kept(g, h, a) == \A b \in Live(h) : h.surf[b] = g.surf[b] \/ (b = a /\ New(h.surf[b]))
Rebound(g, h, p) ==
    /\ h.addr = g.addr /\ h.clip = g.clip /\ h.last = g.last /\ h.bad = g.bad
    /\ h.bind[p] = g.addr[p] /\ g.addr[p] \in Live(h) /\ p \notin h.stale
    /\ h.bind[Other(p)] \in {g.bind[Other(p)], NoAddr}
    /\ Other(p) \notin g.stale =>
           /\ h.bind[Other(p)] = g.bind[Other(p)]
           /\ g.bind[Other(p)] # NoAddr => h.surf[g.bind[Other(p)]] = g.surf[g.bind[Other(p)]]
    /\ g.stale \subseteq h.stale \cup {p}
    /\ p = "zeta" => h.stale \subseteq g.stale /\ SizesMatch(h)
    /\ p = "color" /\ "zeta" \notin h.stale => SizesMatch(h)
    /\ Kept(g, h, g.addr[p])

(* A binding that is not stale is one to the target.                         *)
AtTarget(g, p) == g.bind[p] # NoAddr /\ p \notin g.stale => g.bind[p] = g.addr[p]

LEMMA RebindAtGood ==
    ASSUME NEW g, NEW K, NEW W, NEW D, Good(g, K, W, D), NEW p \in Parts, NEW n \in Sizes,
           TargetsApart(g), AtTarget(g, Other(p)), g.bind[p] = NoAddr,
           g.bind[Other(p)] # g.addr[p],
           p = "zeta" /\ g.bind["color"] # NoAddr =>
               "color" \notin g.stale /\ n = g.surf[g.bind["color"]].size
    PROVE  LET h == RebindAt(g, p, n)
           IN  /\ Good(h, K, W, D) /\ Rebound(g, h, p) /\ h.drawn = g.drawn
               /\ h.surf[g.addr[p]].size >= n
  <1> DEFINE a == g.addr[p]
             o == Other(p)
             h == RebindAt(g, p, n)
  <1>1. /\ g \in Sound /\ o \in Parts /\ o # p /\ Other(o) = p
        /\ a \in Addrs /\ a \in Nat /\ n \in Nat /\ n # 0
    BY ReachRules, Constants DEF Good
  <1>2. \A m \in Sizes : Span(a, n) \cap Span(g.addr[o], m) = {}
    BY <1>1, ReachRules
  <1>3. g.bind[o] # NoAddr => g.bind[o] \in Live(g)
    BY <1>1, SoundTyped
  <1>4. NoAddr \notin Live(g)
    BY <1>1, CoverRules
  <1> HIDE DEF o
  <1>5. CASE a \in Live(g) /\ Compatible(g, p, n)
    <2> DEFINE z == p = "color"
    <2>1. z \in BOOLEAN /\ h = Attach(g, p, z)
      BY <1>5 DEF RebindAt
    <2>2. /\ Good(h, K, W, D) /\ h.surf = g.surf /\ Live(h) = Live(g)
          /\ h.bind[p] = a /\ h.bind[o] = g.bind[o]
          /\ h.addr = g.addr /\ h.clip = g.clip /\ h.last = g.last
          /\ h.drawn = g.drawn /\ h.bad = g.bad
          /\ h.stale = (g.stale \cup (IF z THEN {"zeta"} ELSE {})) \ {p}
      <3> HIDE DEF z, h
      <3> QED BY <1>1, <1>5, <2>1, AttachGood
    <2> HIDE DEF h
    <2>3. g.surf[a].size >= n
      BY <1>5 DEF Compatible
    <2>4. p = "zeta" => h.stale \subseteq g.stale /\ SizesMatch(h)
      <3>1. p = "zeta" /\ g.bind.color # NoAddr => g.surf[a].size = g.surf[g.bind.color].size
        BY <1>5 DEF Compatible
      <3>2. p = "zeta" => o = "color"
        BY DEF o, Other
      <3> QED BY <2>2, <3>1, <3>2 DEF SizesMatch
    <2>5. p = "color" => "zeta" \in h.stale
      BY <2>2
    <2>6. Kept(g, h, a)
      BY <2>2 DEF Kept
    <2>7. g.stale \subseteq h.stale \cup {p} /\ p \notin h.stale
      BY <2>2
    <2> QED BY <1>5, <2>2, <2>3, <2>4, <2>5, <2>6, <2>7 DEF Rebound, o, h
  <1>6. CASE ~(a \in Live(g) /\ Compatible(g, p, n))
    <2> DEFINE S == {a} \cap Live(g)
               e == EvictAll(g, S)
               O == Overlapping(e, Span(a, n))
               c == p = "color"
               u == Put(e, a, n, c)
               z == p = "color" /\ u.bind.zeta # NoAddr /\ u.surf[u.bind.zeta].size # n
    <2>1. S \in SUBSET Live(g) /\ MayGo(g, S)
      <3>1. \A r \in Parts : r = p \/ r = o
        BY <1>1 DEF Parts, o, Other
      <3> QED BY <1>4, <3>1 DEF MayGo, o
    <2>2. /\ Good(e, K, W, D) /\ Registers(g, e) /\ Unbound(g, e, S)
          /\ \A b \in Addrs : e.surf[b] = IF b \in S THEN Absent ELSE g.surf[b]
      <3> HIDE DEF S
      <3> QED BY <2>1, EvictAllGood
    <2>3. /\ e.bind[p] = NoAddr /\ e.bind[o] = g.bind[o] /\ e \in Sound
          /\ e.addr = g.addr /\ e.stale = g.stale
      BY <1>1, <1>4, <2>2 DEF Unbound, Good, Registers, o
    <2>4. \A b \in Addrs : b # a => e.surf[b] = g.surf[b]
      BY <2>2
    <2>5. \A b \in Live(e) : b # a
      BY <2>2 DEF Live, Absent
    <2> HIDE DEF S, e
    <2>6. o \notin g.stale => g.bind[o] \notin O
      <3> SUFFICES ASSUME o \notin g.stale, g.bind[o] \in O PROVE FALSE
        OBVIOUS
      <3>1. g.bind[o] \in Live(e) /\ Cover(e, g.bind[o]) \cap Span(a, n) # {}
        BY DEF Overlapping
      <3>2. g.bind[o] # NoAddr
        BY <2>3, <3>1, CoverRules
      <3>3. g.bind[o] = g.addr[o]
        BY <3>2 DEF AtTarget, o
      <3>4. e.surf[g.addr[o]].size \in Sizes
        BY <2>3, <3>1, <3>3, CoverRules
      <3> QED BY <1>2, <3>1, <3>3, <3>4 DEF Cover
    <2>7. MayGo(e, O)
      <3>1. \A r \in Parts : r = p \/ r = o
        BY <1>1 DEF Parts, o, Other
      <3>2. NoAddr \notin O
        BY <2>3, CoverRules DEF Overlapping
      <3> QED BY <2>3, <2>6, <3>1, <3>2 DEF MayGo
    <2>8. /\ Good(u, K, W, D) /\ Registers(e, u) /\ Unbound(e, u, O)
          /\ New(u.surf[a]) /\ u.surf[a].size = n /\ a \in Live(u)
          /\ \A b \in Live(u) : b # a => u.surf[b] = e.surf[b]
          /\ \A b \in Live(e) : b # a /\ b \notin O => u.surf[b] = e.surf[b]
      <3>1. c \in BOOLEAN
        OBVIOUS
      <3> HIDE DEF c
      <3> QED BY <1>1, <2>2, <2>7, <3>1, PutGood
    <2>9. h = Attach(u, p, z)
      BY <1>6 DEF RebindAt, AttachNew, S, e
    <2>10. z \in BOOLEAN /\ u.addr[p] = a
      BY <2>3, <2>8 DEF Registers
    <2> HIDE DEF O, u, h
    <2>11. /\ Good(h, K, W, D) /\ h.surf = u.surf /\ Live(h) = Live(u)
           /\ h.bind[p] = a /\ h.bind[o] = u.bind[o]
           /\ h.addr = u.addr /\ h.clip = u.clip /\ h.last = u.last
           /\ h.drawn = u.drawn /\ h.bad = u.bad
           /\ h.stale = (u.stale \cup (IF z THEN {"zeta"} ELSE {})) \ {p}
      <3> HIDE DEF z
      <3> QED BY <1>1, <2>8, <2>9, <2>10, AttachGood
    <2>12. /\ h.addr = g.addr /\ h.clip = g.clip /\ h.last = g.last /\ h.drawn = g.drawn
           /\ h.bad = g.bad /\ u.stale = g.stale
      BY <2>2, <2>8, <2>11 DEF Registers
    <2>13. u.bind[o] \in {g.bind[o], NoAddr} /\ (o \notin g.stale => u.bind[o] = g.bind[o])
      BY <1>1, <2>3, <2>6, <2>8 DEF Unbound
    <2>14. u.bind[o] # NoAddr => u.bind[o] \in Live(u) /\ u.bind[o] # a
      BY <1>1, <2>8, <2>13, SoundTyped DEF Good, o
    <2>15. \A b \in Live(u) : b # a => u.surf[b] = g.surf[b]
      <3>1. \A b \in Live(u) : b \in Addrs
        BY DEF Live
      <3> QED BY <2>4, <2>8, <3>1
    <2>16. Kept(g, h, a)
      BY <2>8, <2>11, <2>15 DEF Kept
    <2>17. p = "zeta" => h.stale \subseteq g.stale /\ SizesMatch(h)
      <3> SUFFICES ASSUME p = "zeta" PROVE h.stale \subseteq g.stale /\ SizesMatch(h)
        OBVIOUS
      <3>1. o = "color" /\ ~z
        BY DEF o, Other
      <3>2. h.stale \subseteq g.stale
        BY <2>11, <2>12, <3>1
      <3>3. ASSUME h.bind["color"] # NoAddr
            PROVE  h.surf[h.bind["color"]].size = n
        <4>1. u.bind["color"] # NoAddr /\ u.bind["color"] = h.bind["color"]
          BY <2>11, <3>1, <3>3
        <4>2. u.bind["color"] = g.bind["color"] /\ g.bind["color"] # NoAddr
          BY <2>13, <3>1, <4>1
        <4>3. u.surf[g.bind["color"]] = g.surf[g.bind["color"]]
          BY <2>14, <2>15, <3>1, <4>1, <4>2
        <4> QED BY <2>11, <4>1, <4>2, <4>3
      <3>4. h.bind["zeta"] = a /\ h.surf[a].size = n
        BY <2>8, <2>11
      <3> QED BY <3>2, <3>3, <3>4 DEF SizesMatch
    <2>18. p = "color" /\ "zeta" \notin h.stale => SizesMatch(h)
      <3> SUFFICES ASSUME p = "color", "zeta" \notin h.stale PROVE SizesMatch(h)
        OBVIOUS
      <3>1. o = "zeta" /\ ~z
        BY <2>11 DEF o, Other
      <3>2. u.bind["zeta"] # NoAddr => u.surf[u.bind["zeta"]].size = n
        BY <3>1
      <3> QED BY <2>8, <2>11, <3>1, <3>2 DEF SizesMatch
    <2>19. o \notin g.stale =>
               /\ h.bind[o] = g.bind[o]
               /\ g.bind[o] # NoAddr => h.surf[g.bind[o]] = g.surf[g.bind[o]]
      BY <2>11, <2>13, <2>14, <2>15
    <2>20. /\ g.stale \subseteq h.stale \cup {p} /\ p \notin h.stale
           /\ h.bind[o] \in {g.bind[o], NoAddr}
      BY <2>11, <2>12, <2>13
    <2>21. a \in Live(h) /\ h.bind[p] = a /\ h.surf[a].size >= n
      BY <1>1, <2>8, <2>11
    <2> QED BY <2>11, <2>12, <2>16, <2>17, <2>18, <2>19, <2>20, <2>21 DEF Rebound, o, h
  <1> QED BY <1>5, <1>6
-------------------------------------------------------------------------------
(* update_surface_part.                                                      *)
LEMMA RebindGood ==
    ASSUME NEW g, NEW K, NEW W, NEW D, Good(g, K, W, D), NEW p \in Parts,
           TargetsApart(g), AtTarget(g, Other(p)), g.bind[p] = NoAddr,
           p = "zeta" /\ g.bind["color"] # NoAddr => "color" \notin g.stale
    PROVE  LET h == Rebind(g, p)
           IN  /\ Good(h, K, W, D) /\ Rebound(g, h, p) /\ h.drawn = g.drawn
               /\ TargetSize(g, p) \in Nat /\ h.surf[g.addr[p]].size >= TargetSize(g, p)
  <1> DEFINE o == Other(p)
             k == Freed(g, p)
             n == TargetSize(g, p)
             h == RebindAt(k, p, n)
  <1>1. g \in Sound /\ o \in Parts /\ o # p /\ g.addr[p] # g.addr[o]
    BY ReachRules DEF Good
  <1>2. n \in Sizes /\ n \in Nat
    <2>1. g.clip \in Sizes /\ (g.bind["color"] # NoAddr => g.bind["color"] \in Live(g))
      BY <1>1, SoundTyped DEF Parts
    <2>2. n \in Sizes
      BY <1>1, <2>1, CoverRules DEF TargetSize
    <2> QED BY <2>2, Constants
  <1>3. /\ Good(k, K, W, D) /\ Registers(g, k) /\ k.surf = g.surf /\ Live(k) = Live(g)
        /\ k.bind[p] = NoAddr /\ k.bind[o] # g.addr[p] /\ k.bind[o] \in {g.bind[o], NoAddr}
        /\ g.bind[o] # g.addr[p] => k.bind[o] = g.bind[o]
    BY FreedGood
  <1>4. o \notin g.stale => k.bind[o] = g.bind[o]
    BY <1>1, <1>3 DEF AtTarget
  <1>5. /\ k.addr = g.addr /\ k.clip = g.clip /\ k.last = g.last /\ k.bad = g.bad
        /\ k.stale = g.stale /\ k.drawn = g.drawn
    BY <1>3 DEF Registers
  <1> HIDE DEF k, n
  <1>6. TargetsApart(k) /\ AtTarget(k, o) /\ k.bind[o] # k.addr[p]
    BY <1>3, <1>5 DEF TargetsApart, Reach, AtTarget
  <1>7. p = "zeta" /\ k.bind["color"] # NoAddr =>
            "color" \notin k.stale /\ n = k.surf[k.bind["color"]].size
    <2> SUFFICES ASSUME p = "zeta", k.bind["color"] # NoAddr
                 PROVE  "color" \notin k.stale /\ n = k.surf[k.bind["color"]].size
      OBVIOUS
    <2>1. o = "color"
      BY DEF Other
    <2>2. k.bind["color"] = g.bind["color"] /\ "color" \notin g.stale
      BY <1>3, <2>1
    <2>3. n = g.surf[g.bind["color"]].size
      BY <2>2 DEF n, TargetSize
    <2> QED BY <1>3, <1>5, <2>2, <2>3
  <1>8. Good(h, K, W, D) /\ Rebound(k, h, p) /\ h.drawn = k.drawn /\ h.surf[k.addr[p]].size >= n
    BY <1>2, <1>3, <1>6, <1>7, RebindAtGood
  <1>9. Rebind(g, p) = h
    BY DEF Rebind, k, n
  <1> HIDE DEF h, o
  <1>10. Kept(g, h, g.addr[p])
    BY <1>3, <1>5, <1>8 DEF Rebound, Kept
  <1>11. Rebound(g, h, p)
    BY <1>3, <1>4, <1>5, <1>8, <1>10 DEF Rebound, o
  <1> QED BY <1>2, <1>5, <1>8, <1>9, <1>11 DEF n

(* A state that differs at most in what is marked as drawn.                  *)
ButDrawn(g, h) ==
    /\ h.surf = g.surf /\ h.bind = g.bind /\ h.addr = g.addr /\ h.clip = g.clip
    /\ h.last = g.last /\ h.stale = g.stale /\ h.bad = g.bad

LEMMA DrawnGood ==
    ASSUME NEW g, NEW K, NEW W, NEW D, Good(g, K, W, D), NEW d \in SUBSET Parts
    PROVE  LET h == [g EXCEPT !.drawn = d]
           IN  Good(h, K, W, D) /\ ButDrawn(g, h) /\ h.drawn = d /\ Live(h) = Live(g)
  <1> DEFINE h == [g EXCEPT !.drawn = d]
  <1>1. g \in Sound
    BY DEF Good
  <1>2. /\ h \in GPU /\ h.fresh = g.fresh /\ ButDrawn(g, h) /\ h.drawn = d
    BY <1>1, SoundTyped DEF GPU, ButDrawn
  <1> HIDE DEF h
  <1>3. h \in Sound
    BY <1>1, <1>2, MarksSound DEF ButDrawn
  <1>4. Good(h, K, W, D) /\ Live(h) = Live(g)
    BY <1>2, <1>3, GoodSame DEF ButDrawn
  <1> QED BY <1>2, <1>4 DEF h

(* update_surface_part where it has nothing to do, and where it binds.       *)
LEMMA UpdatePartGood ==
    ASSUME NEW g, NEW K, NEW W, NEW D, Good(g, K, W, D), NEW p \in Parts, NEW upload \in BOOLEAN,
           g.bind[p] # NoAddr => ~upload \/ p \notin g.stale,
           g.bind[p] = NoAddr => /\ TargetsApart(g) /\ AtTarget(g, Other(p))
                                 /\ p = "zeta" /\ g.bind["color"] # NoAddr => "color" \notin g.stale
    PROVE  LET h == UpdatePart(g, upload, p)
           IN  /\ Good(h, K, W, D) /\ h.drawn = IF upload THEN g.drawn ELSE g.drawn \ {p}
               /\ g.bind[p] # NoAddr => ButDrawn(g, h) /\ Live(h) = Live(g)
               /\ g.bind[p] = NoAddr => /\ Rebound(g, h, p) /\ TargetSize(g, p) \in Nat
                                        /\ h.surf[g.addr[p]].size >= TargetSize(g, p)
  <1> DEFINE k == Refresh(g, upload, p)
             d == IF upload THEN k.drawn ELSE k.drawn \ {p}
             h == [k EXCEPT !.drawn = d]
  <1>1. /\ g.bind[p] # NoAddr => k = g
        /\ g.bind[p] = NoAddr => k = Rebind(g, p)
    BY DEF Refresh
  <1>2. /\ Good(k, K, W, D) /\ k.drawn = g.drawn
        /\ g.bind[p] = NoAddr => /\ Rebound(g, k, p) /\ TargetSize(g, p) \in Nat
                                 /\ k.surf[g.addr[p]].size >= TargetSize(g, p)
    BY <1>1, RebindGood
  <1>3. UpdatePart(g, upload, p) = h
    BY DEF UpdatePart
  <1> HIDE DEF k
  <1>4. d \in SUBSET Parts
    BY <1>2, SoundTyped DEF Good, GPU
  <1> HIDE DEF d
  <1>5. Good(h, K, W, D) /\ ButDrawn(k, h) /\ h.drawn = d /\ Live(h) = Live(k)
    BY <1>2, <1>4, DrawnGood
  <1> HIDE DEF h
  <1>6. g.bind[p] = NoAddr => Rebound(g, h, p) /\ h.surf[g.addr[p]].size >= TargetSize(g, p)
    BY <1>2, <1>5 DEF Rebound, ButDrawn, Kept, SizesMatch
  <1> QED BY <1>1, <1>2, <1>3, <1>5, <1>6 DEF d

(* Between methods: a binding that is not stale is to the target and large   *)
(* enough for the last shape; both have the same size; what has been drawn   *)
(* to has not moved since; and the surface on display awaits no upload.      *)
Tied(g, p) ==
    g.bind[p] # NoAddr /\ p \notin g.stale =>
        g.bind[p] = g.addr[p] /\ g.surf[g.bind[p]].size >= g.last
Firm(g, p) == g.bind[p] # NoAddr => p \notin g.stale
DrawnKept(g) ==
    /\ g.drawn # {} => /\ g.clip = g.last /\ TargetsApart(g)
                       /\ Firm(g, "color") /\ Firm(g, "zeta")
    /\ "color" \in g.drawn => g.bind["color"] # NoAddr
Ready(g) == \A a \in Live(g) \cap Displayed : ~g.surf[a].up
Calm(g) == Tied(g, "color") /\ Tied(g, "zeta") /\ SizesMatch(g) /\ DrawnKept(g) /\ Ready(g)

LEMMA UpdateNoUploadGood ==
    ASSUME DisplayKept, NEW g, NEW K, NEW W, NEW D, Good(g, K, W, D), Calm(g)
    PROVE  LET h == UpdateNoUpload(g, Parts)
           IN  /\ Good(h, K, W, D) /\ Calm(h) /\ h.drawn = {}
               /\ h.addr = g.addr /\ h.bad = g.bad /\ Kept(g, h, g.addr["zeta"])
  <1> DEFINE Step(h, p) == IF p \in h.drawn \cap Parts THEN UpdatePart(h, FALSE, p) ELSE h
             c == Step(g, "color")
             z == Step(c, "zeta")
  <1>1. /\ g \in Sound /\ g.drawn \in SUBSET Parts /\ "color" \in Parts /\ "zeta" \in Parts
        /\ Other("zeta") = "color" /\ g.addr["zeta"] \in ZetaAddrs /\ g.clip \in Nat
    BY SoundTyped, Constants DEF Good, GPU, Parts, Other
  <1>2. /\ Good(c, K, W, D) /\ ButDrawn(g, c) /\ c.drawn = g.drawn \ {"color"} /\ Live(c) = Live(g)
    <2>1. CASE "color" \in g.drawn
      <3>1. g.bind["color"] # NoAddr
        BY <2>1 DEF Calm, DrawnKept
      <3>2. c = UpdatePart(g, FALSE, "color")
        BY <1>1, <2>1
      <3> HIDE DEF c
      <3> QED BY <1>1, <3>1, <3>2, UpdatePartGood
    <2>2. CASE "color" \notin g.drawn
      BY <2>2 DEF ButDrawn
    <2> QED BY <2>1, <2>2
  <1> HIDE DEF c
  <1>3. /\ Good(z, K, W, D) /\ z.drawn = {} /\ z.addr = g.addr /\ z.bad = g.bad
        /\ z.last = g.last /\ Tied(z, "color") /\ Tied(z, "zeta") /\ SizesMatch(z)
        /\ Kept(g, z, g.addr["zeta"])
    <2>0. /\ Tied(c, "color") /\ Tied(c, "zeta") /\ SizesMatch(c) /\ Kept(g, c, g.addr["zeta"])
          /\ c.addr = g.addr /\ c.bad = g.bad /\ c.last = g.last
      BY <1>2 DEF Calm, ButDrawn, Tied, SizesMatch, Kept
    <2>1. CASE "zeta" \notin g.drawn
      <3>1. z = c /\ c.drawn = {}
        BY <1>1, <1>2, <2>1 DEF Parts
      <3> QED BY <1>2, <2>0, <3>1
    <2>2. CASE "zeta" \in g.drawn /\ c.bind["zeta"] # NoAddr
      <3>1. z = UpdatePart(c, FALSE, "zeta")
        BY <1>1, <1>2, <2>2
      <3>2. /\ Good(z, K, W, D) /\ z.drawn = c.drawn \ {"zeta"} /\ ButDrawn(c, z)
            /\ Live(z) = Live(c)
        BY <1>1, <1>2, <2>2, <3>1, UpdatePartGood
      <3> HIDE DEF z
      <3>3. z.drawn = {}
        BY <1>1, <1>2, <3>2 DEF Parts
      <3> QED BY <2>0, <3>2, <3>3 DEF ButDrawn, Tied, SizesMatch, Kept
    <2>3. CASE "zeta" \in g.drawn /\ c.bind["zeta"] = NoAddr
      <3>1. z = UpdatePart(c, FALSE, "zeta")
        BY <1>1, <1>2, <2>3
      <3>2. /\ TargetsApart(c) /\ Firm(c, "color") /\ AtTarget(c, "color") /\ c.clip = c.last
        BY <1>2, <2>0, <2>3 DEF Calm, DrawnKept, ButDrawn, TargetsApart, Reach, Firm, Tied, AtTarget
      <3>3. /\ Good(z, K, W, D) /\ z.drawn = c.drawn \ {"zeta"} /\ Rebound(c, z, "zeta")
            /\ TargetSize(c, "zeta") \in Nat
            /\ z.surf[c.addr["zeta"]].size >= TargetSize(c, "zeta")
        BY <1>1, <1>2, <2>3, <3>1, <3>2, UpdatePartGood, ZenonT(30) DEF Firm
      <3> HIDE DEF z
      <3>4. z.drawn = {}
        BY <1>1, <1>2, <3>3 DEF Parts
      <3>5. Tied(z, "color") /\ SizesMatch(z)
        <4>1. c.bind["color"] # NoAddr => "color" \notin c.stale
          BY <3>2 DEF Firm
        <4>2. /\ z.addr = c.addr /\ z.last = c.last /\ SizesMatch(z) /\ z.stale \subseteq c.stale
              /\ z.bind["color"] \in {c.bind["color"], NoAddr}
              /\ "color" \notin c.stale =>
                     /\ z.bind["color"] = c.bind["color"]
                     /\ c.bind["color"] # NoAddr =>
                            z.surf[c.bind["color"]] = c.surf[c.bind["color"]]
          BY <1>1, <3>3 DEF Rebound
        <4> QED BY <2>0, <4>1, <4>2 DEF Tied
      <3>6. TargetSize(c, "zeta") >= c.last
        BY <1>1, <1>2, <2>0, <3>2 DEF TargetSize, Tied, Firm, ButDrawn
      <3>7. Tied(z, "zeta")
        <4>1. /\ z.addr = c.addr /\ z.last = c.last /\ z.bind["zeta"] = c.addr["zeta"]
              /\ c.addr["zeta"] \in Live(z)
          BY <3>3 DEF Rebound
        <4>2. z.surf[c.addr["zeta"]].size \in Nat /\ c.last \in Nat
          BY <1>1, <1>2, <3>2, <3>3, <4>1, CoverRules DEF Good, ButDrawn
        <4> QED BY <3>3, <3>6, <4>1, <4>2 DEF Tied
      <3>8. Kept(g, z, g.addr["zeta"]) /\ z.addr = g.addr /\ z.bad = g.bad /\ z.last = g.last
        BY <1>2, <2>0, <3>3 DEF Rebound, Kept, ButDrawn
      <3> QED BY <3>3, <3>4, <3>5, <3>7, <3>8
    <2> QED BY <2>1, <2>2, <2>3
  <1>4. UpdateNoUpload(g, Parts) = MatchDims(z)
    BY DEF UpdateNoUpload, c
  <1> HIDE DEF z
  <1>5. MatchDims(z) = z
    BY <1>1, <1>3 DEF MatchDims, SizesMatch
  <1>6. Ready(z)
    <2>1. g.addr["zeta"] \notin Displayed
      BY <1>1 DEF DisplayKept
    <2>2. ASSUME NEW a \in Live(z) \cap Displayed
          PROVE  ~z.surf[a].up
      <3>1. z.surf[a] = g.surf[a]
        BY <1>3, <2>1 DEF Kept
      <3>2. a \in Live(g)
        BY <3>1 DEF Live
      <3> QED BY <3>1, <3>2 DEF Calm, Ready
    <2> QED BY <2>2 DEF Ready
  <1> QED BY <1>3, <1>4, <1>5, <1>6 DEF Calm, DrawnKept
-------------------------------------------------------------------------------
(* The targets of a draw.  A stale binding is given up first.                *)
LEMMA UnbindStaleGood ==
    ASSUME NEW g, NEW K, NEW W, NEW D, Good(g, K, W, D), NEW p \in Parts
    PROVE  LET h == UnbindStale(g, p)
           IN  /\ Good(h, K, W, D) /\ Registers(g, h) /\ h.surf = g.surf /\ Live(h) = Live(g)
               /\ h.bind[p] = (IF p \in g.stale THEN NoAddr ELSE g.bind[p])
               /\ \A r \in Parts : r # p => h.bind[r] = g.bind[r]
  BY UnbindGood DEF UnbindStale, Registers

(* One target of a draw, colour before depth.                                *)
LEMMA DrawStepGood ==
    ASSUME NEW g, NEW K, NEW W, NEW D, Good(g, K, W, D), NEW p \in Parts, NEW writes,
           TargetsApart(g), g.last = g.clip, Tied(g, "color"), Tied(g, "zeta"),
           p = "zeta" => Firm(g, "color"),
           SizesMatch(g) \/ (p = "zeta" /\ "zeta" \in g.stale)
    PROVE  LET h == PartForDraw(UnbindStale(g, p), writes, p)
           IN  /\ Good(h, K, W, D) /\ h.addr = g.addr /\ h.clip = g.clip /\ h.last = g.last
               /\ h.bad = g.bad /\ h.drawn = g.drawn
               /\ Tied(h, "color") /\ Tied(h, "zeta") /\ Firm(h, p)
               /\ p = "zeta" => Firm(h, "color") /\ SizesMatch(h)
               /\ p = "color" /\ "zeta" \notin h.stale => SizesMatch(h)
               /\ p \in writes => h.bind[p] # NoAddr
               /\ Firm(g, p) /\ g.bind[p] # NoAddr => h.bind[p] # NoAddr
               /\ Firm(g, Other(p)) /\ g.bind[Other(p)] # NoAddr =>
                      h.bind[Other(p)] = g.bind[Other(p)]
               /\ Kept(g, h, h.bind[p])
  <1> DEFINE o == Other(p)
             u == UnbindStale(g, p)
             h == PartForDraw(u, writes, p)
  <1>1. /\ g \in Sound /\ o \in Parts /\ o # p /\ g.clip \in Nat
        /\ (p = "color" /\ o = "zeta") \/ (p = "zeta" /\ o = "color")
    BY SoundTyped, Constants DEF Good, Other, Parts
  <1>2. /\ Good(u, K, W, D) /\ Registers(g, u) /\ u.surf = g.surf /\ Live(u) = Live(g)
        /\ u.bind[p] = (IF p \in g.stale THEN NoAddr ELSE g.bind[p]) /\ u.bind[o] = g.bind[o]
    BY <1>1, UnbindStaleGood
  <1> HIDE DEF u
  <1>3. /\ Tied(u, "color") /\ Tied(u, "zeta") /\ Firm(u, p) /\ (p = "zeta" => Firm(u, "color"))
        /\ SizesMatch(u) /\ TargetsApart(u) /\ u.last = u.clip
    <2>1. Firm(u, p) /\ TargetsApart(u) /\ u.last = u.clip
      BY <1>2 DEF Registers, Firm, TargetsApart, Reach
    <2>2. Tied(u, "color") /\ Tied(u, "zeta")
      BY <1>1, <1>2 DEF Registers, Tied
    <2>3. p = "zeta" => Firm(u, "color")
      BY <1>1, <1>2 DEF Registers, Firm
    <2>4. SizesMatch(u)
      BY <1>1, <1>2 DEF SizesMatch
    <2> QED BY <2>1, <2>2, <2>3, <2>4
  <1>4. CASE p \notin writes \/ u.bind[p] # NoAddr
    <2>1. /\ Good(h, K, W, D) /\ ButDrawn(u, h) /\ h.drawn = u.drawn /\ Live(h) = Live(u)
      <3>1. CASE p \notin writes
        BY <1>2, <3>1 DEF PartForDraw, ButDrawn
      <3>2. CASE p \in writes /\ u.bind[p] # NoAddr
        <4>1. h = UpdatePart(u, TRUE, p)
          BY <3>2 DEF PartForDraw
        <4> HIDE DEF h
        <4> QED BY <1>2, <1>3, <3>2, <4>1, UpdatePartGood DEF Firm
      <3> QED BY <1>4, <3>1, <3>2
    <2> HIDE DEF h
    <2>2. /\ h.surf = g.surf /\ Live(h) = Live(g) /\ h.stale = g.stale /\ h.addr = g.addr
          /\ h.clip = g.clip /\ h.last = g.last /\ h.bad = g.bad /\ h.drawn = g.drawn
          /\ h.bind = u.bind
      BY <1>2, <2>1 DEF ButDrawn, Registers
    <2>3. /\ Tied(h, "color") /\ Tied(h, "zeta") /\ Firm(h, p) /\ (p = "zeta" => Firm(h, "color"))
          /\ SizesMatch(h)
      BY <1>3, <2>1 DEF ButDrawn, Tied, Firm, SizesMatch
    <2>4. Kept(g, h, h.bind[p])
      BY <2>2 DEF Kept
    <2>5. Firm(g, p) /\ g.bind[p] # NoAddr => h.bind[p] # NoAddr
      BY <1>2, <2>2 DEF Firm
    <2>6. p \in writes => h.bind[p] # NoAddr
      BY <1>4, <2>2
    <2> QED BY <1>2, <2>1, <2>2, <2>3, <2>4, <2>5, <2>6 DEF h, u, o
  <1>5. CASE p \in writes /\ u.bind[p] = NoAddr
    <2>1. h = UpdatePart(u, TRUE, p)
      BY <1>5 DEF PartForDraw
    <2>2. AtTarget(u, o) /\ (p = "zeta" /\ u.bind["color"] # NoAddr => "color" \notin u.stale)
      BY <1>1, <1>3 DEF Tied, AtTarget, Firm
    <2> HIDE DEF h
    <2>3. /\ Good(h, K, W, D) /\ h.drawn = u.drawn /\ Rebound(u, h, p)
          /\ TargetSize(u, p) \in Nat /\ h.surf[u.addr[p]].size >= TargetSize(u, p)
      BY <1>2, <1>3, <1>5, <2>1, <2>2, UpdatePartGood DEF o
    <2>4. /\ h.addr = g.addr /\ h.clip = g.clip /\ h.last = g.last /\ h.bad = g.bad
          /\ h.drawn = g.drawn /\ h.bind[p] = g.addr[p] /\ p \notin h.stale /\ g.addr[p] \in Live(h)
          /\ h.bind[o] \in {g.bind[o], NoAddr}
          /\ o \notin g.stale => /\ h.bind[o] = g.bind[o]
                                 /\ g.bind[o] # NoAddr => h.surf[g.bind[o]] = g.surf[g.bind[o]]
          /\ g.stale \subseteq h.stale \cup {p}
      BY <1>2, <2>3 DEF Rebound, Registers, o
    <2>5. h.bind[p] # NoAddr
      BY <2>3, <2>4, CoverRules DEF Good
    <2>6. TargetSize(u, p) >= u.last
      <3>1. u.clip \in Nat /\ u.clip >= u.last /\ u.last \in Nat
        BY <1>1, <1>2, <1>3 DEF Registers
      <3>2. CASE TargetSize(u, p) = u.clip
        BY <3>1, <3>2
      <3>3. CASE TargetSize(u, p) # u.clip
        <4>1. /\ p = "zeta" /\ u.bind["color"] # NoAddr
              /\ TargetSize(u, p) = u.surf[u.bind["color"]].size
          BY <1>1, <3>3 DEF TargetSize
        <4> QED BY <1>3, <4>1 DEF Firm, Tied
      <3> QED BY <3>2, <3>3
    <2>7. h.surf[g.addr[p]].size >= g.last
      <3>1. h.surf[g.addr[p]].size \in Nat /\ u.last \in Nat /\ u.last = g.last /\ u.addr = g.addr
        BY <1>1, <1>2, <1>3, <2>3, <2>4, CoverRules DEF Good, Registers
      <3> QED BY <2>3, <2>6, <3>1
    <2>8. Tied(h, p) /\ Firm(h, p)
      BY <2>4, <2>7 DEF Tied, Firm
    <2>9. Tied(h, o)
      <3> SUFFICES ASSUME h.bind[o] # NoAddr, o \notin h.stale
                   PROVE  h.bind[o] = h.addr[o] /\ h.surf[h.bind[o]].size >= h.last
        BY DEF Tied
      <3>1. o \notin g.stale
        BY <1>1, <2>4
      <3>2. h.bind[o] = g.bind[o] /\ h.surf[g.bind[o]] = g.surf[g.bind[o]] /\ g.bind[o] # NoAddr
        BY <2>4, <3>1
      <3>3. g.bind[o] = g.addr[o] /\ g.surf[g.bind[o]].size >= g.last
        BY <1>1, <3>1, <3>2 DEF Tied
      <3> QED BY <2>4, <3>2, <3>3
    <2>10. Tied(h, "color") /\ Tied(h, "zeta")
      BY <1>1, <2>8, <2>9
    <2>11. p = "zeta" => Firm(h, "color") /\ SizesMatch(h)
      BY <1>1, <1>2, <1>3, <2>3, <2>4 DEF Rebound, Firm, Registers
    <2>12. p = "color" /\ "zeta" \notin h.stale => SizesMatch(h)
      BY <2>3 DEF Rebound
    <2>13. Kept(g, h, h.bind[p])
      BY <1>2, <2>3, <2>4 DEF Rebound, Kept, Registers
    <2>14. Firm(g, o) /\ g.bind[o] # NoAddr => h.bind[o] = g.bind[o]
      BY <2>4 DEF Firm
    <2> QED BY <2>3, <2>4, <2>5, <2>8, <2>10, <2>11, <2>12, <2>13, <2>14 DEF h, u, o
  <1> QED BY <1>4, <1>5

(* The surfaces that a draw is about to use.                                 *)
DrawTargets(g, writes) ==
    LET Step(h, p) == PartForDraw(UnbindStale(h, p), writes, p)
    IN  Step(Step(Reshape(g), "color"), "zeta")

LEMMA ReshapeGood ==
    ASSUME NEW g, NEW K, NEW W, NEW D, Good(g, K, W, D)
    PROVE  LET h == Reshape(g)
           IN  /\ Good(h, K, W, D) /\ h.addr = g.addr /\ h.clip = g.clip /\ h.last = g.clip
               /\ h.bad = g.bad /\ h.drawn = g.drawn /\ h.bind = g.bind /\ h.surf = g.surf
               /\ Live(h) = Live(g)
               /\ h.stale = IF g.clip = g.last THEN g.stale ELSE Parts
  <1>1. CASE g.clip = g.last
    BY <1>1 DEF Reshape
  <1>2. CASE g.clip # g.last
    <2> DEFINE h == [g EXCEPT !.last = g.clip, !.stale = Parts]
    <2>1. g \in Sound
      BY DEF Good
    <2>2. /\ h \in GPU /\ h.surf = g.surf /\ h.bind = g.bind /\ h.fresh = g.fresh
          /\ h.addr = g.addr /\ h.clip = g.clip /\ h.last = g.clip /\ h.stale = Parts
          /\ h.bad = g.bad /\ h.drawn = g.drawn
      BY <2>1, SoundTyped DEF GPU
    <2>3. Reshape(g) = h
      BY <1>2 DEF Reshape
    <2> HIDE DEF h
    <2>4. h \in Sound
      BY <2>1, <2>2, MarksSound
    <2>5. Good(h, K, W, D) /\ Live(h) = Live(g)
      BY <2>2, <2>4, GoodSame
    <2> QED BY <1>2, <2>2, <2>3, <2>5
  <1> QED BY <1>1, <1>2

LEMMA DrawTargetsGood ==
    ASSUME DisplayKept, NEW g, NEW K, NEW W, NEW D, Good(g, K, W, D), Calm(g), TargetsApart(g),
           NEW writes \in SUBSET Parts
    PROVE  LET h == DrawTargets(g, writes)
           IN  /\ Good(h, K, W, D) /\ h.addr = g.addr /\ h.clip = g.clip /\ h.last = g.clip
               /\ h.bad = g.bad /\ h.drawn = g.drawn /\ SizesMatch(h)
               /\ \A p \in Parts : Tied(h, p) /\ Firm(h, p)
               /\ \A p \in writes : h.bind[p] # NoAddr
               /\ "color" \in g.drawn => h.bind["color"] # NoAddr
               /\ \A a \in Live(h) \cap Displayed : h.surf[a].up => a = h.bind["color"]
  <1> DEFINE r == Reshape(g)
             c == PartForDraw(UnbindStale(r, "color"), writes, "color")
             h == PartForDraw(UnbindStale(c, "zeta"), writes, "zeta")
  <1>0. /\ "color" \in Parts /\ "zeta" \in Parts
        /\ Other("color") = "zeta" /\ Other("zeta") = "color"
        /\ "color" # "zeta" /\ \A p \in Parts : p = "color" \/ p = "zeta"
    BY DEF Parts, Other
  <1>1. /\ Good(r, K, W, D) /\ r.addr = g.addr /\ r.clip = g.clip /\ r.last = g.clip
        /\ r.bad = g.bad /\ r.drawn = g.drawn /\ r.bind = g.bind /\ r.surf = g.surf
        /\ Live(r) = Live(g) /\ r.stale = IF g.clip = g.last THEN g.stale ELSE Parts
    BY ReshapeGood
  <1> HIDE DEF r
  <1>2. TargetsApart(r) /\ Tied(r, "color") /\ Tied(r, "zeta") /\ SizesMatch(r)
    BY <1>0, <1>1 DEF Calm, TargetsApart, Reach, Tied, SizesMatch
  <1>3. /\ Good(c, K, W, D) /\ c.addr = r.addr /\ c.clip = r.clip /\ c.last = r.last
        /\ c.bad = r.bad /\ c.drawn = r.drawn /\ Tied(c, "color") /\ Tied(c, "zeta")
        /\ Firm(c, "color") /\ ("zeta" \notin c.stale => SizesMatch(c))
        /\ ("color" \in writes => c.bind["color"] # NoAddr)
        /\ (Firm(r, "color") /\ r.bind["color"] # NoAddr => c.bind["color"] # NoAddr)
        /\ Kept(r, c, c.bind["color"])
    BY <1>0, <1>1, <1>2, DrawStepGood
  <1> HIDE DEF c
  <1>4. TargetsApart(c) /\ c.last = c.clip
    BY <1>1, <1>2, <1>3 DEF TargetsApart, Reach
  <1>5. /\ Good(h, K, W, D) /\ h.addr = c.addr /\ h.clip = c.clip /\ h.last = c.last
        /\ h.bad = c.bad /\ h.drawn = c.drawn /\ Tied(h, "color") /\ Tied(h, "zeta")
        /\ Firm(h, "zeta") /\ Firm(h, "color") /\ SizesMatch(h)
        /\ ("zeta" \in writes => h.bind["zeta"] # NoAddr)
        /\ (Firm(c, "color") /\ c.bind["color"] # NoAddr => h.bind["color"] = c.bind["color"])
        /\ Kept(c, h, h.bind["zeta"])
    BY <1>0, <1>3, <1>4, DrawStepGood
  <1>6. DrawTargets(g, writes) = h
    BY DEF DrawTargets, c, r
  <1> HIDE DEF h
  <1>7. "color" \in g.drawn => h.bind["color"] # NoAddr
    <2> SUFFICES ASSUME "color" \in g.drawn PROVE h.bind["color"] # NoAddr
      OBVIOUS
    <2>1. g.bind["color"] # NoAddr /\ g.clip = g.last /\ Firm(g, "color")
      BY DEF Calm, DrawnKept
    <2>2. Firm(r, "color") /\ r.bind["color"] # NoAddr
      BY <1>1, <2>1 DEF Firm
    <2> QED BY <1>3, <1>5, <2>2
  <1>8. \A p \in writes : h.bind[p] # NoAddr
    BY <1>0, <1>3, <1>5
  <1>9. ASSUME NEW a \in Live(h) \cap Displayed, h.surf[a].up
        PROVE  a = h.bind["color"]
    <2>1. a # h.bind["zeta"]
      <3>1. g \in Sound /\ h.addr = g.addr
        BY <1>1, <1>3, <1>5 DEF Good
      <3>2. h.addr["zeta"] \in ZetaAddrs
        BY <3>1, SoundTyped DEF GPU
      <3>3. h.bind["zeta"] # NoAddr => h.bind["zeta"] = h.addr["zeta"]
        BY <1>5 DEF Firm, Tied
      <3>4. a \notin ZetaAddrs /\ a # NoAddr
        BY <1>5, CoverRules DEF DisplayKept, Good
      <3> QED BY <3>2, <3>3, <3>4
    <2>2. h.surf[a] = c.surf[a] /\ a \in Live(c)
      BY <1>5, <2>1 DEF Kept, Live
    <2>3. a = c.bind["color"]
      <3> SUFFICES ASSUME a # c.bind["color"] PROVE FALSE
        OBVIOUS
      <3>1. c.surf[a] = g.surf[a]
        BY <1>1, <1>3, <2>2 DEF Kept
      <3>2. a \in Live(g)
        BY <2>2, <3>1 DEF Live
      <3> QED BY <1>9, <2>2, <3>1, <3>2 DEF Calm, Ready
    <2>4. a # NoAddr
      BY <1>5, CoverRules DEF Good
    <2> QED BY <1>3, <1>5, <2>3, <2>4
  <1> QED BY <1>0, <1>1, <1>3, <1>5, <1>6, <1>7, <1>8, <1>9
-------------------------------------------------------------------------------
(* A surface that the CPU is not at has the newest data once it is uploaded. *)
LEMMA UploadGood ==
    ASSUME NEW g, NEW K, NEW W \in SUBSET K, NEW D, Good(g, K, W, D), NEW a \in Live(g),
           ~Touches(g, a, K)
    PROVE  LET h == Upload(g, a)
           IN  /\ Good(h, K, W, D) /\ Registers(g, h) /\ h.bind = g.bind /\ SameSize(g, h)
               /\ ~h.surf[a].up /\ \A b \in Addrs : b # a => h.surf[b] = g.surf[b]
  <1>0. /\ g \in Sound /\ a \in Addrs /\ a # Ram /\ Cover(g, a) \in SUBSET Cells
        /\ g.surf \in [Addrs -> Surface] /\ g.surf[a] \in Surface
    BY CoverRules, SoundTyped DEF Good
  <1>1. CASE ~g.surf[a].up
    BY <1>1 DEF Upload, Registers, SameSize
  <1>2. CASE g.surf[a].up
    <2> DEFINE h == Upload(g, a)
               t == [g.surf[a] EXCEPT !.up = FALSE]
               f == [c \in Cells |-> IF c \notin Cover(g, a) THEN g.fresh[c]
                                     ELSE IF Ram \in g.fresh[c] THEN g.fresh[c] \cup {a}
                                     ELSE g.fresh[c] \ {a}]
    <2>1. ~g.surf[a].dirty /\ ~g.surf[a].down
      BY <1>2 DEF Good, SurfTrue
    <2>2. \A c \in Cover(g, a) : Ram \in g.fresh[c]
      <3> SUFFICES ASSUME NEW c \in Cover(g, a), Ram \notin g.fresh[c] PROVE FALSE
        OBVIOUS
      <3>1. PICK b \in Live(g) : c \in Cover(g, b) /\ g.surf[b].dirty
        BY <1>0 DEF Good, RamTrue
      <3>2. b # a
        BY <2>1, <3>1
      <3> QED BY <1>0, <3>1, <3>2, CoverRules
    <2>3. t.size = g.surf[a].size /\ ~t.up /\ ~t.dirty /\ ~t.down
      BY <1>0, <2>1 DEF Surface
    <2>4. /\ \A c \in Cover(g, a) : f[c] = g.fresh[c] \cup {a}
          /\ \A c \in Cells : c \notin Cover(g, a) => f[c] = g.fresh[c]
      BY <1>0, <2>2
    <2> HIDE DEF f, t
    <2>5. h = [[g EXCEPT !.fresh = f] EXCEPT !.surf[a] = t]
      <3>1. [g EXCEPT !.fresh = f].surf = g.surf
        BY <1>0, SoundTyped DEF GPU
      <3> QED BY <1>2, <3>1 DEF Upload, Copy, f, t
    <2>6. h \in Sound /\ SameSize(g, h) /\ h.bind = g.bind
      BY <1>0, UploadSound
    <2> HIDE DEF h
    <2>7. h.surf = [g.surf EXCEPT ![a] = t] /\ h.fresh = f /\ Registers(g, h)
      BY <1>0, <2>5, SoundTyped DEF GPU, Registers
    <2>8. h.surf[a] = t /\ \A b \in Addrs : b # a => h.surf[b] = g.surf[b]
      BY <1>0, <2>7
    <2>9. Live(h) = Live(g) /\ \A b \in Addrs : Cover(h, b) = Cover(g, b)
      BY <2>6, SizeRules
    <2>10. ASSUME NEW b \in Live(h)
           PROVE  SurfTrue(h, b, K, W, D)
      <3>1. CASE b = a
        BY <1>0, <2>3, <2>4, <2>7, <2>8, <2>9, <3>1 DEF SurfTrue, Whole, Touches
      <3>2. CASE b # a
        <4>1. b \in Live(g) /\ SurfTrue(g, b, K, W, D) /\ b \in Addrs
          BY <2>9 DEF Good, Live
        <4>2. \A c \in Cover(g, b) : c \in Cells /\ c \notin Cover(g, a)
          BY <1>0, <3>2, <4>1, CoverRules
        <4>3. \A c \in Cover(g, b) : h.fresh[c] = g.fresh[c]
          BY <2>4, <2>7, <4>2
        <4> QED BY <2>8, <3>2, <4>1, <4>3, SurfKept
      <3> QED BY <3>1, <3>2
    <2>11. RamTrue(h)
      <3>1. \A c \in Cells : Ram \in g.fresh[c] => Ram \in h.fresh[c]
        BY <1>0, <2>4, <2>7
      <3>2. \A b \in Live(g) : g.surf[b].dirty => h.surf[b] = g.surf[b] /\ b \in Addrs
        BY <2>1, <2>8 DEF Live
      <3> QED BY <2>9, <3>1, <3>2 DEF Good, RamTrue
    <2> QED BY <2>3, <2>6, <2>7, <2>8, <2>10, <2>11 DEF Good, h
  <1> QED BY <1>1, <1>2

LEMMA UploadPartGood ==
    ASSUME NEW g, NEW K, NEW W \in SUBSET K, NEW D, Good(g, K, W, D), NEW p \in Parts,
           g.bind[p] # NoAddr => ~Touches(g, g.bind[p], K)
    PROVE  LET h == UploadPart(g, p)
           IN  /\ Good(h, K, W, D) /\ Registers(g, h) /\ h.bind = g.bind /\ SameSize(g, h)
               /\ g.bind[p] # NoAddr => ~h.surf[g.bind[p]].up
               /\ \A b \in Addrs : h.surf[b].up => g.surf[b].up
  <1>1. CASE g.bind[p] = NoAddr
    BY <1>1 DEF UploadPart, Registers, SameSize
  <1>2. CASE g.bind[p] # NoAddr
    <2> DEFINE a == g.bind[p]
               h == Upload(g, a)
    <2>1. a \in Live(g)
      BY <1>2, SoundTyped DEF Good
    <2>2. /\ Good(h, K, W, D) /\ Registers(g, h) /\ h.bind = g.bind /\ SameSize(g, h)
          /\ ~h.surf[a].up /\ \A b \in Addrs : b # a => h.surf[b] = g.surf[b]
      <3> HIDE DEF a
      <3> QED BY <1>2, <2>1, UploadGood DEF a
    <2> QED BY <1>2, <2>2 DEF UploadPart
  <1> QED BY <1>1, <1>2

LEMMA UploadBoundGood ==
    ASSUME NEW g, NEW K, NEW W \in SUBSET K, NEW D, Good(g, K, W, D),
           \A p \in Parts : g.bind[p] # NoAddr => ~Touches(g, g.bind[p], K)
    PROVE  LET h == UploadBound(g)
           IN  /\ Good(h, K, W, D) /\ Registers(g, h) /\ h.bind = g.bind /\ SameSize(g, h)
               /\ \A p \in Parts : g.bind[p] # NoAddr => ~h.surf[g.bind[p]].up
               /\ \A b \in Addrs : h.surf[b].up => g.surf[b].up
  <1> DEFINE c == UploadPart(g, "color")
             h == UploadPart(c, "zeta")
  <1>0. "color" \in Parts /\ "zeta" \in Parts /\ \A p \in Parts : p = "color" \/ p = "zeta"
    BY DEF Parts
  <1>1. /\ Good(c, K, W, D) /\ Registers(g, c) /\ c.bind = g.bind /\ SameSize(g, c)
        /\ g.bind["color"] # NoAddr => ~c.surf[g.bind["color"]].up
        /\ \A b \in Addrs : c.surf[b].up => g.surf[b].up
    BY <1>0, UploadPartGood
  <1> HIDE DEF c
  <1>2. \A p \in Parts : g.bind[p] # NoAddr => g.bind[p] \in Addrs
    BY SoundTyped DEF Good
  <1>3. c.bind["zeta"] # NoAddr => ~Touches(c, c.bind["zeta"], K)
    BY <1>0, <1>1, <1>2, SizeRules DEF Touches
  <1>4. /\ Good(h, K, W, D) /\ Registers(c, h) /\ h.bind = c.bind /\ SameSize(c, h)
        /\ c.bind["zeta"] # NoAddr => ~h.surf[c.bind["zeta"]].up
        /\ \A b \in Addrs : h.surf[b].up => c.surf[b].up
    BY <1>0, <1>1, <1>3, UploadPartGood
  <1>5. UploadBound(g) = h
    BY DEF UploadBound, c
  <1> HIDE DEF h
  <1>6. Registers(g, h) /\ SameSize(g, h)
    BY <1>1, <1>4 DEF Registers, SameSize
  <1> QED BY <1>0, <1>1, <1>2, <1>4, <1>5, <1>6

LEMMA ExpiredGood ==
    ASSUME NEW g, NEW K, NEW W, NEW D, Good(g, K, W, D), NEW h \in Expired(g)
    PROVE  /\ Good(h, K, W, D) /\ Registers(g, h)
           /\ \A p \in Parts : h.bind[p] = g.bind[p]
           /\ \A b \in Live(h) : b \in Live(g) /\ h.surf[b] = g.surf[b]
           /\ \A p \in Parts : g.bind[p] # NoAddr => h.surf[g.bind[p]] = g.surf[g.bind[p]]
  <1>1. PICK old \in SUBSET (Live(g) \ Bound(g)) : h = EvictAll(g, old)
    BY DEF Expired
  <1>2. /\ g \in Sound
        /\ \A p \in Parts : g.bind[p] # NoAddr => g.bind[p] \in Live(g) /\ g.bind[p] \in Addrs
    BY SoundTyped DEF Good
  <1>3. \A p \in Parts : g.bind[p] \notin old
    <2>1. NoAddr \notin Live(g)
      BY <1>2, CoverRules
    <2> QED BY <2>1 DEF Bound
  <1>4. /\ Good(h, K, W, D) /\ Registers(g, h) /\ Unbound(g, h, old)
        /\ \A b \in Addrs : h.surf[b] = IF b \in old THEN Absent ELSE g.surf[b]
    <2>1. MayGo(g, old) /\ old \in SUBSET Live(g)
      BY <1>3 DEF MayGo
    <2> QED BY <1>1, <2>1, EvictAllGood
  <1>5. \A b \in Live(h) : b \in Live(g) /\ h.surf[b] = g.surf[b]
    BY <1>4 DEF Live, Absent
  <1> QED BY <1>2, <1>3, <1>4, <1>5 DEF Unbound

(* What is left to do of a draw once its targets are up to date: mark them.  *)
Drawable(g, p, K) ==
    /\ g.bind[p] # NoAddr /\ ~g.surf[g.bind[p]].up
    /\ g.surf[g.bind[p]].size >= g.clip /\ ~Touches(g, g.bind[p], K)

Marked(g, h, ps) ==
    /\ h.bind = g.bind /\ h.addr = g.addr /\ h.clip = g.clip /\ h.last = g.last
    /\ h.stale = g.stale /\ h.bad = g.bad /\ h.drawn = g.drawn \cup ps /\ SameSize(g, h)
    /\ \A b \in Addrs : h.surf[b].up => g.surf[b].up

LEMMA MarkGood ==
    ASSUME NEW g, NEW K, NEW W \in SUBSET K, NEW D \in SUBSET K, Good(g, K, W, D),
           NEW p \in Parts, Drawable(g, p, K)
    PROVE  Good(Mark(g, p), K, W, D) /\ Marked(g, Mark(g, p), {p})
  <1> DEFINE a == g.bind[p]
             h == Mark(g, p)
             t == [g.surf[a] EXCEPT !.dirty = TRUE]
             f == [c \in Cells |-> IF c \in Span(a, g.clip) THEN {a} ELSE g.fresh[c]]
  <1>1. /\ g \in Sound /\ a \in Live(g) /\ g.clip \in Nat
        /\ a # NoAddr /\ ~g.surf[a].up /\ g.surf[a].size >= g.clip /\ ~Touches(g, a, K)
    BY SoundTyped, Constants DEF Good, Drawable
  <1>2. /\ a \in Addrs /\ a \in Nat /\ Cover(g, a) \in SUBSET Cells /\ g.surf[a].size \in Nat
        /\ g.surf \in [Addrs -> Surface] /\ g.surf[a] \in Surface
    BY <1>1, CoverRules, SoundTyped
  <1>3. Span(a, g.clip) \subseteq Cover(g, a)
    BY <1>1, <1>2 DEF Span, Cover
  <1>4. t.size = g.surf[a].size /\ t.up = g.surf[a].up /\ t.dirty
    BY <1>2 DEF Surface
  <1>5. Whole(g, a)
    BY <1>1 DEF Good, SurfTrue
  <1>6. /\ \A c \in Cover(g, a) : a \in f[c]
        /\ \A c \in Cells : c \notin Cover(g, a) => f[c] = g.fresh[c]
    BY <1>2, <1>3, <1>5 DEF Whole
  <1>7. h \in Sound
    BY <1>1, MarkSound
  <1>8. h = [[g EXCEPT !.fresh = f] EXCEPT !.drawn = g.drawn \cup {p}, !.surf[a] = t]
    <2>1. [g EXCEPT !.fresh = f].surf = g.surf /\ [g EXCEPT !.fresh = f].drawn = g.drawn
      BY <1>1, SoundTyped DEF GPU
    <2> QED BY <1>1, <2>1 DEF Mark, Written
  <1> HIDE DEF f, t, h, a
  <1>9. /\ h.surf = [g.surf EXCEPT ![a] = t] /\ h.fresh = f /\ h.bind = g.bind /\ h.addr = g.addr
        /\ h.clip = g.clip /\ h.last = g.last /\ h.stale = g.stale /\ h.bad = g.bad
        /\ h.drawn = g.drawn \cup {p}
    BY <1>1, <1>8, SoundTyped DEF GPU
  <1>10. h.surf[a] = t /\ \A b \in Addrs : b # a => h.surf[b] = g.surf[b]
    BY <1>2, <1>9
  <1>11. SameSize(g, h)
    BY <1>4, <1>10 DEF SameSize
  <1>12. Live(h) = Live(g) /\ \A b \in Addrs : Cover(h, b) = Cover(g, b)
    BY <1>11, SizeRules
  <1>13. ASSUME NEW b \in Live(h)
         PROVE  SurfTrue(h, b, K, W, D)
    <2>1. CASE b = a
      <3>1. ~Touches(h, a, K) /\ ~Touches(h, a, W) /\ ~Touches(h, a, D)
        BY <1>1, <1>2, <1>12 DEF Touches
      <3>2. Whole(h, a)
        BY <1>2, <1>6, <1>9, <1>12 DEF Whole
      <3>3. h.surf[a].dirty /\ ~h.surf[a].up
        BY <1>1, <1>4, <1>10
      <3> QED BY <2>1, <3>1, <3>2, <3>3 DEF SurfTrue
    <2>2. CASE b # a
      <3>1. b \in Live(g) /\ SurfTrue(g, b, K, W, D) /\ b \in Addrs
        BY <1>12 DEF Good, Live
      <3>2. \A c \in Cover(g, b) : c \in Cells /\ c \notin Cover(g, a)
        BY <1>1, <2>2, <3>1, CoverRules
      <3>3. \A c \in Cover(g, b) : h.fresh[c] = g.fresh[c]
        BY <1>6, <1>9, <3>2
      <3> QED BY <1>10, <2>2, <3>1, <3>3, SurfKept
    <2> QED BY <2>1, <2>2
  <1>14. RamTrue(h)
    <2>1. ASSUME NEW c \in Cells
          PROVE  Ram \in h.fresh[c] \/ \E b \in Live(h) : c \in Cover(h, b) /\ h.surf[b].dirty
      <3>1. CASE c \in Cover(g, a)
        BY <1>1, <1>2, <1>4, <1>10, <1>12, <3>1
      <3>2. CASE c \notin Cover(g, a)
        <4>1. h.fresh[c] = g.fresh[c]
          BY <1>6, <1>9, <3>2
        <4>2. \A b \in Live(g) : c \in Cover(g, b) => h.surf[b] = g.surf[b] /\ b \in Addrs
          BY <1>10, <3>2 DEF Live
        <4> QED BY <1>12, <4>1, <4>2 DEF Good, RamTrue
      <3> QED BY <3>1, <3>2
    <2> QED BY <2>1 DEF RamTrue
  <1>15. \A b \in Addrs : h.surf[b].up => g.surf[b].up
    BY <1>4, <1>10
  <1>16. Marked(g, h, {p})
    BY <1>9, <1>11, <1>15 DEF Marked
  <1> QED BY <1>7, <1>13, <1>14, <1>16 DEF Good, h

LEMMA MarkDrawnGood ==
    ASSUME NEW g, NEW K, NEW W \in SUBSET K, NEW D \in SUBSET K, Good(g, K, W, D),
           NEW writes \in SUBSET Parts, \A p \in writes : Drawable(g, p, K)
    PROVE  Good(MarkDrawn(g, writes), K, W, D) /\ Marked(g, MarkDrawn(g, writes), writes)
  <1> DEFINE Step(h, p) == IF p \in writes THEN Mark(h, p) ELSE h
             c == Step(g, "color")
             h == Step(c, "zeta")
  <1>0. "color" \in Parts /\ "zeta" \in Parts
    BY DEF Parts
  <1>1. Good(c, K, W, D) /\ Marked(g, c, writes \cap {"color"})
    <2>1. CASE "color" \in writes
      <3>1. c = Mark(g, "color") /\ Drawable(g, "color", K) /\ writes \cap {"color"} = {"color"}
        BY <2>1
      <3> QED BY <1>0, <3>1, MarkGood
    <2>2. CASE "color" \notin writes
      BY <2>2 DEF SameSize, Marked
    <2> QED BY <2>1, <2>2
  <1> HIDE DEF c
  <1>2. ASSUME "zeta" \in writes
        PROVE  Drawable(c, "zeta", K)
    <2>1. Drawable(g, "zeta", K) /\ g.bind["zeta"] \in Addrs
      BY <1>0, <1>2, SoundTyped DEF Drawable, Good
    <2> QED BY <1>1, <2>1, SizeRules DEF Drawable, SameSize, Touches, Marked
  <1>3. Good(h, K, W, D) /\ Marked(c, h, writes \cap {"zeta"})
    <2>1. CASE "zeta" \in writes
      <3>1. h = Mark(c, "zeta") /\ Drawable(c, "zeta", K) /\ writes \cap {"zeta"} = {"zeta"}
        BY <1>2, <2>1
      <3> QED BY <1>0, <1>1, <3>1, MarkGood
    <2>2. CASE "zeta" \notin writes
      BY <1>1, <2>2 DEF SameSize, Marked
    <2> QED BY <2>1, <2>2
  <1>4. MarkDrawn(g, writes) = h
    BY DEF MarkDrawn, c
  <1> HIDE DEF h
  <1>5. h.drawn = g.drawn \cup writes
    BY <1>1, <1>3 DEF Parts, Marked
  <1>6. SameSize(g, h)
    BY <1>1, <1>3 DEF SameSize, Marked
  <1>7. Marked(g, h, writes)
    BY <1>1, <1>3, <1>5, <1>6 DEF Marked
  <1> QED BY <1>3, <1>4, <1>7

(* The same surfaces are bound, and have the same size.                      *)
SameBound(g, h) ==
    \A p \in Parts : /\ h.bind[p] = g.bind[p]
                     /\ g.bind[p] # NoAddr => h.surf[g.bind[p]].size = g.surf[g.bind[p]].size

LEMMA UploadBoundKeeps ==
    ASSUME NEW g \in Sound
    PROVE  UploadBound(g) \in Sound /\ SameBound(g, UploadBound(g))
  <1>1. ASSUME NEW k \in Sound, NEW p \in Parts
        PROVE  /\ UploadPart(k, p) \in Sound /\ UploadPart(k, p).bind = k.bind
               /\ SameSize(k, UploadPart(k, p))
    BY SoundTyped, UploadSound DEF UploadPart, SameSize
  <1> DEFINE c == UploadPart(g, "color")
             h == UploadPart(c, "zeta")
  <1>2. c \in Sound /\ c.bind = g.bind /\ SameSize(g, c)
    BY <1>1 DEF Parts
  <1> HIDE DEF c
  <1>3. h \in Sound /\ h.bind = c.bind /\ SameSize(c, h)
    BY <1>1, <1>2 DEF Parts
  <1>4. UploadBound(g) = h
    BY DEF UploadBound, c
  <1> HIDE DEF h
  <1>5. \A p \in Parts : g.bind[p] # NoAddr => g.bind[p] \in Addrs
    BY SoundTyped
  <1> QED BY <1>2, <1>3, <1>4, <1>5 DEF SameBound, SameSize

LEMMA ExpiredKeeps ==
    ASSUME NEW g \in Sound, NEW h \in Expired(g)
    PROVE  h \in Sound /\ SameBound(g, h)
  <1>1. PICK old \in SUBSET (Live(g) \ Bound(g)) : h = EvictAll(g, old)
    BY DEF Expired
  <1>2. IsFiniteSet(old) /\ old \in SUBSET Live(g) /\ old \in SUBSET Addrs
    BY SoundTyped, FS_Subset
  <1>3. \A p \in Parts : g.bind[p] \notin old
    <2>1. NoAddr \notin Live(g)
      BY CoverRules
    <2> QED BY <2>1 DEF Bound
  <1> DEFINE Left(k, s) ==
                 /\ \A b \in Addrs : k.surf[b].size = IF b \in s THEN 0 ELSE g.surf[b].size
                 /\ \A p \in Parts : k.bind[p] = g.bind[p]
             G == [s \in SUBSET old |-> {k \in Sound : Left(k, s)}]
  <1>4. g \in G[{}]
    OBVIOUS
  <1>5. ASSUME NEW s \in SUBSET old, NEW x \in old \ s, NEW k \in G[s]
        PROVE  Evict(k, x) \in G[s \cup {x}]
    <2> DEFINE d == DownloadIfDirty(k, x)
               j == Invalidate(d, x)
    <2>1. /\ k \in Sound /\ \A p \in Parts : k.bind[p] = g.bind[p]
          /\ \A b \in Addrs : k.surf[b].size = IF b \in s THEN 0 ELSE g.surf[b].size
      OBVIOUS
    <2>2. x \in Addrs /\ x \in Live(k)
      BY <1>2, <2>1 DEF Live
    <2>3. d \in Sound /\ SameSize(k, d) /\ d.bind = k.bind
      BY <2>1, <2>2, DownloadIfDirtySound
    <2> HIDE DEF d
    <2>4. \A p \in Parts : d.bind[p] # x
      BY <1>3, <2>1, <2>3
    <2>5. /\ j \in Sound
          /\ \A b \in Addrs : j.surf[b].size = IF b = x THEN 0 ELSE d.surf[b].size
      BY <2>2, <2>3, InvalidateSound
    <2>6. \A p \in Parts : j.bind[p] = OtherThan(x, d.bind[p])
      <3>1. \A p \in Parts : d.bind[p] = x => p \in d.stale
        BY <2>4
      <3>2. \A p \in Parts : Invalidate(d, x).bind[p] = OtherThan(x, d.bind[p])
        BY <2>2, <2>3, <3>1, InvalidateFields
      <3> QED BY <3>2
    <2> HIDE DEF j
    <2>7. \A p \in Parts : j.bind[p] = g.bind[p]
      BY <2>1, <2>3, <2>4, <2>6 DEF OtherThan
    <2>8. \A b \in Addrs : j.surf[b].size = IF b \in s \cup {x} THEN 0 ELSE g.surf[b].size
      BY <2>1, <2>3, <2>5 DEF SameSize
    <2>9. s \cup {x} \in SUBSET old
      OBVIOUS
    <2>10. Evict(k, x) = j
      BY DEF Evict, j, d
    <2> QED BY <2>5, <2>7, <2>8, <2>9, <2>10
  <1>6. h \in G[old]
    <2> HIDE DEF G
    <2> QED BY <1>1, <1>2, <1>4, <1>5, EvictAllKeeps
  <1>7. \A p \in Parts : g.bind[p] # NoAddr => g.bind[p] \in Addrs
    BY SoundTyped
  <1> QED BY <1>3, <1>6, <1>7 DEF SameBound

LEMMA MarkKeeps ==
    ASSUME NEW g \in Sound, NEW p \in Parts
    PROVE  Mark(g, p) \in Sound /\ Mark(g, p).bind = g.bind /\ SameSize(g, Mark(g, p))
  <1> DEFINE a == g.bind[p]
  <1>1. Mark(g, p) \in Sound
    BY MarkSound
  <1>2. CASE a = NoAddr
    <2>1. /\ [g EXCEPT !.drawn = g.drawn \cup {p}].bind = g.bind
          /\ [g EXCEPT !.drawn = g.drawn \cup {p}].surf = g.surf
      BY SoundTyped DEF GPU
    <2> QED BY <1>1, <1>2, <2>1 DEF Mark, SameSize
  <1>3. CASE a # NoAddr
    <2> DEFINE k == Written(g, Span(a, g.clip), a)
               t == [g.surf[a] EXCEPT !.dirty = TRUE]
               h == [k EXCEPT !.drawn = k.drawn \cup {p}, !.surf[a] = t]
    <2>1. a \in Live(g) /\ a \in Addrs /\ g.surf[a] \in Surface
      BY <1>3, SoundTyped
    <2>2. k \in Sound /\ k.surf = g.surf /\ k.bind = g.bind
      BY <2>1, WrittenSound
    <2>3. Mark(g, p) = h
      BY <1>3, <2>2 DEF Mark
    <2>4. t.size = g.surf[a].size
      BY <2>1, SurfaceTyped
    <2> HIDE DEF k, t
    <2>5. h.bind = g.bind /\ h.surf = [g.surf EXCEPT ![a] = t]
      BY <2>2, SoundTyped DEF GPU
    <2> HIDE DEF h
    <2>6. SameSize(g, h)
      BY <2>1, <2>4, <2>5, SoundTyped DEF SameSize
    <2> QED BY <1>1, <2>3, <2>5, <2>6
  <1> QED BY <1>2, <1>3

LEMMA MarkDrawnKeeps ==
    ASSUME NEW g \in Sound, NEW writes
    PROVE  SameBound(g, MarkDrawn(g, writes))
  <1> DEFINE Step(h, p) == IF p \in writes THEN Mark(h, p) ELSE h
             c == Step(g, "color")
             h == Step(c, "zeta")
  <1>1. c \in Sound /\ c.bind = g.bind /\ SameSize(g, c)
    BY MarkKeeps DEF Parts, SameSize
  <1> HIDE DEF c
  <1>2. h \in Sound /\ h.bind = c.bind /\ SameSize(c, h)
    BY <1>1, MarkKeeps DEF Parts, SameSize
  <1>3. MarkDrawn(g, writes) = h
    BY DEF MarkDrawn, c
  <1> HIDE DEF h
  <1>4. \A p \in Parts : g.bind[p] # NoAddr => g.bind[p] \in Addrs
    BY SoundTyped
  <1> QED BY <1>1, <1>2, <1>3, <1>4 DEF SameBound, SameSize

(* A draw whose bound surfaces are not at the CPU's cells.                   *)
Clear(g, K) == \A p \in Parts : g.bind[p] # NoAddr => ~Touches(g, g.bind[p], K)

LEMMA DrawGood ==
    ASSUME DisplayKept, NEW g, NEW K, NEW W \in SUBSET K, NEW D \in SUBSET K, Good(g, K, W, D),
           Calm(g), TargetsApart(g), NEW writes \in SUBSET Parts,
           NEW e \in Expired(UpdateForDraw(g, writes)), Clear(MarkDrawn(e, writes), K)
    PROVE  LET h == MarkDrawn(e, writes)
           IN  Good(h, K, W, D) /\ Calm(h) /\ h.bad = g.bad
  <1> DEFINE t == DrawTargets(g, writes)
             u == UploadBound(t)
             h == MarkDrawn(e, writes)
  <1>0. "color" \in Parts /\ "zeta" \in Parts /\ \A p \in Parts : p = "color" \/ p = "zeta"
    BY DEF Parts
  <1>1. /\ Good(t, K, W, D) /\ t.addr = g.addr /\ t.clip = g.clip /\ t.last = g.clip
        /\ t.bad = g.bad /\ t.drawn = g.drawn /\ SizesMatch(t)
        /\ \A p \in Parts : Tied(t, p) /\ Firm(t, p)
        /\ \A p \in writes : t.bind[p] # NoAddr
        /\ "color" \in g.drawn => t.bind["color"] # NoAddr
        /\ \A a \in Live(t) \cap Displayed : t.surf[a].up => a = t.bind["color"]
    BY DrawTargetsGood
  <1>2. UpdateForDraw(g, writes) = MatchDims(u)
    BY DEF UpdateForDraw, DrawTargets
  <1> HIDE DEF t
  <1>3. t \in Sound /\ u \in Sound /\ SameBound(t, u)
    BY <1>1, UploadBoundKeeps DEF Good
  <1> HIDE DEF u
  <1>4. MatchDims(u) = u
    <2>1. SizesMatch(u)
      BY <1>0, <1>1, <1>3 DEF SizesMatch, SameBound
    <2> QED BY <1>0, <2>1 DEF MatchDims, SizesMatch
  <1>5. e \in Sound /\ SameBound(u, e)
    BY <1>2, <1>3, <1>4, ExpiredKeeps
  <1>6. SameBound(e, h)
    BY <1>5, MarkDrawnKeeps
  <1> HIDE DEF h
  <1>7. SameBound(t, e) /\ SameBound(t, h)
    <2>1. ASSUME NEW p \in Parts
          PROVE  /\ e.bind[p] = t.bind[p] /\ h.bind[p] = t.bind[p]
                 /\ t.bind[p] # NoAddr =>
                        /\ e.surf[t.bind[p]].size = t.surf[t.bind[p]].size
                        /\ h.surf[t.bind[p]].size = t.surf[t.bind[p]].size
      <3>1. u.bind[p] = t.bind[p] /\ e.bind[p] = u.bind[p] /\ h.bind[p] = e.bind[p]
        BY <1>3, <1>5, <1>6 DEF SameBound
      <3>2. u.bind[p] # NoAddr => e.surf[u.bind[p]].size = u.surf[u.bind[p]].size
        BY <1>5 DEF SameBound
      <3>3. e.bind[p] # NoAddr => h.surf[e.bind[p]].size = e.surf[e.bind[p]].size
        BY <1>6 DEF SameBound
      <3>4. t.bind[p] # NoAddr => u.surf[t.bind[p]].size = t.surf[t.bind[p]].size
        BY <1>3 DEF SameBound
      <3> QED BY <3>1, <3>2, <3>3, <3>4
    <2> QED BY <2>1 DEF SameBound
  <1>8. \A p \in Parts : t.bind[p] # NoAddr =>
            ~Touches(t, t.bind[p], K) /\ ~Touches(e, t.bind[p], K)
    BY <1>7 DEF Clear, h, SameBound, Touches, Cover
  <1>9. /\ Good(u, K, W, D) /\ Registers(t, u) /\ u.bind = t.bind /\ SameSize(t, u)
        /\ \A p \in Parts : t.bind[p] # NoAddr => ~u.surf[t.bind[p]].up
        /\ \A b \in Addrs : u.surf[b].up => t.surf[b].up
    BY <1>1, <1>8, UploadBoundGood DEF u
  <1>10. /\ Good(e, K, W, D) /\ Registers(u, e)
         /\ \A p \in Parts : e.bind[p] = u.bind[p]
         /\ \A b \in Live(e) : b \in Live(u) /\ e.surf[b] = u.surf[b]
         /\ \A p \in Parts : u.bind[p] # NoAddr => e.surf[u.bind[p]] = u.surf[u.bind[p]]
    BY <1>2, <1>4, <1>9, ExpiredGood
  <1>11. /\ e.addr = g.addr /\ e.clip = g.clip /\ e.last = g.clip /\ e.bad = g.bad
         /\ e.drawn = g.drawn /\ e.stale = t.stale
    BY <1>1, <1>9, <1>10 DEF Registers
  <1>12. \A p \in Parts : /\ e.bind[p] = t.bind[p]
                          /\ t.bind[p] # NoAddr =>
                                 /\ ~e.surf[t.bind[p]].up
                                 /\ e.surf[t.bind[p]].size = t.surf[t.bind[p]].size
    BY <1>7, <1>9, <1>10 DEF SameBound
  <1>13. \A p \in Parts : Tied(e, p) /\ Firm(e, p)
    BY <1>1, <1>11, <1>12 DEF Tied, Firm
  <1>14. \A p \in writes : Drawable(e, p, K)
    <2> SUFFICES ASSUME NEW p \in writes PROVE Drawable(e, p, K)
      OBVIOUS
    <2>1. p \in Parts /\ t.bind[p] # NoAddr /\ e.bind[p] = t.bind[p] /\ ~e.surf[t.bind[p]].up
      BY <1>1, <1>12
    <2>2. e.surf[e.bind[p]].size >= e.last
      BY <1>13, <2>1 DEF Tied, Firm
    <2> QED BY <1>8, <1>11, <2>1, <2>2 DEF Drawable
  <1>15. Good(h, K, W, D) /\ Marked(e, h, writes)
    BY <1>10, <1>14, MarkDrawnGood DEF h
  <1>16. h.bad = g.bad
    BY <1>11, <1>15 DEF Marked
  <1>17. \A p \in Parts : Tied(h, p) /\ Firm(h, p)
    <2>1. \A p \in Parts : e.bind[p] # NoAddr => e.bind[p] \in Addrs
      BY <1>5, SoundTyped
    <2> QED BY <1>13, <1>15, <2>1 DEF Marked, Tied, Firm, SameSize
  <1>18. SizesMatch(h)
    BY <1>0, <1>1, <1>7 DEF SizesMatch, SameBound
  <1>19. DrawnKept(h)
    <2>1. h.clip = h.last /\ TargetsApart(h)
      BY <1>11, <1>15 DEF Marked, TargetsApart, Reach
    <2>2. h.drawn = g.drawn \cup writes /\ h.bind["color"] = t.bind["color"]
      BY <1>0, <1>7, <1>11, <1>15 DEF Marked, SameBound
    <2>3. "color" \in h.drawn => h.bind["color"] # NoAddr
      BY <1>1, <2>2
    <2> QED BY <1>0, <1>17, <2>1, <2>3 DEF DrawnKept
  <1>20. Ready(h)
    <2> SUFFICES ASSUME NEW a \in Live(h) \cap Displayed, h.surf[a].up PROVE FALSE
      BY DEF Ready
    <2>1. a \in Live(e) /\ a \in Addrs /\ e.surf[a].up
      BY <1>15, SizeRules DEF Marked, Live
    <2>2. a \in Live(u) /\ u.surf[a].up
      BY <1>10, <2>1
    <2>3. a \in Live(t) /\ t.surf[a].up
      BY <1>9, <2>1, <2>2, SizeRules
    <2>4. a = t.bind["color"] /\ a # NoAddr
      BY <1>1, <1>3, <2>3, CoverRules
    <2> QED BY <1>0, <1>9, <2>2, <2>4
  <1>21. Calm(h)
    BY <1>0, <1>17, <1>18, <1>19, <1>20 DEF Calm
  <1> QED BY <1>15, <1>16, <1>21 DEF h
-------------------------------------------------------------------------------
(* What keeps a state calm.                                                  *)
LEMMA CalmKept ==
    ASSUME NEW g \in Sound, Calm(g), NEW h, Registers(g, h), SameBound(g, h), Ready(h)
    PROVE  Calm(h)
  <1>0. "color" \in Parts /\ "zeta" \in Parts
    BY DEF Parts
  <1>1. /\ h.addr = g.addr /\ h.clip = g.clip /\ h.last = g.last /\ h.stale = g.stale
        /\ h.drawn = g.drawn
    BY DEF Registers
  <1>2. /\ h.bind["color"] = g.bind["color"] /\ h.bind["zeta"] = g.bind["zeta"]
        /\ g.bind["color"] # NoAddr =>
               h.surf[g.bind["color"]].size = g.surf[g.bind["color"]].size
        /\ g.bind["zeta"] # NoAddr => h.surf[g.bind["zeta"]].size = g.surf[g.bind["zeta"]].size
    BY <1>0 DEF SameBound
  <1>3. Tied(h, "color") /\ Tied(h, "zeta")
    BY <1>1, <1>2 DEF Calm, Tied
  <1>4. SizesMatch(h)
    BY <1>2 DEF Calm, SizesMatch
  <1>5. DrawnKept(h)
    <2>1. TargetsApart(g) => TargetsApart(h)
      BY <1>1 DEF TargetsApart, Reach
    <2>2. (Firm(g, "color") => Firm(h, "color")) /\ (Firm(g, "zeta") => Firm(h, "zeta"))
      BY <1>1, <1>2 DEF Firm
    <2> QED BY <1>1, <1>2, <2>1, <2>2 DEF Calm, DrawnKept
  <1> QED BY <1>3, <1>4, <1>5 DEF Calm

(* Flags and copies change; no surface on display waits for an upload.       *)
LEMMA CalmSame ==
    ASSUME NEW g \in Sound, Calm(g), NEW h, Registers(g, h), h.bind = g.bind, SameSize(g, h),
           \A a \in Live(g) \cap Displayed : h.surf[a].up => g.surf[a].up
    PROVE  Calm(h)
  <1>1. Live(h) = Live(g)
    BY SizeRules
  <1>2. Ready(h)
    BY <1>1 DEF Calm, Ready
  <1>3. \A p \in Parts : g.bind[p] # NoAddr => g.bind[p] \in Addrs
    BY SoundTyped
  <1>4. SameBound(g, h)
    BY <1>3 DEF SameBound, SameSize
  <1> QED BY <1>2, <1>4, CalmKept

(* pgraph_vk_surface_update without an upload.                               *)
LEMMA UpdateGood ==
    ASSUME DisplayKept, NEW g, NEW K, NEW W, NEW D, Good(g, K, W, D), Calm(g),
           NEW h \in Expired(UpdateNoUpload(g, Parts))
    PROVE  /\ Good(h, K, W, D) /\ Calm(h) /\ h.drawn = {} /\ h.bad = g.bad
           /\ Kept(g, h, g.addr["zeta"])
  <1> DEFINE u == UpdateNoUpload(g, Parts)
  <1>1. /\ Good(u, K, W, D) /\ Calm(u) /\ u.drawn = {}
        /\ u.addr = g.addr /\ u.bad = g.bad /\ Kept(g, u, g.addr["zeta"])
    BY UpdateNoUploadGood
  <1> HIDE DEF u
  <1>2. /\ Good(h, K, W, D) /\ Registers(u, h)
        /\ \A p \in Parts : h.bind[p] = u.bind[p]
        /\ \A b \in Live(h) : b \in Live(u) /\ h.surf[b] = u.surf[b]
        /\ \A p \in Parts : u.bind[p] # NoAddr => h.surf[u.bind[p]] = u.surf[u.bind[p]]
    BY <1>1, ExpiredGood DEF u
  <1>3. SameBound(u, h)
    BY <1>2 DEF SameBound
  <1>4. Ready(h)
    BY <1>1, <1>2 DEF Calm, Ready
  <1>5. Calm(h)
    BY <1>1, <1>2, <1>3, <1>4, CalmKept DEF Good
  <1>6. Kept(g, h, g.addr["zeta"])
    BY <1>1, <1>2 DEF Kept
  <1> QED BY <1>1, <1>2, <1>5, <1>6 DEF Registers

(* A target that moves or is clipped anew.                                   *)
LEMMA MovedGood ==
    ASSUME NEW g, NEW K, NEW W, NEW D, Good(g, K, W, D), Calm(g), g.drawn = {}, NEW p \in Parts,
           NEW a, p = "color" => a \in ColorAddrs, p = "zeta" => a \in ZetaAddrs
    PROVE  LET h == Moved(g, p, a) IN Good(h, K, W, D) /\ Calm(h) /\ h.bad = g.bad
  <1> DEFINE h == Moved(g, p, a)
  <1>0. g \in Sound
    BY DEF Good
  <1>1. /\ h \in GPU /\ h.surf = g.surf /\ h.bind = g.bind /\ h.fresh = g.fresh
        /\ h.last = g.last /\ h.drawn = {} /\ h.bad = g.bad
        /\ h.stale = IF a = g.addr[p] THEN g.stale ELSE g.stale \cup {p}
        /\ \A r \in Parts : r # p \/ a = g.addr[p] => h.addr[r] = g.addr[r]
    BY <1>0, SoundTyped DEF Moved, GPU, Parts
  <1> HIDE DEF h
  <1>2. h \in Sound
    BY <1>0, <1>1, MarksSound
  <1>3. Good(h, K, W, D) /\ Live(h) = Live(g)
    BY <1>1, <1>2, GoodSame
  <1>4. \A r \in Parts : Tied(g, r) => Tied(h, r)
    <2>1. CASE a = g.addr[p]
      BY <1>1, <2>1 DEF Tied
    <2>2. CASE a # g.addr[p]
      BY <1>1, <2>2 DEF Tied
    <2> QED BY <2>1, <2>2
  <1>5. Tied(h, "color") /\ Tied(h, "zeta")
    BY <1>4 DEF Calm, Parts
  <1>6. SizesMatch(h) /\ DrawnKept(h) /\ Ready(h)
    BY <1>1, <1>3 DEF Calm, SizesMatch, DrawnKept, Ready
  <1> QED BY <1>1, <1>3, <1>5, <1>6 DEF Calm, h

LEMMA ClippedGood ==
    ASSUME NEW g, NEW K, NEW W, NEW D, Good(g, K, W, D), Calm(g), g.drawn = {}, NEW n \in Sizes
    PROVE  LET h == [g EXCEPT !.clip = n] IN Good(h, K, W, D) /\ Calm(h) /\ h.bad = g.bad
  <1> DEFINE h == [g EXCEPT !.clip = n]
  <1>0. g \in Sound
    BY DEF Good
  <1>1. /\ h \in GPU /\ h.surf = g.surf /\ h.bind = g.bind /\ h.fresh = g.fresh /\ h.addr = g.addr
        /\ h.last = g.last /\ h.stale = g.stale /\ h.drawn = {} /\ h.bad = g.bad
    BY <1>0, SoundTyped DEF GPU
  <1> HIDE DEF h
  <1>2. h \in Sound
    BY <1>0, <1>1, MarksSound
  <1>3. Good(h, K, W, D) /\ Live(h) = Live(g)
    BY <1>1, <1>2, GoodSame
  <1>4. Tied(h, "color") /\ Tied(h, "zeta") /\ SizesMatch(h) /\ DrawnKept(h) /\ Ready(h)
    BY <1>1, <1>3 DEF Calm, Tied, SizesMatch, DrawnKept, Ready
  <1> QED BY <1>1, <1>3, <1>4 DEF Calm, h

(* The reads of RAM and of images.                                           *)
LEMMA DownloadedGood ==
    ASSUME NEW g, NEW K, NEW W, NEW D, Good(g, K, W, D), Calm(g), NEW S \in SUBSET Live(g),
           \A a \in S : g.surf[a].dirty \/ g.surf[a].down
    PROVE  LET h == DownloadAll(g, S)
           IN  /\ Good(h, K, W, D) /\ Calm(h) /\ h.bad = g.bad /\ SameSize(g, h)
               /\ \A a \in S : ~h.surf[a].dirty
               /\ \A a \in Addrs : h.surf[a].dirty => g.surf[a].dirty
  <1> DEFINE h == DownloadAll(g, S)
  <1>0. g \in Sound /\ g.surf \in [Addrs -> Surface] /\ S \in SUBSET Addrs
    BY SoundTyped DEF Good
  <1>1. \A a \in S : Whole(g, a)
    BY DEF Good, SurfTrue
  <1>2. /\ Good(h, K, W, D) /\ h.bind = g.bind /\ Registers(g, h)
        /\ \A b \in Addrs : h.surf[b] = IF b \in S THEN Clean(g.surf[b]) ELSE g.surf[b]
    BY <1>1, DownloadAllGood
  <1> HIDE DEF h
  <1>3. \A b \in Addrs : /\ h.surf[b].size = g.surf[b].size /\ h.surf[b].up = g.surf[b].up
                         /\ b \in S => ~h.surf[b].dirty
                         /\ h.surf[b].dirty => g.surf[b].dirty
    BY <1>0, <1>2, CleanFields
  <1>4. SameSize(g, h)
    BY <1>3 DEF SameSize
  <1>5. Calm(h)
    BY <1>0, <1>2, <1>3, <1>4, CalmSame DEF Live
  <1> QED BY <1>0, <1>2, <1>3, <1>4, <1>5 DEF Registers, h

LEMMA RangeGood ==
    ASSUME NEW g, NEW K, NEW W, NEW D, Good(g, K, W, D), Calm(g), NEW cells \in SUBSET Cells,
           NEW reader
    PROVE  LET h == Check(DownloadRange(g, cells), cells, Ram, reader)
           IN  Good(h, K, W, D) /\ Calm(h) /\ h.bad = g.bad
  <1> DEFINE S == {a \in Overlapping(g, cells) : g.surf[a].dirty}
             h == DownloadAll(g, S)
  <1>1. S \in SUBSET Live(g) /\ \A a \in S : g.surf[a].dirty
    BY DEF Overlapping
  <1>2. \A a \in Live(g) : g.surf[a].dirty /\ a \notin S => Cover(g, a) \cap cells = {}
    BY DEF Overlapping
  <1>3. DownloadRange(g, cells) = h
    BY DEF DownloadRange
  <1> HIDE DEF S
  <1>4. /\ Good(h, K, W, D) /\ Calm(h) /\ h.bad = g.bad /\ SameSize(g, h)
        /\ \A a \in S : ~h.surf[a].dirty
        /\ \A a \in Addrs : h.surf[a].dirty => g.surf[a].dirty
    BY <1>1, DownloadedGood
  <1> HIDE DEF h
  <1>5. ASSUME NEW c \in cells, Ram \notin h.fresh[c]
        PROVE  FALSE
    <2>1. PICK a \in Live(h) : c \in Cover(h, a) /\ h.surf[a].dirty
      BY <1>4, <1>5 DEF Good, RamTrue
    <2>2. a \in Live(g) /\ a \in Addrs /\ c \in Cover(g, a)
      BY <1>4, <2>1, SizeRules DEF Live
    <2> QED BY <1>2, <1>4, <2>1, <2>2
  <1>6. Check(h, cells, Ram, reader) = h
    BY <1>5 DEF Check
  <1> QED BY <1>3, <1>4, <1>6

LEMMA ImageGood ==
    ASSUME NEW g, NEW K, NEW W \in SUBSET K, NEW D, Good(g, K, W, D), Calm(g), NEW a \in Live(g),
           ~Touches(g, a, K), NEW reader
    PROVE  LET h == Check(Upload(g, a), Cover(g, a), a, reader)
           IN  Good(h, K, W, D) /\ Calm(h) /\ h.bad = g.bad
  <1> DEFINE h == Upload(g, a)
  <1>1. /\ Good(h, K, W, D) /\ Registers(g, h) /\ h.bind = g.bind /\ SameSize(g, h)
        /\ ~h.surf[a].up /\ \A b \in Addrs : b # a => h.surf[b] = g.surf[b]
    BY UploadGood
  <1> HIDE DEF h
  <1>2. g \in Sound /\ a \in Addrs /\ a \in Live(h) /\ Cover(h, a) = Cover(g, a)
    BY <1>1, SoundTyped, SizeRules DEF Good
  <1>3. Whole(h, a)
    BY <1>1, <1>2 DEF Good, SurfTrue
  <1>4. Check(h, Cover(g, a), a, reader) = h
    BY <1>2, <1>3 DEF Check, Whole
  <1>5. Calm(h)
    BY <1>1, <1>2, CalmSame DEF Live
  <1> QED BY <1>1, <1>4, <1>5 DEF Registers, h

(* pgraph_vk_surface_flush.                                                  *)
LEMMA FlushGood ==
    ASSUME NEW g, NEW K, NEW W, NEW D, Good(g, K, W, D)
    PROVE  LET u == Unbind(Unbind(g, "color"), "zeta")
               h == [EvictAll(u, Live(u)) EXCEPT !.last = 0, !.drawn = {}]
           IN  Good(h, K, W, D) /\ Calm(h) /\ h.bad = g.bad
  <1> DEFINE v == Unbind(g, "color")
             u == Unbind(v, "zeta")
             k == EvictAll(u, Live(u))
             h == [k EXCEPT !.last = 0, !.drawn = {}]
  <1>0. "color" \in Parts /\ "zeta" \in Parts /\ "color" # "zeta"
        /\ \A p \in Parts : p = "color" \/ p = "zeta"
    BY DEF Parts
  <1>1. Good(v, K, W, D) /\ v.bind["color"] = NoAddr /\ Registers(g, v)
    BY <1>0, UnbindGood
  <1> HIDE DEF v
  <1>2. /\ Good(u, K, W, D) /\ u.bind["color"] = NoAddr /\ u.bind["zeta"] = NoAddr
        /\ Registers(v, u)
    BY <1>0, <1>1, UnbindGood
  <1> HIDE DEF u
  <1>3. NoAddr \notin Live(u) /\ MayGo(u, Live(u))
    BY <1>0, <1>2, CoverRules DEF MayGo, Good
  <1>4. /\ Good(k, K, W, D) /\ Registers(u, k) /\ Unbound(u, k, Live(u))
        /\ \A b \in Addrs : k.surf[b] = IF b \in Live(u) THEN Absent ELSE u.surf[b]
    BY <1>2, <1>3, EvictAllGood
  <1> HIDE DEF k
  <1>5. k \in Sound /\ k.bind["color"] = NoAddr /\ k.bind["zeta"] = NoAddr
    BY <1>0, <1>2, <1>4 DEF Unbound, Good
  <1>6. /\ h \in GPU /\ h.surf = k.surf /\ h.bind = k.bind /\ h.fresh = k.fresh
        /\ h.drawn = {} /\ h.bad = k.bad
    BY <1>5, SoundTyped DEF GPU
  <1> HIDE DEF h
  <1>7. h \in Sound
    BY <1>5, <1>6, MarksSound
  <1>8. Good(h, K, W, D) /\ Live(h) = Live(k)
    BY <1>4, <1>6, <1>7, GoodSame
  <1>9. Live(k) = {}
    BY <1>4 DEF Live, Absent
  <1>10. Calm(h)
    BY <1>5, <1>6, <1>8, <1>9 DEF Calm, Tied, SizesMatch, DrawnKept, Ready
  <1>11. h.bad = g.bad
    BY <1>1, <1>2, <1>4, <1>6 DEF Registers
  <1> QED BY <1>8, <1>10, <1>11 DEF h, k, u, v
-------------------------------------------------------------------------------
(* Blits.  What overlaps an end of a blit is the surface that begins there,  *)
(* or one that the blit's own surface update has made, which is new.         *)
Starts(g, a, n) == (a \in Live(g) /\ n <= g.surf[a].size) \/ Overlapping(g, Span(a, n)) = {}
Alone(g, a, n) ==
    \A b \in Live(g) : b # a => New(g.surf[b]) \/ Cover(g, b) \cap Span(a, n) = {}

LEMMA StartsAlone ==
    ASSUME NEW g \in Sound, NEW h \in Sound, NEW z, Kept(g, h, z), NEW a, NEW n \in Sizes,
           Starts(g, a, n)
    PROVE  Alone(h, a, n)
  <1>1. ASSUME NEW b \in Live(h), ~New(h.surf[b]), b # a
        PROVE  Cover(h, b) \cap Span(a, n) = {}
    <2>1. h.surf[b] = g.surf[b] /\ b \in Live(g) /\ Cover(h, b) = Cover(g, b)
      BY <1>1 DEF Kept, Live, Cover
    <2>2. CASE a \in Live(g) /\ n <= g.surf[a].size
      <3>1. Span(a, n) \subseteq Cover(g, a)
        <4>1. a \in Nat /\ n \in Nat /\ g.surf[a].size \in Nat
          BY <2>2, CoverRules, Constants
        <4> QED BY <2>2, <4>1 DEF Span, Cover
      <3> QED BY <1>1, <2>1, <2>2, <3>1, CoverRules
    <2>3. CASE Overlapping(g, Span(a, n)) = {}
      BY <2>1, <2>3 DEF Overlapping
    <2> QED BY <2>2, <2>3 DEF Starts
  <1> QED BY <1>1 DEF Alone

LEMMA IfDirtyGood ==
    ASSUME NEW g, NEW K, NEW W, NEW D, Good(g, K, W, D), NEW a \in Live(g)
    PROVE  LET h == DownloadIfDirty(g, a)
           IN  /\ Good(h, K, W, D) /\ h.bind = g.bind /\ Registers(g, h) /\ SameSize(g, h)
               /\ \A b \in Addrs : b # a => h.surf[b] = g.surf[b]
               /\ h.surf[a].up = g.surf[a].up /\ ~h.surf[a].dirty
               /\ h.surf[a].down => g.surf[a].down /\ ~g.surf[a].dirty
               /\ New(g.surf[a]) => h.surf[a] = g.surf[a]
  <1> DEFINE h == DownloadIfDirty(g, a)
  <1>0. g \in Sound /\ a \in Addrs /\ g.surf \in [Addrs -> Surface]
    BY SoundTyped DEF Good
  <1>1. CASE g.surf[a].dirty
    <2>1. Whole(g, a) /\ ~New(g.surf[a])
      BY <1>1 DEF Good, SurfTrue, New
    <2>2. h = Download(g, a)
      BY <1>1 DEF DownloadIfDirty
    <2>3. /\ h.surf = [g.surf EXCEPT ![a] = Clean(g.surf[a])] /\ h.bind = g.bind
          /\ Registers(g, h) /\ SameSize(g, h)
      BY <1>0, <2>2, DownloadFields, DownloadSound
    <2>4. Good(h, K, W, D)
      BY <2>1, <2>2, DownloadGood
    <2> HIDE DEF h
    <2>5. h.surf[a] = Clean(g.surf[a]) /\ \A b \in Addrs : b # a => h.surf[b] = g.surf[b]
      BY <1>0, <2>3
    <2>6. h.surf[a].up = g.surf[a].up /\ ~h.surf[a].dirty /\ ~h.surf[a].down
      BY <1>0, <2>5, CleanFields
    <2> QED BY <2>1, <2>3, <2>4, <2>5, <2>6 DEF h
  <1>2. CASE ~g.surf[a].dirty
    BY <1>2 DEF DownloadIfDirty, Registers, SameSize
  <1> QED BY <1>1, <1>2

LEMMA SourceGood ==
    ASSUME NEW g, NEW K, NEW W, NEW D, Good(g, K, W, D), Calm(g), NEW a, NEW n \in Sizes,
           Alone(g, a, n), Span(a, n) \subseteq Cells
    PROVE  LET h == Check(BlitSource(g, a), Span(a, n), Ram, "blit")
           IN  /\ Good(h, K, W, D) /\ Calm(h) /\ h.bad = g.bad /\ SameSize(g, h)
               /\ \A b \in Live(g) : New(g.surf[b]) => New(h.surf[b])
  <1> DEFINE h == BlitSource(g, a)
  <1>0. g \in Sound /\ Live(g) \in SUBSET Addrs
    BY SoundTyped DEF Good
  <1>1. /\ Good(h, K, W, D) /\ h.bind = g.bind /\ Registers(g, h) /\ SameSize(g, h)
        /\ \A b \in Addrs : b # a => h.surf[b] = g.surf[b]
        /\ a \in Live(g) => h.surf[a].up = g.surf[a].up /\ ~h.surf[a].dirty
        /\ a \in Live(g) /\ New(g.surf[a]) => h.surf[a] = g.surf[a]
        /\ a \notin Live(g) => h = g
    <2>1. CASE a \in Live(g)
      <3>1. h = DownloadIfDirty(g, a)
        BY <2>1 DEF BlitSource
      <3> QED BY <2>1, <3>1, IfDirtyGood
    <2>2. CASE a \notin Live(g)
      BY <2>2 DEF BlitSource, Registers, SameSize
    <2> QED BY <2>1, <2>2
  <1> HIDE DEF h
  <1>2. Live(h) = Live(g) /\ \A b \in Addrs : Cover(h, b) = Cover(g, b)
    BY <1>1, SizeRules
  <1>3. ASSUME NEW c \in Span(a, n), Ram \notin h.fresh[c]
        PROVE  FALSE
    <2>1. PICK b \in Live(h) : c \in Cover(h, b) /\ h.surf[b].dirty
      BY <1>1, <1>3 DEF Good, RamTrue
    <2>2. b \in Live(g) /\ b \in Addrs /\ c \in Cover(g, b)
      BY <1>0, <1>2, <2>1
    <2>3. b # a
      BY <1>1, <2>1, <2>2
    <2>4. h.surf[b] = g.surf[b]
      BY <1>1, <2>2, <2>3
    <2>5. ~New(g.surf[b])
      BY <2>1, <2>4 DEF New
    <2> QED BY <2>2, <2>3, <2>5 DEF Alone
  <1>4. Check(h, Span(a, n), Ram, "blit") = h
    BY <1>3 DEF Check
  <1>5. \A b \in Live(g) : New(g.surf[b]) => h.surf[b] = g.surf[b]
    BY <1>0, <1>1
  <1>6. \A b \in Live(g) \cap Displayed : h.surf[b].up => g.surf[b].up
    BY <1>0, <1>1
  <1>7. Calm(h)
    BY <1>0, <1>1, <1>6, CalmSame
  <1> QED BY <1>1, <1>4, <1>5, <1>7 DEF Registers, h

(* The destination, of which the surface, if any, then waits for an upload.  *)
LEMMA DestFields ==
    ASSUME NEW g, NEW K, NEW W, NEW D, Good(g, K, W, D), NEW a \in Live(g), NEW n \in Sizes,
           a \notin Displayed
    PROVE  LET h == BlitDest(g, a, n)
           IN  /\ h \in Sound /\ h.bind = g.bind /\ Registers(g, h) /\ SameSize(g, h)
               /\ New(h.surf[a]) /\ \A b \in Addrs : b # a => h.surf[b] = g.surf[b]
               /\ \A c \in Cells : c \notin Cover(g, a) => h.fresh[c] = g.fresh[c]
               /\ \A c \in Cells :
                      \/ c \in Span(a, n) \/ Ram \in h.fresh[c]
                      \/ \E b \in Live(g) : b # a /\ c \in Cover(g, b) /\ g.surf[b].dirty
  <1> DEFINE k == Remains(g, a, n)
             t == [k.surf[a] EXCEPT !.up = TRUE]
             h == BlitDest(g, a, n)
  <1>0. g \in Sound /\ a \in Addrs /\ g.surf \in [Addrs -> Surface] /\ g.surf[a] \in Surface
    BY SoundTyped DEF Good
  <1>1. n \in Nat /\ a \in Nat /\ g.surf[a].size \in Nat
    BY <1>0, CoverRules, Constants
  <1>2. h \in Sound
    BY <1>0, BlitDestSound
  <1>3. /\ k \in Sound /\ k.bind = g.bind /\ Registers(g, k) /\ SameSize(g, k)
        /\ \A b \in Addrs : b # a => k.surf[b] = g.surf[b]
        /\ ~k.surf[a].dirty /\ ~k.surf[a].down
        /\ \A c \in Cells : c \notin Cover(g, a) => k.fresh[c] = g.fresh[c]
        /\ \A c \in Cells : \/ c \in Span(a, n) \/ Ram \in k.fresh[c]
                            \/ \E b \in Live(g) : b # a /\ c \in Cover(g, b) /\ g.surf[b].dirty
    <2>1. CASE n < g.surf[a].size
      <3>1. k = DownloadIfDirty(g, a)
        BY <2>1 DEF Remains
      <3>2. /\ Good(k, K, W, D) /\ k.bind = g.bind /\ Registers(g, k) /\ SameSize(g, k)
            /\ \A b \in Addrs : b # a => k.surf[b] = g.surf[b]
            /\ ~k.surf[a].dirty /\ k.surf[a].up = g.surf[a].up
            /\ k.surf[a].down => g.surf[a].down /\ ~g.surf[a].dirty
        BY <3>1, IfDirtyGood
      <3>3. ~k.surf[a].down
        BY <3>2 DEF Good, SurfTrue
      <3>4. \A c \in Cells : c \notin Cover(g, a) => k.fresh[c] = g.fresh[c]
        BY <1>0, <3>1, DownloadFields DEF DownloadIfDirty, FreshAfter
      <3> HIDE DEF k
      <3>5. ASSUME NEW c \in Cells, Ram \notin k.fresh[c]
            PROVE  \E b \in Live(g) : b # a /\ c \in Cover(g, b) /\ g.surf[b].dirty
        <4>1. PICK b \in Live(k) : c \in Cover(k, b) /\ k.surf[b].dirty
          BY <3>2, <3>5 DEF Good, RamTrue
        <4>2. b # a /\ b \in Live(g) /\ b \in Addrs /\ Cover(k, b) = Cover(g, b)
          BY <3>2, <4>1, SizeRules DEF Live
        <4> QED BY <3>2, <4>1, <4>2
      <3>6. k \in Sound
        BY <3>2 DEF Good
      <3> QED BY <3>2, <3>3, <3>4, <3>5, <3>6
    <2>2. CASE ~(n < g.surf[a].size)
      <3>1. k = [g EXCEPT !.surf[a] = Clean(g.surf[a])]
        BY <2>2 DEF Remains
      <3>2. Clean(g.surf[a]) \in Surface /\ Clean(g.surf[a]).size = g.surf[a].size
        BY <1>0, SurfaceTyped
      <3>3. k \in Sound /\ SameSize(g, k) /\ k.bind = g.bind
        BY <1>0, <3>1, <3>2, SurfaceSound
      <3>4. /\ k.surf = [g.surf EXCEPT ![a] = Clean(g.surf[a])] /\ k.fresh = g.fresh
            /\ Registers(g, k)
        BY <1>0, <3>1, SoundTyped DEF GPU, Registers
      <3> HIDE DEF k
      <3>5. k.surf[a] = Clean(g.surf[a]) /\ \A b \in Addrs : b # a => k.surf[b] = g.surf[b]
        BY <1>0, <3>4
      <3>6. ~k.surf[a].dirty /\ ~k.surf[a].down
        BY <1>0, <3>5, CleanFields
      <3>7. Cover(g, a) \subseteq Span(a, n)
        BY <1>1, <2>2 DEF Cover, Span
      <3>8. ASSUME NEW c \in Cells, c \notin Span(a, n), Ram \notin k.fresh[c]
            PROVE  \E b \in Live(g) : b # a /\ c \in Cover(g, b) /\ g.surf[b].dirty
        <4>1. PICK b \in Live(g) : c \in Cover(g, b) /\ g.surf[b].dirty
          BY <3>4, <3>8 DEF Good, RamTrue
        <4> QED BY <3>7, <3>8, <4>1
      <3> QED BY <3>3, <3>4, <3>5, <3>6, <3>8
    <2> QED BY <2>1, <2>2
  <1>4. h = [k EXCEPT !.surf[a] = t]
    BY DEF BlitDest
  <1> HIDE DEF k
  <1>5. k.surf \in [Addrs -> Surface] /\ k.surf[a] \in Surface
    BY <1>0, <1>3, SoundTyped
  <1>6. New(t) /\ t.size = k.surf[a].size
    BY <1>3, <1>5 DEF Surface, New
  <1> HIDE DEF t, h
  <1>7. h.surf = [k.surf EXCEPT ![a] = t] /\ h.fresh = k.fresh /\ h.bind = k.bind /\ Registers(k, h)
    BY <1>3, <1>4, SoundTyped DEF GPU, Registers
  <1>8. h.surf[a] = t /\ \A b \in Addrs : b # a => h.surf[b] = k.surf[b]
    BY <1>0, <1>5, <1>7
  <1>9. SameSize(g, h) /\ Registers(g, h)
    BY <1>3, <1>6, <1>7, <1>8 DEF SameSize, Registers
  <1> QED BY <1>2, <1>3, <1>6, <1>7, <1>8, <1>9 DEF h

LEMMA DestGood ==
    ASSUME NEW g, NEW K, NEW W, NEW D, Good(g, K, W, D), Calm(g), NEW a, NEW n \in Sizes,
           a \notin Displayed, Alone(g, a, n), Span(a, n) \subseteq Cells
    PROVE  LET h == Written(BlitDest(g, a, n), Span(a, n), Ram)
           IN  Good(h, K, W, D) /\ Calm(h) /\ h.bad = g.bad
  <1> DEFINE k == BlitDest(g, a, n)
             h == Written(k, Span(a, n), Ram)
  <1>0. g \in Sound /\ Live(g) \in SUBSET Addrs
    BY SoundTyped DEF Good
  <1>1. /\ k \in Sound /\ k.bind = g.bind /\ Registers(g, k) /\ SameSize(g, k)
        /\ a \in Live(g) => New(k.surf[a])
        /\ \A b \in Live(g) : b # a => k.surf[b] = g.surf[b]
        /\ \A c \in Cells : (a \in Live(g) => c \notin Cover(g, a)) => k.fresh[c] = g.fresh[c]
        /\ \A c \in Cells : \/ c \in Span(a, n) \/ Ram \in k.fresh[c]
                            \/ \E b \in Live(g) : b # a /\ c \in Cover(g, b) /\ g.surf[b].dirty
    <2>1. CASE a \in Live(g)
      BY <1>0, <2>1, DestFields
    <2>2. CASE a \notin Live(g)
      <3>1. k = g
        BY <2>2 DEF BlitDest
      <3>2. \A c \in Cells : \/ Ram \in g.fresh[c]
                             \/ \E b \in Live(g) : b # a /\ c \in Cover(g, b) /\ g.surf[b].dirty
        BY <2>2 DEF Good, RamTrue
      <3> QED BY <1>0, <2>2, <3>1, <3>2 DEF Registers, SameSize
    <2> QED BY <2>1, <2>2
  <1> HIDE DEF k
  <1>2. h \in Sound /\ h.surf = k.surf /\ h.bind = k.bind
    BY <1>1, WrittenSound
  <1>3. /\ Registers(k, h)
        /\ \A c \in Cells : h.fresh[c] = IF c \in Span(a, n) THEN {Ram} ELSE k.fresh[c]
    BY <1>1, SoundTyped DEF Written, GPU, Registers
  <1> HIDE DEF h
  <1>4. SameSize(g, h) /\ Registers(g, h) /\ h.bind = g.bind
    BY <1>1, <1>2, <1>3 DEF SameSize, Registers
  <1>5. Live(h) = Live(g) /\ \A b \in Addrs : Cover(h, b) = Cover(g, b)
    BY <1>4, SizeRules
  <1>6. ASSUME NEW b \in Live(h)
        PROVE  SurfTrue(h, b, K, W, D)
    <2>1. CASE New(h.surf[b])
      BY <2>1 DEF New, SurfTrue
    <2>2. CASE ~New(h.surf[b])
      <3>1. b # a /\ b \in Live(g) /\ b \in Addrs
        BY <1>0, <1>1, <1>2, <1>5, <2>2
      <3>2. h.surf[b] = g.surf[b]
        BY <1>1, <1>2, <3>1
      <3>3. Cover(g, b) \cap Span(a, n) = {}
        BY <2>2, <3>1, <3>2 DEF Alone
      <3>4. Cover(g, b) \in SUBSET Cells /\ (a \in Live(g) => Cover(g, a) \cap Cover(g, b) = {})
        BY <1>0, <3>1, CoverRules
      <3>5. \A c \in Cover(g, b) : h.fresh[c] = g.fresh[c]
        BY <1>1, <1>3, <3>3, <3>4
      <3>6. SurfTrue(g, b, K, W, D)
        BY <3>1 DEF Good
      <3> QED BY <3>2, <3>5, <3>6, SurfKept
    <2> QED BY <2>1, <2>2
  <1>7. RamTrue(h)
    <2> SUFFICES ASSUME NEW c \in Cells, Ram \notin h.fresh[c]
                 PROVE  \E b \in Live(h) : c \in Cover(h, b) /\ h.surf[b].dirty
      BY DEF RamTrue
    <2>1. c \notin Span(a, n) /\ Ram \notin k.fresh[c]
      BY <1>3
    <2>2. PICK b \in Live(g) : b # a /\ c \in Cover(g, b) /\ g.surf[b].dirty
      BY <1>1, <2>1
    <2> QED BY <1>0, <1>1, <1>2, <1>5, <2>2
  <1>8. \A b \in Live(g) \cap Displayed : h.surf[b].up => g.surf[b].up
    BY <1>1, <1>2
  <1>9. Calm(h)
    BY <1>0, <1>4, <1>8, CalmSame
  <1>10. Good(h, K, W, D) /\ h.bad = g.bad
    BY <1>2, <1>4, <1>6, <1>7 DEF Good, Registers
  <1> QED BY <1>9, <1>10 DEF h, k

LEMMA BlitGood ==
    ASSUME DisplayKept, NEW g, NEW K, NEW W, NEW D, Good(g, K, W, D), Calm(g),
           NEW from, NEW to \in Nat, NEW n \in Sizes, Starts(g, from, n), Starts(g, to, n),
           Span(from, n) \subseteq Cells, Span(to, n) \subseteq RamWrites,
           NEW e \in Expired(UpdateNoUpload(g, Parts))
    PROVE  LET r == Check(BlitSource(e, from), Span(from, n), Ram, "blit")
               h == Written(BlitDest(r, to, n), Span(to, n), Ram)
           IN  Good(h, K, W, D) /\ Calm(h) /\ h.bad = g.bad
  <1> DEFINE r == Check(BlitSource(e, from), Span(from, n), Ram, "blit")
             h == Written(BlitDest(r, to, n), Span(to, n), Ram)
  <1>1. /\ Good(e, K, W, D) /\ Calm(e) /\ e.bad = g.bad /\ Kept(g, e, g.addr["zeta"])
    BY UpdateGood
  <1>2. g \in Sound /\ e \in Sound
    BY <1>1 DEF Good
  <1>3. Alone(e, from, n) /\ Alone(e, to, n)
    BY <1>1, <1>2, StartsAlone
  <1>4. /\ Good(r, K, W, D) /\ Calm(r) /\ r.bad = e.bad /\ SameSize(e, r)
        /\ \A b \in Live(e) : New(e.surf[b]) => New(r.surf[b])
    BY <1>1, <1>3, SourceGood
  <1> HIDE DEF r
  <1>5. Live(r) = Live(e) /\ \A b \in Live(e) : Cover(r, b) = Cover(e, b)
    BY <1>4, SizeRules DEF Live
  <1>6. Alone(r, to, n)
    BY <1>3, <1>4, <1>5 DEF Alone
  <1>7. to \notin Displayed
    <2>1. n \in Nat \ {0} /\ RamWrites \in SUBSET Cells
      BY Constants, CellsAssumption
    <2>2. to \in Span(to, n)
      BY <2>1 DEF Span
    <2> QED BY <2>2 DEF DisplayKept
  <1>8. Span(to, n) \subseteq Cells
    BY CellsAssumption
  <1>9. Good(h, K, W, D) /\ Calm(h) /\ h.bad = r.bad
    BY <1>4, <1>6, <1>7, <1>8, DestGood
  <1> QED BY <1>1, <1>4, <1>9 DEF r
-------------------------------------------------------------------------------
(* What the processors add: where the CPU is, what it will write, and where  *)
(* it has been told that the downloads are done.                             *)
At == IF cpu.pc = "idle" THEN {} ELSE {cpu.cell}
ToWrite == IF cpu.pc # "idle" /\ cpu.write THEN {cpu.cell} ELSE {}
Answered == cpu.pc = "access" \/ pf = "downloaded" \/ (cpu.pc = "wait" /\ evt)
Fetched == IF cpu.pc # "idle" /\ Answered THEN {cpu.cell} ELSE {}

FInv ==
    /\ IInv /\ Good(gpu, At, ToWrite, Fetched) /\ Calm(gpu) /\ gpu.bad = {}
    /\ cpu.pc # "idle" => cpu.cell \in Cells
    /\ cpu.pc # "idle" /\ cpu.write => cpu.cell \in RamWrites
    /\ ui.pc = "ask" => ui.a \in Displayed

LEMMA SetRules == ToWrite \in SUBSET At /\ Fetched \in SUBSET At
  BY DEF ToWrite, Fetched, At

LEMMA GoodWeaker ==
    ASSUME NEW g, NEW K, NEW W, NEW D, NEW E \in SUBSET D, Good(g, K, W, D)
    PROVE  Good(g, K, W, E)
  BY DEF Good, SurfTrue, Touches

(* Each action keeps it.                                                     *)
LEMMA InitFlags == Init => FInv
  <1> SUFFICES ASSUME Init PROVE FInv
    OBVIOUS
  <1>1. IInv
    BY InitInv
  <1>2. /\ gpu \in Sound /\ gpu.surf = [a \in Addrs |-> Absent]
        /\ gpu.fresh = [c \in Cells |-> {Ram}]
        /\ gpu.bind["color"] = NoAddr /\ gpu.bind["zeta"] = NoAddr /\ gpu.drawn = {} /\ gpu.bad = {}
    BY <1>1 DEF Init, IInv
  <1>3. Live(gpu) = {}
    BY <1>2 DEF Live, Absent
  <1>4. Good(gpu, At, ToWrite, Fetched)
    BY <1>2, <1>3 DEF Good, RamTrue
  <1>5. Calm(gpu)
    BY <1>2, <1>3 DEF Calm, Tied, SizesMatch, DrawnKept, Ready
  <1> QED BY <1>1, <1>2, <1>4, <1>5 DEF FInv, Init

LEMMA SettleFlags ==
    ASSUME FInv, NEW g, Good(g, At, ToWrite, Fetched), Calm(g), g.bad = gpu.bad, Settle(g)
    PROVE  FInv'
  <1>1. gpu' = g /\ UNCHANGED <<req, evt, pf, cpu, ui>>
    BY DEF Settle
  <1>2. g \in Sound
    BY DEF Good
  <1>3. IInv'
    BY <1>2, SettleInv DEF FInv
  <1>4. At' = At /\ ToWrite' = ToWrite /\ Fetched' = Fetched
    BY <1>1 DEF At, ToWrite, Fetched, Answered
  <1>5. Good(gpu, At, ToWrite, Fetched)' /\ Calm(gpu)'
    BY <1>1, <1>4
  <1> QED BY <1>1, <1>3, <1>5 DEF FInv

LEMMA MethodFlags ==
    ASSUME Careful, ~MaskedClears, DisplayKept, FInv, Method
    PROVE  FInv'
  <1>0. /\ Good(gpu, At, ToWrite, Fetched) /\ Calm(gpu) /\ gpu \in Sound
        /\ ToWrite \in SUBSET At /\ Fetched \in SUBSET At
        /\ ColorAddrs \in SUBSET Addrs /\ ZetaAddrs \in SUBSET Addrs
        /\ "color" \in Parts /\ "zeta" \in Parts
    BY SetRules, Constants DEF FInv, Good, Parts
  <1>1. ASSUME NEW p \in Parts, NEW a \in Addrs, SetOffset(p, a, Parts),
               p = "color" => a \in ColorAddrs, p = "zeta" => a \in ZetaAddrs
        PROVE  FInv'
    <2>1. PICK g \in Expired(UpdateNoUpload(gpu, Parts)) : Settle(Moved(g, p, a))
      BY <1>1 DEF SetOffset
    <2>2. Good(g, At, ToWrite, Fetched) /\ Calm(g) /\ g.drawn = {} /\ g.bad = gpu.bad
      BY <1>0, UpdateGood
    <2>3. LET h == Moved(g, p, a) IN Good(h, At, ToWrite, Fetched) /\ Calm(h) /\ h.bad = g.bad
      BY <1>1, <2>2, MovedGood
    <2> QED BY <2>1, <2>2, <2>3, SettleFlags
  <1>2. ASSUME NEW n \in Sizes, SetClip(n, Parts)
        PROVE  FInv'
    <2>1. PICK g \in Expired(UpdateNoUpload(gpu, Parts)) : Settle([g EXCEPT !.clip = n])
      BY <1>2 DEF SetClip
    <2>2. Good(g, At, ToWrite, Fetched) /\ Calm(g) /\ g.drawn = {} /\ g.bad = gpu.bad
      BY <1>0, UpdateGood
    <2>3. LET h == [g EXCEPT !.clip = n]
          IN  Good(h, At, ToWrite, Fetched) /\ Calm(h) /\ h.bad = g.bad
      BY <2>2, ClippedGood
    <2> QED BY <2>1, <2>2, <2>3, SettleFlags
  <1>3. ASSUME NEW a \in Reads, NEW b \in RamWrites, NEW n \in Sizes, Blit(a, b, n, Parts)
        PROVE  FInv'
    <2> DEFINE Read(g) == Check(BlitSource(g, a), Span(a, n), Ram, "blit")
    <2>1. PICK g \in Expired(UpdateNoUpload(gpu, Parts)) :
              Settle(Written(BlitDest(Read(g), b, n), Span(b, n), Ram))
      BY <1>3 DEF Blit
    <2>2. /\ Starts(gpu, a, n) /\ Starts(gpu, b, n) /\ Span(a, n) \subseteq Cells
          /\ Span(b, n) \subseteq RamWrites /\ b \in Nat
      BY <1>3, CellsAssumption DEF Blit, BlitStart, Starts
    <2> DEFINE h == Written(BlitDest(Read(g), b, n), Span(b, n), Ram)
    <2>3. Good(h, At, ToWrite, Fetched) /\ Calm(h) /\ h.bad = gpu.bad
      BY <1>0, <2>2, BlitGood
    <2> HIDE DEF Read
    <2> QED BY <2>1, <2>3, SettleFlags
  <1>4. ASSUME NEW writes \in SUBSET Parts, TargetsApart(gpu),
               NEW g \in Expired(UpdateForDraw(gpu, writes)), Settle(MarkDrawn(g, writes))
        PROVE  FInv'
    <2> DEFINE h == MarkDrawn(g, writes)
    <2>1. Clear(h, At)
      <3>1. \A x \in Bound(h) : cpu.pc # "idle" => cpu.cell \notin Cover(h, x)
        BY <1>4 DEF Settle
      <3> HIDE DEF h
      <3>2. ASSUME NEW p \in Parts, h.bind[p] # NoAddr
            PROVE  ~Touches(h, h.bind[p], At)
        <4>1. h.bind[p] \in Bound(h)
          BY <3>2 DEF Bound
        <4> QED BY <3>1, <4>1 DEF Touches, At
      <3> QED BY <3>2 DEF Clear
    <2>2. Good(h, At, ToWrite, Fetched) /\ Calm(h) /\ h.bad = gpu.bad
      BY <1>0, <1>4, <2>1, DrawGood
    <2> QED BY <1>4, <2>2, SettleFlags
  <1>9. ASSUME NEW writes \in SUBSET Parts, Draw(writes)
        PROVE  FInv'
    <2>1. PICK g \in Expired(UpdateForDraw(gpu, writes)) : Settle(MarkDrawn(g, writes))
      BY <1>9 DEF Draw
    <2>2. TargetsApart(gpu)
      BY <1>9 DEF Draw, MayDraw, TargetsApart, Reach
    <2> QED BY <1>4, <2>1, <2>2
  <1>10. ASSUME NEW writes \in SUBSET Parts, NEW enabled, ClearSurface(writes, enabled)
         PROVE  FInv'
    <2>1. PICK g \in Expired(UpdateForDraw(gpu, writes)) :
              Settle(MarkDrawn(WipeParts(g, writes \ enabled), enabled))
      BY <1>10 DEF ClearSurface
    <2>2. TargetsApart(gpu) /\ enabled = writes
      BY <1>10 DEF ClearSurface, MayDraw, TargetsApart, Reach
    <2>3. WipeParts(g, writes \ enabled) = g
      BY <2>2 DEF WipeParts
    <2> QED BY <1>4, <2>1, <2>2, <2>3
  <1>5. ASSUME NEW a, NEW n, Texture(a, n)
        PROVE  FInv'
    <2>0. Fenced(Span(a, n)) /\ Span(a, n) \in SUBSET Cells
      BY <1>5 DEF Texture
    <2>1. CASE InImage(a, n)
      <3> DEFINE h == Check(Upload(gpu, a), Span(a, n), a, "texture")
      <3>1. a \in Live(gpu) /\ Span(a, n) = Cover(gpu, a) /\ Settle(h)
        BY <1>5, <2>1 DEF Texture, InImage, Cover
      <3>2. a \in Overlapping(gpu, Span(a, n))
        BY <1>0, <3>1, CoverRules DEF Overlapping
      <3>3. ~Touches(gpu, a, At)
        BY <2>0, <3>2 DEF Fenced, Touches, At
      <3>4. Good(h, At, ToWrite, Fetched) /\ Calm(h) /\ h.bad = gpu.bad
        BY <1>0, <3>1, <3>3, ImageGood
      <3> QED BY <3>1, <3>4, SettleFlags
    <2>2. CASE ~InImage(a, n)
      <3> DEFINE h == Check(DownloadRange(gpu, Span(a, n)), Span(a, n), Ram, "texture")
      <3>1. Settle(h)
        BY <1>5, <2>2 DEF Texture
      <3>2. Good(h, At, ToWrite, Fetched) /\ Calm(h) /\ h.bad = gpu.bad
        BY <1>0, <2>0, RangeGood
      <3> QED BY <3>1, <3>2, SettleFlags
    <2> QED BY <2>1, <2>2
  <1>6. ASSUME DownloadDirty
        PROVE  FInv'
    <2> DEFINE S == {x \in Live(gpu) : gpu.surf[x].dirty}
    <2>1. Settle(DownloadAll(gpu, S))
      BY <1>6 DEF DownloadDirty
    <2>2. S \in SUBSET Live(gpu) /\ \A x \in S : gpu.surf[x].dirty
      OBVIOUS
    <2> HIDE DEF S
    <2>3. LET h == DownloadAll(gpu, S)
          IN  Good(h, At, ToWrite, Fetched) /\ Calm(h) /\ h.bad = gpu.bad
      BY <1>0, <2>2, DownloadedGood
    <2> QED BY <2>1, <2>3, SettleFlags
  <1>7. ASSUME Flush
        PROVE  FInv'
    <2> DEFINE u == Unbind(Unbind(gpu, "color"), "zeta")
               h == [EvictAll(u, Live(u)) EXCEPT !.last = 0, !.drawn = {}]
    <2>1. Settle(h)
      BY <1>7 DEF Flush
    <2>2. Good(h, At, ToWrite, Fetched) /\ Calm(h) /\ h.bad = gpu.bad
      BY <1>0, FlushGood
    <2> QED BY <2>1, <2>2, SettleFlags
  <1>8. Unmasked = {Parts}
    BY DEF Unmasked
  <1> QED BY <1>0, <1>1, <1>2, <1>3, <1>5, <1>6, <1>7, <1>8, <1>9, <1>10 DEF Method

LEMMA DownloadsFlags ==
    ASSUME FInv, ProcessDownloads
    PROVE  FInv'
  <1> DEFINE S == {a \in Live(gpu) : gpu.surf[a].down}
  <1>0. /\ Good(gpu, At, ToWrite, Fetched) /\ Calm(gpu) /\ gpu \in Sound
        /\ gpu.surf \in [Addrs -> Surface] /\ Live(gpu) \in SUBSET Addrs
    BY SoundTyped DEF FInv, Good
  <1>1. /\ gpu' = DownloadAll(gpu, S) /\ pf' = "downloaded" /\ UNCHANGED <<req, evt, cpu, ui>>
    BY DEF ProcessDownloads
  <1>2. /\ S \in SUBSET Live(gpu) /\ \A a \in S : gpu.surf[a].down
        /\ \A a \in Live(gpu) : gpu.surf[a].down => a \in S
    OBVIOUS
  <1> HIDE DEF S
  <1>3. /\ Good(gpu', At, ToWrite, Fetched) /\ Calm(gpu') /\ gpu'.bad = gpu.bad
        /\ SameSize(gpu, gpu') /\ \A a \in S : ~gpu'.surf[a].dirty
        /\ \A a \in Addrs : gpu'.surf[a].dirty => gpu.surf[a].dirty
    BY <1>0, <1>1, <1>2, DownloadedGood
  <1>4. IInv'
    BY DownloadsInv DEF FInv
  <1>5. At' = At /\ ToWrite' = ToWrite /\ Fetched' = At
    BY <1>1 DEF At, ToWrite, Fetched, Answered
  <1>6. ASSUME NEW a \in Live(gpu'), Touches(gpu', a, At)
        PROVE  ~gpu'.surf[a].dirty
    <2>1. a \in Live(gpu) /\ a \in Addrs /\ Touches(gpu, a, At)
      BY <1>0, <1>3, <1>6, SizeRules DEF Touches
    <2>2. gpu.surf[a].dirty => gpu.surf[a].down
      BY <1>0, <2>1 DEF Good, SurfTrue
    <2> QED BY <1>2, <1>3, <2>1, <2>2
  <1>7. Good(gpu', At, ToWrite, At)
    BY <1>3, <1>6 DEF Good, SurfTrue
  <1>8. Good(gpu, At, ToWrite, Fetched)' /\ Calm(gpu)'
    BY <1>3, <1>5, <1>7
  <1> QED BY <1>1, <1>3, <1>4, <1>8 DEF FInv

(* Steps that leave the surfaces alone, and after which nobody is told more. *)
LEMMA QuietFlags ==
    ASSUME FInv, IInv', gpu' = gpu, At' = At, ToWrite' = ToWrite, Fetched' \in SUBSET Fetched,
           cpu'.cell = cpu.cell, cpu'.write = cpu.write, cpu.pc # "idle" <=> cpu'.pc # "idle",
           ui'.pc = "ask" => ui'.a \in Displayed
    PROVE  FInv'
  <1>1. Good(gpu, At, ToWrite, Fetched) /\ Calm(gpu) /\ gpu.bad = {}
    BY DEF FInv
  <1>2. Good(gpu, At, ToWrite, Fetched')
    BY <1>1, GoodWeaker
  <1>3. Good(gpu, At, ToWrite, Fetched)' /\ Calm(gpu)'
    BY <1>1, <1>2
  <1>4. /\ (cpu'.pc # "idle" => cpu'.cell \in Cells)
        /\ (cpu'.pc # "idle" /\ cpu'.write => cpu'.cell \in RamWrites)
    BY DEF FInv
  <1> QED BY <1>1, <1>3, <1>4 DEF FInv

LEMMA ReportFlags ==
    ASSUME FInv, IInv', ReportDownloads
    PROVE  FInv'
  <1>1. gpu' = gpu /\ cpu' = cpu /\ ui' = ui /\ pf = "downloaded"
    BY DEF ReportDownloads
  <1>2. At' = At /\ ToWrite' = ToWrite /\ Fetched' \in SUBSET Fetched
    BY <1>1 DEF At, ToWrite, Fetched, Answered
  <1> QED BY <1>1, <1>2, QuietFlags DEF FInv

LEMMA CpuFlags ==
    ASSUME FInv, IInv', CpuAsk \/ CpuWait
    PROVE  FInv'
  <1>0. cpu \in CpuType /\ cpu' \in CpuType
    BY DEF FInv, IInv
  <1>1. /\ gpu' = gpu /\ ui' = ui /\ pf' = pf /\ cpu'.cell = cpu.cell /\ cpu'.write = cpu.write
        /\ cpu.pc # "idle" /\ cpu'.pc # "idle"
    BY <1>0 DEF CpuAsk, CpuWait, CpuType
  <1>2. At' = At /\ ToWrite' = ToWrite
    BY <1>1 DEF At, ToWrite
  <1>3. Fetched' \in SUBSET Fetched
    <2>1. CASE CpuAsk
      <3>1. cpu'.pc = "wait" /\ ~evt' /\ cpu.pc = "ask"
        BY <1>0, <2>1 DEF CpuAsk, CpuType
      <3> QED BY <1>1, <3>1 DEF Fetched, Answered
    <2>2. CASE CpuWait
      <3>1. cpu.pc = "wait" /\ evt
        BY <2>2 DEF CpuWait
      <3> QED BY <1>1, <3>1 DEF Fetched, Answered
    <2> QED BY <2>1, <2>2
  <1> QED BY <1>1, <1>2, <1>3, QuietFlags DEF FInv

LEMMA UiFlags ==
    ASSUME FInv, IInv', UiWait \/ \E a \in Live(gpu) : UiPick(a)
    PROVE  FInv'
  <1>1. gpu' = gpu /\ cpu' = cpu /\ pf' = pf
    BY DEF UiWait, UiPick
  <1>2. At' = At /\ ToWrite' = ToWrite
    BY <1>1 DEF At, ToWrite
  <1>3. Fetched' \in SUBSET Fetched
    <2>1. CASE UiWait
      BY <1>1, <2>1 DEF UiWait, Fetched, Answered
    <2>2. CASE \E a \in Live(gpu) : UiPick(a)
      <3>1. evt' = evt
        BY <2>2 DEF UiPick
      <3> QED BY <1>1, <3>1 DEF Fetched, Answered
    <2> QED BY <2>1, <2>2
  <1>4. ui'.pc = "ask" => ui'.a \in Displayed
    <2>1. CASE UiWait
      BY <2>1 DEF UiWait
    <2>2. ASSUME NEW a \in Live(gpu), UiPick(a)
          PROVE  ui'.a \in Displayed
      <3>1. ui'.a = a /\ DisplayCell \in Span(a, gpu.surf[a].size)
        BY <2>2 DEF UiPick, Cover
      <3>2. a \in Addrs /\ gpu.surf[a].size \in Sizes
        BY CoverRules DEF FInv, IInv
      <3> QED BY <3>1, <3>2 DEF Displayed
    <2> QED BY <2>1, <2>2
  <1> QED BY <1>1, <1>2, <1>3, <1>4, QuietFlags

LEMMA UiAskFlags ==
    ASSUME FInv, IInv', UiAsk
    PROVE  FInv'
  <1> DEFINE a == ui.a
             t == [gpu.surf[a] EXCEPT !.down = TRUE]
  <1>0. /\ Good(gpu, At, ToWrite, Fetched) /\ Calm(gpu) /\ gpu \in Sound /\ gpu.bad = {}
        /\ gpu.surf \in [Addrs -> Surface] /\ a \in Live(gpu) /\ a \in Displayed /\ a \in Addrs
    BY SoundTyped DEF FInv, IInv, UiAsk, Live
  <1>1. /\ gpu' = [gpu EXCEPT !.surf[a] = t] /\ cpu' = cpu /\ pf' = pf /\ ~evt' /\ ui'.pc = "wait"
    BY DEF UiAsk
  <1>2. t.size = gpu.surf[a].size /\ t.up = gpu.surf[a].up /\ t.dirty = gpu.surf[a].dirty
        /\ t.down
    <2>1. gpu.surf[a] \in Surface
      BY <1>0
    <2> HIDE DEF a
    <2> QED BY <2>1 DEF Surface
  <1> HIDE DEF t, a
  <1>3. /\ gpu'.surf = [gpu.surf EXCEPT ![a] = t] /\ gpu'.fresh = gpu.fresh
        /\ gpu'.bind = gpu.bind /\ Registers(gpu, gpu')
    BY <1>0, <1>1, SoundTyped DEF GPU, Registers
  <1>4. gpu'.surf[a] = t /\ \A b \in Addrs : b # a => gpu'.surf[b] = gpu.surf[b]
    BY <1>0, <1>3
  <1>5. SameSize(gpu, gpu')
    BY <1>2, <1>4 DEF SameSize
  <1>6. Live(gpu') = Live(gpu) /\ \A b \in Addrs : Cover(gpu', b) = Cover(gpu, b)
    BY <1>5, SizeRules
  <1>7. ~gpu.surf[a].up
    BY <1>0 DEF Calm, Ready
  <1>8. ASSUME NEW b \in Live(gpu')
        PROVE  SurfTrue(gpu', b, At, ToWrite, Fetched)
    <2>0. b \in Live(gpu) /\ b \in Addrs /\ SurfTrue(gpu, b, At, ToWrite, Fetched)
      BY <1>0, <1>6 DEF Good, Live
    <2>1. CASE b # a
      BY <1>3, <1>4, <2>0, <2>1, SurfKept
    <2>2. CASE b = a
      <3>1. Cover(gpu', a) = Cover(gpu, a)
        BY <1>0, <1>6
      <3> QED BY <1>0, <1>2, <1>3, <1>4, <1>7, <2>0, <2>2, <3>1 DEF SurfTrue, Whole, Touches
    <2> QED BY <2>1, <2>2
  <1>9. RamTrue(gpu')
    <2>1. \A b \in Live(gpu) :
              gpu'.surf[b].dirty = gpu.surf[b].dirty /\ Cover(gpu', b) = Cover(gpu, b)
      BY <1>2, <1>4, <1>6 DEF Live
    <2> QED BY <1>0, <1>3, <1>6, <2>1 DEF Good, RamTrue
  <1>10. At' = At /\ ToWrite' = ToWrite /\ Fetched' \in SUBSET Fetched
    BY <1>1 DEF At, ToWrite, Fetched, Answered
  <1>11. Good(gpu', At, ToWrite, Fetched)
    BY <1>8, <1>9 DEF Good, IInv
  <1>12. Good(gpu', At, ToWrite, Fetched')
    BY <1>10, <1>11, GoodWeaker
  <1>13. Calm(gpu')
    <2>1. \A b \in Live(gpu) \cap Displayed : gpu'.surf[b].up => gpu.surf[b].up
      BY <1>2, <1>4 DEF Live
    <2> QED BY <1>0, <1>3, <1>5, <2>1, CalmSame
  <1>14. Good(gpu, At, ToWrite, Fetched)' /\ Calm(gpu)'
    BY <1>10, <1>12, <1>13
  <1>15. gpu'.bad = {}
    BY <1>0, <1>3 DEF Registers
  <1> QED BY <1>1, <1>14, <1>15 DEF FInv

LEMMA CallbackFlags ==
    ASSUME DisplayKept, FInv, IInv', NEW c \in CpuCells, NEW write \in BOOLEAN,
           CpuCallback(c, write)
    PROVE  FInv'
  <1> DEFINE touched == Overlapping(gpu, {c})
             dirty == {a \in touched : gpu.surf[a].dirty}
             Flagged(a) == [gpu.surf[a] EXCEPT !.up = @ \/ write, !.down = @ \/ a \in dirty]
             f == [a \in Addrs |-> IF a \in touched THEN Flagged(a) ELSE gpu.surf[a]]
             W == IF write THEN {c} ELSE {}
             D == IF dirty = {} THEN {c} ELSE {}
  <1>0. /\ Good(gpu, {}, {}, {}) /\ Calm(gpu) /\ gpu \in Sound /\ gpu.bad = {}
        /\ gpu.surf \in [Addrs -> Surface] /\ Live(gpu) \in SUBSET Addrs /\ c \in Cells
    <2>1. cpu.pc = "idle"
      BY DEF CpuCallback
    <2>2. At = {} /\ ToWrite = {} /\ Fetched = {}
      BY <2>1 DEF At, ToWrite, Fetched
    <2> QED BY <2>2, SoundTyped, CellsAssumption DEF FInv, Good
  <1>1. /\ gpu' = [gpu EXCEPT !.surf = f] /\ ui' = ui /\ pf' = pf /\ evt' = evt /\ pf = "idle"
        /\ cpu' = [pc |-> IF dirty = {} THEN "access" ELSE "ask", cell |-> c, write |-> write]
        /\ write => c \in RamWrites
    BY DEF CpuCallback
  <1>2. /\ \A a \in touched : a \in Live(gpu) /\ c \in Cover(gpu, a)
        /\ \A a \in Live(gpu) : c \in Cover(gpu, a) => a \in touched
        /\ \A a \in Addrs : a \in dirty <=> a \in touched /\ gpu.surf[a].dirty
    BY DEF Overlapping
  <1>3. ASSUME NEW a \in Addrs
        PROVE  /\ f[a].size = gpu.surf[a].size /\ f[a].dirty = gpu.surf[a].dirty
               /\ a \notin touched => f[a] = gpu.surf[a]
               /\ a \in touched => /\ f[a].up = (gpu.surf[a].up \/ write)
                                   /\ f[a].down = (gpu.surf[a].down \/ gpu.surf[a].dirty)
    <2>1. gpu.surf[a] \in Surface
      BY <1>0
    <2>2. f[a] = IF a \in touched THEN Flagged(a) ELSE gpu.surf[a]
      OBVIOUS
    <2>3. a \in touched => ((a \in dirty) = gpu.surf[a].dirty)
      BY <1>2, <2>1 DEF Surface
    <2> HIDE DEF touched, dirty, f
    <2>4. CASE a \in touched
      <3>1. f[a] = [gpu.surf[a] EXCEPT !.up = @ \/ write, !.down = @ \/ gpu.surf[a].dirty]
        BY <2>2, <2>3, <2>4
      <3> QED BY <2>1, <2>4, <3>1 DEF Surface
    <2>5. CASE a \notin touched
      BY <2>2, <2>5
    <2> QED BY <2>4, <2>5
  <1>4. D = IF \E a \in Live(gpu) : c \in Cover(gpu, a) /\ gpu.surf[a].dirty THEN {} ELSE {c}
    <2>1. dirty = {} <=> ~\E a \in Live(gpu) : c \in Cover(gpu, a) /\ gpu.surf[a].dirty
      BY <1>2
    <2> QED BY <2>1
  <1>5. At' = {c} /\ ToWrite' = W /\ Fetched' = D
    BY <1>1 DEF At, ToWrite, Fetched, Answered
  <1>6. ui'.pc = "ask" => ui'.a \in Displayed
    BY <1>1 DEF FInv
  <1>7. cpu'.cell = c /\ cpu'.write = write
    BY <1>1
  <1> HIDE DEF touched, dirty, f, D, W
  <1>8. /\ gpu'.surf = f /\ gpu'.fresh = gpu.fresh /\ gpu'.bind = gpu.bind /\ Registers(gpu, gpu')
    BY <1>0, <1>1, SoundTyped DEF GPU, Registers
  <1>9. SameSize(gpu, gpu')
    BY <1>3, <1>8 DEF SameSize
  <1>10. Live(gpu') = Live(gpu) /\ \A b \in Addrs : Cover(gpu', b) = Cover(gpu, b)
    BY <1>9, SizeRules
  <1>11. ASSUME NEW a \in touched, write
         PROVE  a \notin Displayed
    <2>1. gpu.surf[a].size \in Sizes /\ c \in Span(a, gpu.surf[a].size) /\ c \in RamWrites
      BY <1>0, <1>1, <1>2, <1>11, CoverRules DEF Cover
    <2> QED BY <2>1 DEF DisplayKept
  <1>12. ASSUME NEW a \in Live(gpu')
         PROVE  SurfTrue(gpu', a, {c}, W, D)
    <2>0. /\ a \in Live(gpu) /\ a \in Addrs /\ SurfTrue(gpu, a, {}, {}, {})
          /\ Cover(gpu', a) = Cover(gpu, a) /\ gpu'.surf[a] = f[a]
      BY <1>0, <1>8, <1>10 DEF Good, Live
    <2>1. CASE a \notin touched
      <3>1. ~Touches(gpu', a, {c}) /\ ~Touches(gpu', a, W) /\ ~Touches(gpu', a, D)
        BY <1>2, <2>0, <2>1 DEF Touches, W, D
      <3>2. gpu'.surf[a] = gpu.surf[a]
        BY <1>3, <2>0, <2>1
      <3>3. SurfTrue(gpu', a, {}, {}, {})
        BY <1>8, <2>0, <3>2, SurfKept
      <3> QED BY <3>1, <3>3 DEF SurfTrue, Touches
    <2>2. CASE a \in touched
      <3>1. /\ f[a].dirty = gpu.surf[a].dirty /\ f[a].up = (gpu.surf[a].up \/ write)
            /\ f[a].down = (gpu.surf[a].down \/ gpu.surf[a].dirty) /\ c \in Cover(gpu, a)
        BY <1>2, <1>3, <2>0, <2>2
      <3>2. Whole(gpu, a) => Whole(gpu', a)
        BY <1>8, <2>0 DEF Whole
      <3>3. Touches(gpu', a, {c})
        BY <2>0, <3>1 DEF Touches
      <3>4. Touches(gpu', a, W) => write
        BY DEF Touches, W
      <3>5. Touches(gpu', a, D) => ~gpu.surf[a].dirty
        BY <1>4, <2>0, <3>1 DEF Touches
      <3>6. ~Touches(gpu, a, {})
        BY DEF Touches
      <3>7. write => a \notin Displayed
        BY <1>11, <2>2
      <3> QED BY <2>0, <3>1, <3>2, <3>3, <3>4, <3>5, <3>6, <3>7 DEF SurfTrue
    <2> QED BY <2>1, <2>2
  <1>13. RamTrue(gpu')
    <2>1. \A b \in Live(gpu) :
              gpu'.surf[b].dirty = gpu.surf[b].dirty /\ Cover(gpu', b) = Cover(gpu, b)
      BY <1>3, <1>8, <1>10 DEF Live
    <2> QED BY <1>0, <1>8, <1>10, <2>1 DEF Good, RamTrue
  <1>14. Good(gpu', {c}, W, D)
    BY <1>12, <1>13 DEF Good, IInv
  <1>15. Calm(gpu')
    <2>1. ASSUME NEW b \in Live(gpu) \cap Displayed, gpu'.surf[b].up
          PROVE  gpu.surf[b].up
      <3>1. b \in Addrs /\ gpu'.surf[b] = f[b]
        BY <1>0, <1>8
      <3> QED BY <1>3, <1>11, <2>1, <3>1
    <2> QED BY <1>0, <1>8, <1>9, <2>1, CalmSame
  <1>16. Good(gpu, At, ToWrite, Fetched)' /\ Calm(gpu)'
    BY <1>5, <1>14, <1>15
  <1>17. gpu'.bad = {}
    BY <1>0, <1>8 DEF Registers
  <1> QED BY <1>0, <1>1, <1>6, <1>7, <1>16, <1>17 DEF FInv

LEMMA AccessFlags ==
    ASSUME FInv, IInv', CpuAccess
    PROVE  FInv'
  <1> DEFINE c == cpu.cell
             h == IF cpu.write THEN Written(gpu, {c}, Ram) ELSE gpu
  <1>0. /\ Good(gpu, {c}, IF cpu.write THEN {c} ELSE {}, {c}) /\ Calm(gpu) /\ gpu \in Sound
        /\ gpu.bad = {} /\ c \in Cells
    <2>1. cpu.pc = "access"
      BY DEF CpuAccess
    <2>2. At = {c} /\ ToWrite = (IF cpu.write THEN {c} ELSE {}) /\ Fetched = {c}
      BY <2>1 DEF At, ToWrite, Fetched, Answered
    <2> QED BY <2>1, <2>2 DEF FInv, Good
  <1>1. gpu' = h /\ cpu'.pc = "idle" /\ ui' = ui
    BY DEF CpuAccess
  <1>2. /\ h \in Sound /\ h.surf = gpu.surf /\ h.bind = gpu.bind /\ Registers(gpu, h)
        /\ \A x \in Cells : x # c => h.fresh[x] = gpu.fresh[x]
        /\ cpu.write => h.fresh[c] = {Ram}
        /\ ~cpu.write => h.fresh = gpu.fresh
    <2>1. CASE cpu.write
      <3>1. h = Written(gpu, {c}, Ram)
        BY <2>1
      <3>2. h \in Sound /\ h.surf = gpu.surf /\ h.bind = gpu.bind
        BY <1>0, <3>1, WrittenSound
      <3>3. /\ Registers(gpu, h)
            /\ \A x \in Cells : h.fresh[x] = IF x \in {c} THEN {Ram} ELSE gpu.fresh[x]
        BY <1>0, <3>1, SoundTyped, ZenonT(30) DEF Written, GPU, Registers
      <3> HIDE DEF h
      <3> QED BY <1>0, <2>1, <3>2, <3>3
    <2>2. CASE ~cpu.write
      BY <1>0, <2>2 DEF Registers
    <2> QED BY <2>1, <2>2
  <1> HIDE DEF h
  <1>3. /\ Live(h) = Live(gpu)
        /\ \A b \in Live(gpu) : Cover(h, b) = Cover(gpu, b) /\ h.surf[b] = gpu.surf[b]
    BY <1>2 DEF Live, Cover
  <1>4. ASSUME NEW b \in Live(h)
        PROVE  SurfTrue(h, b, {}, {}, {})
    <2>0. /\ b \in Live(gpu) /\ SurfTrue(gpu, b, {c}, IF cpu.write THEN {c} ELSE {}, {c})
          /\ Cover(gpu, b) \in SUBSET Cells
          /\ Cover(h, b) = Cover(gpu, b) /\ h.surf[b] = gpu.surf[b]
      BY <1>0, <1>3, CoverRules DEF Good
    <2>1. CASE c \in Cover(gpu, b) /\ cpu.write
      <3>1. gpu.surf[b].up /\ ~gpu.surf[b].dirty
        BY <2>0, <2>1 DEF SurfTrue, Touches
      <3> QED BY <2>0, <3>1 DEF SurfTrue, Touches
    <2>2. CASE c \notin Cover(gpu, b) \/ ~cpu.write
      <3>1. \A x \in Cover(gpu, b) : h.fresh[x] = gpu.fresh[x]
        BY <1>2, <2>0, <2>2
      <3>2. Whole(gpu, b) => Whole(h, b)
        BY <2>0, <3>1 DEF Whole
      <3> QED BY <2>0, <3>2 DEF SurfTrue, Touches
    <2> QED BY <2>1, <2>2
  <1>5. RamTrue(h)
    <2>1. ASSUME NEW x \in Cells, Ram \notin h.fresh[x]
          PROVE  Ram \notin gpu.fresh[x]
      BY <1>2, <2>1
    <2> QED BY <1>0, <1>3, <2>1 DEF Good, RamTrue
  <1>6. Good(h, {}, {}, {})
    BY <1>2, <1>4, <1>5 DEF Good
  <1>7. Calm(h)
    <2>1. SameSize(gpu, h)
      BY <1>2 DEF SameSize
    <2> QED BY <1>0, <1>2, <2>1, CalmSame
  <1>8. At' = {} /\ ToWrite' = {} /\ Fetched' = {}
    BY <1>1 DEF At, ToWrite, Fetched
  <1>9. Good(gpu, At, ToWrite, Fetched)' /\ Calm(gpu)' /\ gpu'.bad = {}
    BY <1>0, <1>1, <1>2, <1>6, <1>7, <1>8 DEF Registers
  <1> QED BY <1>1, <1>9 DEF FInv

(* The flags' invariant is inductive for a guest that keeps its targets      *)
(* apart, clears no masked target and keeps what is displayed out of the way *)
(* of its CPU and its blits.                                                 *)
THEOREM FlagsInvariance ==
    ASSUME Careful, ~MaskedClears, DisplayKept
    PROVE  Spec => []FInv
  <1>1. Init => FInv
    BY InitFlags
  <1>2. FInv /\ IInv' /\ [Next]_vars => FInv'
    <2> SUFFICES ASSUME FInv, IInv', [Next]_vars PROVE FInv'
      OBVIOUS
    <2>1. CASE Method
      BY <2>1, MethodFlags
    <2>2. CASE ProcessDownloads
      BY <2>2, DownloadsFlags
    <2>3. CASE ReportDownloads
      BY <2>3, ReportFlags
    <2>4. CASE \E c \in CpuCells, write \in BOOLEAN : CpuCallback(c, write)
      BY <2>4, CallbackFlags
    <2>5. CASE CpuStep
      BY <2>5, CpuFlags, AccessFlags DEF CpuStep
    <2>6. CASE UiStep \/ \E a \in Live(gpu) : UiPick(a)
      BY <2>6, UiFlags, UiAskFlags DEF UiStep
    <2>7. CASE UNCHANGED vars
      <3>1. gpu' = gpu /\ cpu' = cpu /\ ui' = ui /\ pf' = pf /\ evt' = evt
        BY <2>7 DEF vars
      <3>2. At' = At /\ ToWrite' = ToWrite /\ Fetched' = Fetched
        BY <3>1 DEF At, ToWrite, Fetched, Answered
      <3> QED BY <3>1, <3>2, QuietFlags DEF FInv
    <2> QED BY <2>1, <2>2, <2>3, <2>4, <2>5, <2>6, <2>7 DEF Next
  <1> QED BY <1>1, <1>2, Invariance, PTL DEF Spec

(* draw_dirty and upload_pending tell the truth: an image that waits for no  *)
(* upload is the newest copy of its memory, and so is RAM where no surface   *)
(* is marked as drawn to, across evictions, rebinding, blits and downloads.  *)
(* A clear of a target whose writes are masked would break it.               *)
THEOREM FlagsTell ==
    ASSUME Careful, ~MaskedClears, DisplayKept
    PROVE  Spec => []FlagsTrue
  <1>1. FInv => FlagsTrue
    <2> SUFFICES ASSUME FInv PROVE FlagsTrue
      OBVIOUS
    <2>1. \A a \in Live(gpu) : ~gpu.surf[a].up \/ gpu.surf[a].dirty => Whole(gpu, a)
      BY DEF FInv, Good, SurfTrue
    <2> QED BY <2>1 DEF FInv, Good, RamTrue, FlagsTrue, Whole
  <1> QED BY <1>1, FlagsInvariance, PTL

(* No texture, no blit and no access of the CPU reads a copy of which there  *)
(* is a newer one, although downloads_complete may have been set for the     *)
(* request of someone else; again for a guest that clears no masked target.  *)
THEOREM ReadsNewest ==
    ASSUME Careful, ~MaskedClears, DisplayKept
    PROVE  Spec => []ReadsFresh
  <1>1. FInv => ReadsFresh
    <2> SUFFICES ASSUME FInv, cpu.pc = "access", Ram \notin gpu.fresh[cpu.cell] PROVE FALSE
      BY DEF FInv, ReadsFresh
    <2>1. Fetched = {cpu.cell} /\ cpu.cell \in Cells
      BY DEF FInv, Fetched, Answered
    <2>2. PICK a \in Live(gpu) : cpu.cell \in Cover(gpu, a) /\ gpu.surf[a].dirty
      BY <2>1 DEF FInv, Good, RamTrue
    <2> QED BY <2>1, <2>2 DEF FInv, Good, SurfTrue, Touches
  <1> QED BY <1>1, FlagsInvariance, PTL

(* The assertions at surface.c:744 and 748 hold, a surface is dropped while  *)
(* bound only when its target has changed, and so do those at 1821 and 1822, *)
(* the bound surfaces have the same size.                                    *)
THEOREM AssertionsHold ==
    ASSUME Careful, ~MaskedClears, DisplayKept
    PROVE  Spec => []NoAbort
  <1>1. FInv => NoAbort
    BY DEF FInv, NoAbort
  <1> QED BY <1>1, FlagsInvariance, PTL
================================================================================
