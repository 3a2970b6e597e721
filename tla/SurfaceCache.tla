------------------------------ MODULE SurfaceCache ------------------------------
(* The Vulkan renderer's cache of render targets (hw/xbox/nv2a/pgraph/vk/    *)
(* surface.c): which copy of a piece of video memory, the guest's RAM or a   *)
(* surface's image, has the newest data.  The PFIFO thread runs the GPU's    *)
(* methods, the vCPU reads and writes RAM through surface_access_callback,   *)
(* and the user interface asks for the displayed surface.  Pixels, formats   *)
(* and the Vulkan commands are left out; that the waits end is shown in      *)
(* FifoSync.                                                                 *)
EXTENDS Naturals, FiniteSets, FiniteSetsExt

CONSTANTS
    Cells,        \* pieces of video memory, 0 .. n
    ColorAddrs,   \* where the guest puts its colour target
    ZetaAddrs,    \* ... and its depth target
    Sizes,        \* the sizes it clips them to; width and height change together
    RamWrites,    \* the cells the guest writes past the renderer: with the CPU, by blits
    DisplayCell,  \* PCRTC start
    Reads,        \* where its textures and the sources of its blits begin
    CpuCells,     \* the cells its CPU accesses
    Forced,       \* Android without external memory: every frame downloads
    Careful,      \* the guest keeps its targets apart even at the size of a larger
                  \* surface, and does not mask writes while it changes them
    MaskedClears  \* it clears targets whose writes it has masked

(* Copies are named by the surface's address; RAM, and no surface at all,    *)
(* by numbers past every cell.                                               *)
Ram    == Max(Cells) + 1
NoAddr == Max(Cells) + 2

ASSUME CellsAssumption ==
    /\ Cells \subseteq Nat /\ IsFiniteSet(Cells) /\ ColorAddrs \cup ZetaAddrs \subseteq Cells
    /\ \A a \in ColorAddrs \cup ZetaAddrs, n \in Sizes : a .. a + n - 1 \subseteq Cells
    /\ {} \notin {ColorAddrs, ZetaAddrs, Sizes} /\ Sizes \subseteq Nat \ {0} /\ IsFiniteSet(Sizes)
    /\ RamWrites \cup CpuCells \cup Reads \cup {DisplayCell} \subseteq Cells
ASSUME FlagsAssumption == {Forced, Careful, MaskedClears} \subseteq BOOLEAN

VARIABLES
    gpu,   \* what pgraph.lock guards: see below
    req,   \* downloads_pending
    evt,   \* downloads_complete is set; forgotten with the last waiter, for
           \* whoever asks next resets it first
    pf,    \* the PFIFO thread: "idle", or "downloaded" before it reports that
    cpu,   \* the vCPU in a RAM access: [pc, cell, write]
    ui     \* the user interface: [pc, a]

vars == <<gpu, req, evt, pf, cpu, ui>>

(* gpu.surf   r->surfaces: address -> [size, color, dirty, up, down], the    *)
(*            last three draw_dirty, upload_pending and download_pending;    *)
(*            size 0: no surface                                             *)
(* gpu.bind   color_binding and zeta_binding                                 *)
(* gpu.addr, gpu.clip, gpu.last   the target registers, last_surface_shape   *)
(* gpu.stale, gpu.drawn           buffer_dirty and draw_dirty of pg->surface_* *)
(* gpu.fresh  cell -> the copies of it that have the newest data             *)
(* gpu.bad    the checks that have failed: "color" and "zeta" for a surface   *)
(*            that is evicted while bound                                    *)
Parts == {"color", "zeta"}
Addrs == ColorAddrs \cup ZetaAddrs
Absent == [size |-> 0, color |-> FALSE, dirty |-> FALSE, up |-> FALSE, down |-> FALSE]
Live(g) == {a \in Addrs : g.surf[a].size # 0}
Span(a, n) == a .. a + n - 1
Cover(g, a) == Span(a, g.surf[a].size)
Other(p) == IF p = "color" THEN "zeta" ELSE "color"
Bound(g) == {g.bind[p] : p \in Parts} \ {NoAddr}

Init ==
    /\ gpu = [surf |-> [a \in Addrs |-> Absent], bind |-> [color |-> NoAddr, zeta |-> NoAddr],
              addr |-> [color |-> Min(ColorAddrs), zeta |-> Max(ZetaAddrs)],
              clip |-> Min(Sizes), last |-> 0,
              stale |-> {}, drawn |-> {}, fresh |-> [c \in Cells |-> {Ram}], bad |-> {}]
    /\ req = FALSE /\ evt = FALSE /\ pf = "idle"
    /\ cpu = [pc |-> "idle", cell |-> 0, write |-> FALSE]
    /\ ui = [pc |-> "idle", a |-> NoAddr]
-------------------------------------------------------------------------------
(* Copies.  A copy made from a stale one is stale.                           *)

Copy(g, cells, from, to) ==
    [g EXCEPT !.fresh = [c \in Cells |->
        IF c \notin cells THEN @[c]
        ELSE IF from \in @[c] THEN @[c] \cup {to} ELSE @[c] \ {to}]]

Written(g, cells, copy) ==
    [g EXCEPT !.fresh = [c \in Cells |-> IF c \in cells THEN {copy} ELSE @[c]]]

(* download_surface.                                                         *)
Clean(s) == [s EXCEPT !.dirty = FALSE, !.down = FALSE]
Download(g, a) == [Copy(g, Cover(g, a), a, Ram) EXCEPT !.surf[a] = Clean(@)]
DownloadAll(g, as) == FoldSet(LAMBDA a, h : Download(h, a), g, as)
DownloadIfDirty(g, a) == IF g.surf[a].dirty THEN Download(g, a) ELSE g

(* pgraph_vk_upload_surface_data.                                            *)
Upload(g, a) ==
    IF g.surf[a].up
    THEN [Copy(g, Cover(g, a), Ram, a) EXCEPT !.surf[a] = [@ EXCEPT !.up = FALSE]]
    ELSE g
-------------------------------------------------------------------------------
(* Binding and evicting.                                                     *)

Unbind(g, p) == [g EXCEPT !.bind[p] = NoAddr]

(* invalidate_surface: a surface that is bound must be about to be replaced. *)
OtherThan(a, b) == IF b = a THEN NoAddr ELSE b
Invalidate(g, a) ==
    [g EXCEPT
        !.bad = @ \cup {p \in Parts : g.bind[p] = a /\ p \notin g.stale},
        !.bind = [color |-> OtherThan(a, @.color), zeta |-> OtherThan(a, @.zeta)],
        !.surf[a] = Absent,
        !.fresh = [c \in Cells |-> @[c] \ {a}]]
Evict(g, a) == Invalidate(DownloadIfDirty(g, a), a)
EvictAll(g, as) == FoldSet(LAMBDA a, h : Evict(h, a), g, as)

Overlapping(g, cells) == {a \in Live(g) : Cover(g, a) \cap cells # {}}

(* surface_put of a new, never uploaded surface.                             *)
PutOnTop(g, a, n, color) ==
    [g EXCEPT !.surf[a] =
        [size |-> n, color |-> color, dirty |-> FALSE, up |-> TRUE, down |-> FALSE]]
Put(g, a, n, color) ==
    [EvictAll(g, Overlapping(g, Span(a, n))) EXCEPT !.surf[a] =
        [size |-> n, color |-> color, dirty |-> FALSE, up |-> TRUE, down |-> FALSE]]

(* update_surface_part: the depth target takes the size of the bound colour  *)
(* surface.  A larger surface at the address is reused, unless the depth     *)
(* target at its size would overlap it.                                      *)
TargetSize(g, p) ==
    IF p = "color" \/ g.bind.color = NoAddr THEN g.clip ELSE g.surf[g.bind.color].size
CompatibleAnySize(g, p, n) ==
    LET s == g.surf[g.addr[p]] IN s.color = (p = "color") /\ s.size >= n
Compatible(g, p, n) ==
    LET a == g.addr[p]
        s == g.surf[a]
    IN  /\ s.color = (p = "color") /\ s.size >= n
        /\ p = "color" /\ s.size # n =>
               Cover(g, a) \cap Span(g.addr.zeta, s.size) = {}
        /\ p = "zeta" /\ g.bind.color # NoAddr => s.size = g.surf[g.bind.color].size
Freed(g, p) ==
    IF g.bind[Other(p)] = g.addr[p] THEN Unbind(Unbind(g, p), Other(p)) ELSE Unbind(g, p)
Attach(g, p, zetaStale) ==
    [g EXCEPT !.bind[p] = g.addr[p],
              !.stale = (@ \cup (IF zetaStale THEN {"zeta"} ELSE {})) \ {p}]
AttachNew(g, p, n) ==
    Attach(g, p, p = "color" /\ g.bind.zeta # NoAddr /\ g.surf[g.bind.zeta].size # n)
RebindAt(g, p, n) ==
    LET a == g.addr[p]
    IN  IF a \in Live(g) /\ Compatible(g, p, n) THEN Attach(g, p, p = "color")
        ELSE AttachNew(Put(EvictAll(g, {a} \cap Live(g)), a, n, p = "color"), p, n)
Rebind(g, p) == RebindAt(Freed(g, p), p, TargetSize(g, p))
Refresh(g, upload, p) ==
    IF g.bind[p] = NoAddr \/ (upload /\ p \in g.stale) THEN Rebind(g, p) ELSE g
UpdatePart(g, upload, p) ==
    [Refresh(g, upload, p) EXCEPT !.drawn = IF upload THEN @ ELSE @ \ {p}]

(* pgraph_vk_surface_update, up to expire_old_surfaces.                      *)
UploadPart(g, p) == IF g.bind[p] = NoAddr THEN g ELSE Upload(g, g.bind[p])
UploadBound(g) == UploadPart(UploadPart(g, "color"), "zeta")
MatchDims(g) ==
    IF NoAddr \notin {g.bind[p] : p \in Parts}
       /\ g.surf[g.bind.color].size # g.surf[g.bind.zeta].size
    THEN [g EXCEPT !.bad = @ \cup {"dimensions"}] ELSE g
Reshape(g) == IF g.clip = g.last THEN g ELSE [g EXCEPT !.last = g.clip, !.stale = Parts]
UnbindStale(g, p) == IF p \in g.stale THEN Unbind(g, p) ELSE g
PartForDraw(g, writes, p) == IF p \in writes THEN UpdatePart(g, TRUE, p) ELSE g
UpdateForDraw(g, writes) ==
    LET Step(h, p) == PartForDraw(UnbindStale(h, p), writes, p)
    IN  MatchDims(UploadBound(Step(Step(Reshape(g), "color"), "zeta")))
UpdateNoUpload(g, on) ==
    LET Step(h, p) == IF p \in h.drawn \cap on THEN UpdatePart(h, FALSE, p) ELSE h
    IN  MatchDims(Step(Step(g, "color"), "zeta"))

(* ... and expire_old_surfaces, which evicts what was not used for some      *)
(* frames; the frame's time is not modelled: any surface that is not bound   *)
(* may be old.                                                               *)
Expired(g) == {EvictAll(g, old) : old \in SUBSET (Live(g) \ Bound(g))}
-------------------------------------------------------------------------------
(* The PFIFO thread; a method runs with pgraph.lock held.                    *)

(* The guest does not let the GPU use what its CPU is accessing, and keeps   *)
(* the surface that the user interface is about to ask for.                  *)
Fenced(cells) ==
    cpu.pc = "idle" \/ \A a \in Overlapping(gpu, cells) : cpu.cell \notin Cover(gpu, a)
Settle(g) ==
    /\ \A a \in Bound(g) : cpu.pc # "idle" => cpu.cell \notin Cover(g, a)
    /\ ui.pc = "ask" => ui.a \in Live(g)
    /\ gpu' = g /\ UNCHANGED <<req, evt, pf, cpu, ui>>

(* The guest draws to targets that do not overlap.                           *)
MayDraw ==
    LET n == IF Careful THEN Max(Sizes) ELSE gpu.clip
    IN  Span(gpu.addr.color, n) \cap Span(gpu.addr.zeta, n) = {}

(* The parts with writes enabled while a target changes.                     *)
Unmasked == IF Careful THEN {Parts} ELSE SUBSET Parts

(* SET_SURFACE_COLOR_OFFSET, SET_SURFACE_ZETA_OFFSET.                        *)
Moved(g, p, a) ==
    [g EXCEPT !.addr[p] = a, !.stale = IF a = g.addr[p] THEN @ ELSE @ \cup {p}]
SetOffset(p, a, on) ==
    /\ pf = "idle"
    /\ \E g \in Expired(UpdateNoUpload(gpu, on)) : Settle(Moved(g, p, a))

(* SET_SURFACE_CLIP_HORIZONTAL, SET_SURFACE_CLIP_VERTICAL.                   *)
SetClip(n, on) ==
    /\ pf = "idle"
    /\ \E g \in Expired(UpdateNoUpload(gpu, on)) : Settle([g EXCEPT !.clip = n])

(* A draw: the bound surfaces are brought up to date, and those with writes  *)
(* enabled are written and marked (pgraph_vk_set_surface_dirty).             *)
Mark(g, p) ==
    LET a == g.bind[p]
    IN  IF a = NoAddr THEN [g EXCEPT !.drawn = @ \cup {p}]
        ELSE [Written(g, Span(a, g.clip), a) EXCEPT
                !.drawn = @ \cup {p}, !.surf[a] = [@ EXCEPT !.dirty = TRUE]]
MarkDrawn(g, writes) ==
    LET Step(h, p) == IF p \in writes THEN Mark(h, p) ELSE h IN Step(Step(g, "color"), "zeta")
Draw(writes) ==
    /\ pf = "idle" /\ MayDraw
    /\ \E g \in Expired(UpdateForDraw(gpu, writes)) : Settle(MarkDrawn(g, writes))

(* pgraph_vk_clear_surface: the targets named are brought up to date and     *)
(* written whatever the masks say, but pgraph_vk_set_surface_dirty marks     *)
(* only the ones with writes enabled ("Does this apply to CLEARs too?").     *)
Wipe(g, p) == IF g.bind[p] = NoAddr THEN g ELSE Written(g, Span(g.bind[p], g.clip), g.bind[p])
WipeParts(g, ps) ==
    LET Step(h, p) == IF p \in ps THEN Wipe(h, p) ELSE h IN Step(Step(g, "color"), "zeta")
ClearSurface(writes, enabled) ==
    /\ pf = "idle" /\ MayDraw /\ (MaskedClears \/ enabled = writes)
    /\ \E g \in Expired(UpdateForDraw(gpu, writes)) :
           Settle(MarkDrawn(WipeParts(g, writes \ enabled), enabled))

(* Something reads the copy of these cells: it should be a newest one.       *)
Check(g, cells, copy, reader) ==
    IF \A c \in cells : copy \in g.fresh[c] THEN g ELSE [g EXCEPT !.bad = @ \cup {reader}]

(* pgraph_vk_bind_textures: a texture at a surface's address and of its      *)
(* shape is read from the image, any other one from RAM.                     *)
InImage(a, n) == a \in Live(gpu) /\ gpu.surf[a].color /\ gpu.surf[a].size = n
DownloadRange(g, cells) == DownloadAll(g, {a \in Overlapping(g, cells) : g.surf[a].dirty})
Texture(a, n) ==
    /\ pf = "idle" /\ Fenced(Span(a, n)) /\ Span(a, n) \subseteq Cells
    /\ \/ /\ InImage(a, n)
          /\ Settle(Check(Upload(gpu, a), Span(a, n), a, "texture"))
       \/ /\ ~InImage(a, n)
          /\ Settle(Check(DownloadRange(gpu, Span(a, n)), Span(a, n), Ram, "texture"))

(* pgraph_vk_image_blit of n cells, which begins where a surface begins or   *)
(* outside of all: a copy in RAM.  The source is downloaded; so is a         *)
(* destination of which a part remains.                                      *)
BlitStart(a, n) ==
    \/ a \in Live(gpu) /\ n <= gpu.surf[a].size
    \/ Overlapping(gpu, Span(a, n)) = {}
BlitSource(g, a) == IF a \in Live(g) THEN DownloadIfDirty(g, a) ELSE g
Remains(g, a, n) ==
    IF n < g.surf[a].size THEN DownloadIfDirty(g, a)
    ELSE [g EXCEPT !.surf[a] = Clean(@)]
BlitDest(g, a, n) ==
    IF a \in Live(g) THEN [Remains(g, a, n) EXCEPT !.surf[a] = [@ EXCEPT !.up = TRUE]] ELSE g
Blit(from, to, n, on) ==
    LET Read(g) == Check(BlitSource(g, from), Span(from, n), Ram, "blit")
    IN  /\ pf = "idle" /\ BlitStart(from, n) /\ BlitStart(to, n) /\ from # to
        /\ Span(from, n) \subseteq Cells /\ Span(to, n) \subseteq RamWrites
        /\ Fenced(Span(from, n) \cup Span(to, n))
        /\ \E g \in Expired(UpdateNoUpload(gpu, on)) :
               Settle(Written(BlitDest(Read(g), to, n), Span(to, n), Ram))

(* pgraph_vk_process_pending: the requested downloads, then the report;      *)
(* requests come in between, for they are made without pgraph.lock.          *)
ProcessDownloads ==
    /\ pf = "idle" /\ req /\ pf' = "downloaded"
    /\ gpu' = DownloadAll(gpu, {a \in Live(gpu) : gpu.surf[a].down})
    /\ UNCHANGED <<req, evt, cpu, ui>>
ReportDownloads ==
    /\ pf = "downloaded" /\ pf' = "idle" /\ req' = FALSE /\ evt' = TRUE
    /\ UNCHANGED <<gpu, cpu, ui>>

(* pgraph_vk_download_dirty_surfaces, before a snapshot.                     *)
DownloadDirty ==
    LET dirty == {a \in Live(gpu) : gpu.surf[a].dirty}
    IN  /\ pf = "idle" /\ dirty # {}
        /\ Settle(DownloadAll(gpu, dirty))

(* pgraph_vk_surface_flush, for a reset, a loaded snapshot or a new scale.   *)
FlushKeepsBindings ==
    /\ pf = "idle" /\ Live(gpu) # {}
    /\ Settle([EvictAll(gpu, Live(gpu)) EXCEPT !.last = 0, !.drawn = {}, !.bind = gpu.bind])
Flush ==
    LET g == Unbind(Unbind(gpu, "color"), "zeta")
    IN  /\ pf = "idle" /\ Live(gpu) # {}
        /\ Settle([EvictAll(g, Live(g)) EXCEPT !.last = 0, !.drawn = {}])

Method ==
    \/ \E on \in Unmasked :
           \/ \E a \in ColorAddrs : SetOffset("color", a, on)
           \/ \E a \in ZetaAddrs : SetOffset("zeta", a, on)
           \/ \E n \in Sizes : SetClip(n, on)
           \/ \E a \in Reads, b \in RamWrites, n \in Sizes : Blit(a, b, n, on)
    \/ \E writes \in SUBSET Parts :
           Draw(writes) \/ \E enabled \in SUBSET writes : ClearSurface(writes, enabled)
    \/ \E a \in Reads, n \in Sizes : Texture(a, n)
    \/ DownloadDirty \/ Flush
-------------------------------------------------------------------------------
(* The vCPU: surface_access_callback before the access itself.               *)

CpuCallbackReadOnly(c, write) ==
    LET dirty == {a \in Overlapping(gpu, {c}) : gpu.surf[a].dirty}
    IN  /\ cpu.pc = "idle" /\ pf = "idle" /\ (write => c \in RamWrites)
        /\ gpu' = [gpu EXCEPT !.surf = [a \in Addrs |->
                       IF a \in dirty THEN [@[a] EXCEPT !.down = TRUE] ELSE @[a]]]
        /\ cpu' = [pc |-> IF dirty = {} THEN "access" ELSE "ask", cell |-> c, write |-> write]
        /\ UNCHANGED <<req, evt, pf, ui>>
CpuCallback(c, write) ==
    LET touched == Overlapping(gpu, {c})
        dirty == {a \in touched : gpu.surf[a].dirty}
        Told(a) == [gpu.surf[a] EXCEPT !.up = @ \/ write, !.down = @ \/ a \in dirty]
    IN  /\ cpu.pc = "idle" /\ pf = "idle" /\ (write => c \in RamWrites)
        /\ gpu' = [gpu EXCEPT !.surf = [a \in Addrs |-> IF a \in touched THEN Told(a) ELSE @[a]]]
        /\ cpu' = [pc |-> IF dirty = {} THEN "access" ELSE "ask", cell |-> c, write |-> write]
        /\ UNCHANGED <<req, evt, pf, ui>>
CpuAskNoReset ==
    /\ cpu.pc = "ask" /\ req' = TRUE /\ cpu' = [cpu EXCEPT !.pc = "wait"]
    /\ UNCHANGED <<gpu, evt, pf, ui>>
CpuAsk ==
    /\ cpu.pc = "ask" /\ evt' = FALSE /\ req' = TRUE /\ cpu' = [cpu EXCEPT !.pc = "wait"]
    /\ UNCHANGED <<gpu, pf, ui>>
CpuWait ==
    /\ cpu.pc = "wait" /\ evt /\ cpu' = [cpu EXCEPT !.pc = "access"]
    /\ evt' = (ui.pc = "wait") /\ UNCHANGED <<gpu, req, pf, ui>>
CpuAccess ==
    /\ cpu.pc = "access" /\ cpu' = [pc |-> "idle", cell |-> 0, write |-> FALSE]
    /\ gpu' = IF cpu.write THEN Written(gpu, {cpu.cell}, Ram) ELSE gpu
    /\ UNCHANGED <<req, evt, pf, ui>>
CpuStep == CpuAsk \/ CpuWait \/ CpuAccess
-------------------------------------------------------------------------------
(* The user interface: pgraph_vk_get_framebuffer_surface picks the surface   *)
(* and gives pfifo.lock back; pgraph_vk_wait_for_surface_download asks for   *)
(* the download under pfifo.lock, which a download in progress does not hold. *)
UiPick(a) ==
    /\ ui.pc = "idle" /\ a \in Live(gpu) /\ DisplayCell \in Cover(gpu, a)
    /\ gpu.surf[a].color /\ (Forced \/ gpu.surf[a].dirty)
    /\ ui' = [pc |-> "ask", a |-> a]
    /\ UNCHANGED <<gpu, req, evt, pf, cpu>>
UiAsk ==
    /\ ui.pc = "ask" /\ ui' = [pc |-> "wait", a |-> NoAddr]
    /\ evt' = FALSE /\ req' = TRUE
    /\ gpu' = [gpu EXCEPT !.surf[ui.a] = [@ EXCEPT !.down = TRUE]] /\ UNCHANGED <<pf, cpu>>
UiWait ==
    /\ ui.pc = "wait" /\ evt /\ ui' = [pc |-> "idle", a |-> NoAddr]
    /\ evt' = (cpu.pc = "wait") /\ UNCHANGED <<gpu, req, pf, cpu>>
UiStep == UiAsk \/ UiWait

Next ==
    \/ Method \/ ProcessDownloads \/ ReportDownloads
    \/ \E c \in CpuCells, write \in BOOLEAN : CpuCallback(c, write)
    \/ CpuStep \/ UiStep
    \/ \E a \in Live(gpu) : UiPick(a)

Spec == Init /\ [][Next]_vars

(* A guest whose CPU and blits leave alone what the user interface may       *)
(* download, and that has no depth target there: see SurfFallback.cfg for    *)
(* what is lost otherwise.                                                   *)
Displayed == {a \in Addrs : \E n \in Sizes : DisplayCell \in Span(a, n)}
DisplayKept ==
    \A a \in Displayed : a \notin ZetaAddrs /\ \A n \in Sizes : Span(a, n) \cap RamWrites = {}
-------------------------------------------------------------------------------
(* Types; the bindings and the copies that count as newest are of surfaces   *)
(* that exist, across evictions and flushes.                                 *)
TypeOK ==
    /\ DOMAIN gpu.surf = Addrs
    /\ \A a \in Live(gpu) :
           gpu.surf[a] \in [size : Sizes, color : BOOLEAN, dirty : BOOLEAN, up : BOOLEAN, down : BOOLEAN]
    /\ Bound(gpu) \subseteq Live(gpu)
    /\ gpu.stale \subseteq Parts /\ gpu.drawn \subseteq Parts
    /\ gpu.fresh \in [Cells -> SUBSET ({Ram} \cup Live(gpu))]
    /\ {req, evt} \subseteq BOOLEAN /\ pf \in {"idle", "downloaded"}
    /\ cpu.pc \in {"idle", "ask", "wait", "access"} /\ ui.pc \in {"idle", "ask", "wait"}

(* Two pairs of assertions of surface.c hold: invalidate_surface (744, 748)  *)
(* drops a bound surface only when its target has changed, and after         *)
(* pgraph_vk_surface_update (1821, 1822) the bound surfaces have the same    *)
(* size.                                                                     *)
NoAbort == gpu.bad \cap {"color", "zeta", "dimensions"} = {}

(* No texture, no blit and no access of the CPU reads a copy that something  *)
(* newer exists of, although the event the CPU waited for may have been set  *)
(* for someone else.  It takes a guest that clears no masked target.         *)
ReadsFresh ==
    /\ gpu.bad \cap {"texture", "blit"} = {}
    /\ cpu.pc = "access" => Ram \in gpu.fresh[cpu.cell]

(* Surfaces never share memory: one of them would miss what is drawn to the  *)
(* other.                                                                    *)
NoOverlap ==
    \A a, b \in Live(gpu) : a # b => Cover(gpu, a) \cap Cover(gpu, b) = {}

(* The flags tell the truth: an image that is not waiting for an upload is   *)
(* the newest copy, and so is RAM where no surface is marked as drawn to,    *)
(* as long as the guest clears no target whose writes it has masked.         *)
FlagsTrue ==
    /\ \A a \in Live(gpu) : gpu.surf[a].up \/ \A c \in Cover(gpu, a) : a \in gpu.fresh[c]
    /\ \A c \in Cells : \/ Ram \in gpu.fresh[c]
                        \/ \E a \in Live(gpu) : /\ c \in Cover(gpu, a) /\ gpu.surf[a].dirty
                                                      /\ a \in gpu.fresh[c]

(* "Force framebuffer surface download so fallback upload sees fresh         *)
(* pixels": whatever is downloaded when, the newest pixels of every cell     *)
(* survive in some copy.                                                     *)
PixelsSurvive == \A c \in Cells : gpu.fresh[c] # {}
================================================================================
