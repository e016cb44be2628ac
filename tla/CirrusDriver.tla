---------------------------- MODULE CirrusDriver ----------------------------
(***************************************************************************)
(* The Cirrus driver's side of a mode change (gfx_cirrus/cirrus.cpp): the  *)
(* shadow buffers that change hands between the context, the reservations  *)
(* of validated paths and the desktop surface, the mode catalogue, and     *)
(* what the registers show.                                                *)
(*                                                                         *)
(* Every driver call is made under the callback gate, so a call, and the   *)
(* whole of ProgramDisplayMode, is one step.  Several validated paths may  *)
(* hold a reservation at a time.  Timing, depth and pitch of a mode are    *)
(* the mode; addresses are block numbers, the lowest free one being handed *)
(* out, so a freed address comes back.  A mode is one the catalogue        *)
(* exposes; how the catalogue computes it is DisplayTiming's subject.      *)
(***************************************************************************)
EXTENDS Integers, FiniteSets, Sequences, FiniteSetsExt

CONSTANTS Path,        \* validation tokens
          CirrusMode,  \* the modes the catalogue exposes, by index
          MaxStep      \* bound on the topology generation

VARIABLES cirrus,      \* the CirrusContext
          chipNow,        \* what the registers hold: [mode, on]
          blocks,      \* allocated blocks
          reservation, \* path -> its KDisplayModeReservation
          shown,       \* the KDisplay: [backing, attached, index]
          epoch,       \* g_topology_generation and the resource generation
          pnp          \* the device: resources granted, adapter registered

cirrusVars == <<cirrus, chipNow, blocks, reservation, shown, epoch, pnp>>

NoBlock == 0
NoIndex == 0

NoReservation == [data |-> FALSE, cand |-> NoBlock, prev |-> NoBlock, mode |-> NoIndex,
                  prevMode |-> NoIndex, prevKnown |-> FALSE, prevIndex |-> NoIndex,
                  made |-> 0]

CirrusInit ==
    /\ cirrus = [exists |-> FALSE, window |-> FALSE, shadow |-> NoBlock,
                 mode |-> NoIndex, known |-> FALSE, enabled |-> FALSE,
                 index |-> NoIndex, catalog |-> NoBlock, key |-> 0]
    /\ chipNow = [mode |-> NoIndex, on |-> TRUE]
    /\ blocks = {}
    /\ reservation = [p \in Path |-> NoReservation]
    /\ shown = [backing |-> NoBlock, attached |-> FALSE, index |-> NoIndex]
    /\ epoch = [topology |-> 1, resources |-> 1]
    /\ pnp = [state |-> "found", granted |-> FALSE]

KE_Malloc(used) == CHOOSE b \in 1..(Cardinality(used) + 1) :
                     b \notin used /\ \A c \in 1..(b - 1) : c \in used

-----------------------------------------------------------------------------
(* Bringing the device up. *)

AddDevice(unlocks, created) ==
    /\ pnp.state = "found"
    /\ IF unlocks /\ created
         THEN /\ pnp' = [state |-> "added", granted |-> TRUE]
              /\ cirrus' = [cirrus EXCEPT !.exists = TRUE]
         ELSE /\ pnp' = [pnp EXCEPT !.state = "refused"]
              /\ UNCHANGED cirrus
    /\ UNCHANGED <<chipNow, blocks, reservation, shown, epoch>>

(* The steps of Cirrus_StartDevice that may fail.  Only the first four give   *)
(* the aperture back.                                                         *)
StartFaults == {"none", "aperture", "unlock", "chip", "vram", "region", "map",
                "adapter"}

StartDevice(fault) ==
    /\ pnp.state = "added"
    /\ pnp' = [state   |-> IF fault = "none" THEN "running" ELSE "failed",
               granted |-> fault \notin {"aperture", "unlock", "chip", "vram"}]
    /\ cirrus' = [cirrus EXCEPT !.window = fault \in {"none", "adapter"}]
    /\ UNCHANGED <<chipNow, blocks, reservation, shown, epoch>>

-----------------------------------------------------------------------------
(* Cirrus_EnsureModeCatalog: [ok, ctx, used].  The new catalogue is allocated *)
(* before the old one is freed.                                               *)
EnsureModeCatalog(ctx, used, memory) ==
    LET fresh == KE_Malloc(used)
    IN  IF ctx.catalog # NoBlock /\ ctx.key = epoch.resources
          THEN [ok |-> TRUE, ctx |-> ctx, used |-> used]
        ELSE IF ~memory THEN [ok |-> FALSE, ctx |-> ctx, used |-> used]
        ELSE [ok |-> TRUE,
              ctx |-> [ctx EXCEPT !.catalog = fresh, !.key = epoch.resources],
              used |-> (used \cup {fresh}) \ {ctx.catalog}]

(* Cirrus_PrepareMode: nothing is kept when one of its allocations fails.     *)
PrepareMode(p, m, fault) ==
    /\ pnp.state = "running" /\ ~reservation[p].data
    /\ LET c      == EnsureModeCatalog(cirrus, blocks, fault # "catalog")
           buffer == KE_Malloc(c.used)
       IN  /\ fault = "catalog" => ~c.ok
           /\ cirrus' = c.ctx
           /\ IF c.ok /\ fault = "none"
                THEN /\ blocks' = c.used \cup {buffer}
                     /\ reservation' = [reservation EXCEPT ![p] =
                          [data |-> TRUE, cand |-> buffer, prev |-> cirrus.shadow,
                           mode |-> m, prevMode |-> cirrus.mode,
                           prevKnown |-> cirrus.known, prevIndex |-> cirrus.index,
                           made |-> epoch.topology]]
                ELSE blocks' = c.used /\ UNCHANGED reservation
    /\ UNCHANGED <<chipNow, shown, epoch, pnp>>

(* Cirrus_FinishMode: which blocks are left.  The last case is for a driver   *)
(* whose Enable fails after the mode is set; this driver's does not.          *)
FinishMode(r, ctx, used, committed) ==
    IF committed THEN used \ {r.prev}
    ELSE IF ctx.shadow # r.cand THEN used \ {r.cand}
    ELSE used

(* The previous buffer and mode, put back when ProgramMode fails. *)
TakenBack(ctx, r) == [ctx EXCEPT !.shadow = r.prev, !.mode = r.prevMode]

(* Cirrus_ProgramMode: it fails only while the extension registers stay       *)
(* locked, before it writes any; it leaves the output gated.                  *)
ProgramMode(hw, mode, unlocks) ==
    IF unlocks THEN [mode |-> mode, on |-> FALSE] ELSE hw

(* Cirrus_ProgramReservedMode: [ok, ctx, hw]. *)
ProgramReservedMode(ctx, hw, r, unlocks) ==
    LET next == [ctx EXCEPT !.shadow = r.cand, !.mode = r.mode]
    IN  IF unlocks
          THEN [ok |-> TRUE,
                ctx |-> [next EXCEPT !.known = TRUE, !.index = r.mode,
                                     !.enabled = FALSE],
                hw |-> ProgramMode(hw, r.mode, TRUE)]
          ELSE [ok |-> FALSE, ctx |-> TakenBack(next, r),
                hw |-> ProgramMode(hw, r.mode, FALSE)]

(* Cirrus_RestoreMode, for the mode the display was in before. *)
RestoreMode(ctx, hw, index, r, unlocks) ==
    LET back == [ctx EXCEPT !.shadow = r.prev, !.mode = r.prevMode]
    IN  IF ~r.prevKnown \/ r.prevIndex # index \/ r.prevMode = NoIndex
          THEN [ok |-> FALSE, ctx |-> ctx, hw |-> hw]
        ELSE IF unlocks
          THEN [ok |-> TRUE,
                ctx |-> [back EXCEPT !.known = TRUE, !.index = index,
                                     !.enabled = FALSE],
                hw |-> ProgramMode(hw, r.prevMode, TRUE)]
        ELSE [ok |-> FALSE,
              ctx |-> [back EXCEPT !.known = FALSE, !.enabled = FALSE],
              hw |-> ProgramMode(hw, r.prevMode, FALSE)]

(* Cirrus_Enable and Cirrus_Disable. *)
Gate(x, on) == [x EXCEPT !.ctx.enabled = on, !.hw.on = on]

(* restorePrevious of ProgramDisplayMode, after a failed ProgramMode. *)
RestorePrevious(x, before, r, unlocks) ==
    LET y == IF before.index = r.mode THEN [x EXCEPT !.ok = TRUE]
             ELSE RestoreMode(x.ctx, x.hw, before.index, r, unlocks)
    IN  IF ~before.known THEN [x EXCEPT !.ok = FALSE]
        ELSE IF ~y.ok THEN y
        ELSE Gate(y, before.enabled)

(* ProgramDisplayMode and the commit around it.                               *)
CommitCirrus(p, unlocks, again) ==
    /\ reservation[p].data
    /\ LET r      == reservation[p]
           before == cirrus
           off    == Gate([ok |-> TRUE, ctx |-> cirrus, hw |-> chipNow], FALSE)
           done   == ProgramReservedMode(off.ctx, off.hw, r, unlocks)
           on     == Gate(done, TRUE)
           back   == RestorePrevious(done, before, r, again)
           end    == IF done.ok THEN on ELSE back
           stale  == r.made # epoch.topology
           same   == shown.attached /\ shown.index = r.mode
       IN  IF stale \/ same
             THEN /\ blocks' = FinishMode(r, cirrus, blocks, FALSE)
                  /\ UNCHANGED <<cirrus, chipNow, shown, epoch>>
             ELSE /\ epoch.topology < MaxStep
                  /\ epoch' = [epoch EXCEPT !.topology = @ + 1]
                  /\ cirrus' = end.ctx
                  /\ chipNow' = end.hw
                  /\ blocks' = FinishMode(r, end.ctx, blocks, done.ok)
                  /\ shown' = IF done.ok
                       THEN [backing |-> r.cand, attached |-> TRUE, index |-> r.mode]
                       ELSE [shown EXCEPT !.attached = end.ctx.known /\ end.ctx.enabled]
    /\ reservation' = [reservation EXCEPT ![p] = NoReservation]
    /\ UNCHANGED pnp

(* The token is closed without a commit. *)
CloseCirrusToken(p) ==
    /\ reservation[p].data
    /\ blocks' = FinishMode(reservation[p], cirrus, blocks, FALSE)
    /\ reservation' = [reservation EXCEPT ![p] = NoReservation]
    /\ UNCHANGED <<cirrus, chipNow, shown, epoch, pnp>>

(* KE_GFX_RefreshAdapter on this driver: its one head never changes, but a    *)
(* catalogue that cannot be rebuilt makes the current mode look unsupported.  *)
Refresh(memory) ==
    /\ pnp.state = "running" /\ epoch.topology < MaxStep
    /\ LET c == IF shown.attached THEN EnsureModeCatalog(cirrus, blocks, memory)
                ELSE [ok |-> TRUE, ctx |-> cirrus, used |-> blocks]
       IN  /\ ~memory => ~c.ok
           /\ blocks' = c.used
           /\ IF c.ok THEN cirrus' = c.ctx /\ UNCHANGED <<chipNow, shown>>
              ELSE /\ cirrus' = [cirrus EXCEPT !.enabled = FALSE]
                   /\ chipNow' = [chipNow EXCEPT !.on = FALSE]
                   /\ shown' = [shown EXCEPT !.attached = FALSE]
    /\ epoch' = [topology |-> epoch.topology + 1, resources |-> epoch.resources + 1]
    /\ UNCHANGED <<reservation, pnp>>

CirrusNext ==
    \/ \E u, c \in BOOLEAN : AddDevice(u, c)
    \/ \E f \in StartFaults : StartDevice(f)
    \/ \E p \in Path, m \in CirrusMode,
          f \in {"none", "catalog", "buffer", "backing", "data"} :
          PrepareMode(p, m, f)
    \/ \E p \in Path, u, a \in BOOLEAN : CommitCirrus(p, u, a)
    \/ \E p \in Path : CloseCirrusToken(p)
    \/ \E memory \in BOOLEAN : Refresh(memory)

CirrusSpec == CirrusInit /\ [][CirrusNext]_cirrusVars

-----------------------------------------------------------------------------
(* No buffer is lost and none is freed in use: at any time the allocated      *)
(* blocks are exactly the context's shadow, its catalogue and the candidates  *)
(* of the open reservations, and no two of these are the same block,          *)
(* whichever calls failed and in whatever order the reservations ended.       *)
BlocksAccountedFor ==
    LET cands == {reservation[p].cand : p \in Path} \ {NoBlock}
        open  == {p \in Path : reservation[p].data}
        kept  == {cirrus.shadow, cirrus.catalog} \ {NoBlock}
    IN  /\ blocks = kept \cup cands
        /\ Cardinality(cands) = Cardinality(open)
        /\ kept \cap cands = {}
        /\ cirrus.shadow # NoBlock => cirrus.shadow # cirrus.catalog

(* An attached desktop is drawn into the buffer the driver flushes to the     *)
(* screen, in the mode the registers hold, with both output gates open.       *)
ScreenIsTheSurface ==
    shown.attached =>
        /\ shown.backing = cirrus.shadow /\ shown.backing \in blocks
        /\ cirrus.known /\ chipNow.mode = cirrus.mode
        /\ shown.index = cirrus.index /\ chipNow.on

(* What QueryActualState reports as known is what the registers hold.         *)
ActualStateIsTrue ==
    cirrus.known => /\ chipNow.mode = cirrus.mode /\ chipNow.mode = cirrus.index
                    /\ chipNow.on = cirrus.enabled

-----------------------------------------------------------------------------
(***************************************************************************)
(* How the Cirrus driver turns a monitor timing into the numbers it puts    *)
(* in the CRT controller: the GTF formula, the scan-out layout, the clock   *)
(* search and the packing of the registers                                  *)
(* (gfx_cirrus/cirrus_timing.hpp, and the mode builder of cirrus.cpp).      *)
(*                                                                          *)
(* The arithmetic is the code's, in the code's units, except that the clock *)
(* search runs in units of ClockUnit Hz and PpmScale parts: its products    *)
(* need the code's 64-bit integers.                                         *)
(***************************************************************************)
CONSTANTS
    Timings,        \* the <<width, height, refresh>> a monitor may report
    Chips,          \* the values DetectHardware may read: {"Gd5430", "Gd5434"}
    Targets,        \* the clocks searched for, in units of ClockUnit
    ClockUnit,      \* Hz per unit of the clock search
    PpmScale,       \* parts per unit of the clock search's error
    MaxErrorParts   \* kMaximumPllErrorPpm, in those parts

VARIABLES
    asked,          \* the mode Cirrus_BuildMode is called for
    built           \* what it returned; ok is FALSE before and on refusal

timingVars == <<asked, built>>

Depths == {8, 15, 16, 24, 32}

NoTiming == [ok |-> FALSE]

-----------------------------------------------------------------------------
(* The hardware limits. *)

MaximumPixelClock(chip, bpp) ==
    IF chip = "Gd5434" THEN 80000000
    ELSE CASE bpp = 8 -> 80000000
           [] bpp \in {15, 16} -> 50000000
           [] bpp = 24 -> 28500000
           [] OTHER -> 0

MaximumHardwareClock(chip) ==
    IF chip = "Gd5430" THEN 85500000 ELSE 135000000

(* The three sizes of SR0F, doubled by bit 7 on the GD5434 only. *)
DecodeVram(chip, sizeBits, doubled) ==
    LET bytes == CASE sizeBits = 1 -> 524288
                   [] sizeBits = 2 -> 1048576
                   [] sizeBits = 3 -> 2097152
                   [] OTHER -> 0
    IN  IF chip = "Gd5434" /\ doubled THEN 2 * bytes ELSE bytes

BytesPerPixelOf(bpp) ==
    CASE bpp = 8 -> 1 [] bpp \in {15, 16} -> 2 [] bpp = 24 -> 3 [] bpp = 32 -> 4

(* The code's (rawPitch + 7) & ~7. *)
RoundedPitch(raw) == ((raw + 7) \div 8) * 8

ComputeScanoutLayout(chip, vram, width, height, bpp, clock) ==
    LET bytes   == BytesPerPixelOf(bpp)
        pitch   == RoundedPitch(width * bytes)
        factor  == IF bpp \in {15, 16} /\ (chip = "Gd5430" \/ vram > 1048576)
                     THEN 1 ELSE bytes
    IN  IF \/ clock = 0 \/ clock > MaximumPixelClock(chip, bpp)
           \/ pitch * height > vram
           \/ clock > MaximumHardwareClock(chip) \div factor
          THEN NoTiming
          ELSE [ok |-> TRUE, pitch |-> pitch, factor |-> factor]

-----------------------------------------------------------------------------
(* The GTF formula. *)

NsPerSecond == 1000000000

(* (n * NsPerSecond + d \div 2) \div d, without leaving 32 bits. *)
PerSecond(n, d) ==
    n * (NsPerSecond \div d) + (n * (NsPerSecond % d) + d \div 2) \div d

ComputeGtf(width, height, refresh) ==
    LET estimated == (NsPerSecond \div refresh - 550000) \div (height + 1)
        backPorch == (550000 + estimated \div 2) \div estimated
        vTotal    == height + 1 + backPorch
        lines     == refresh * vTotal
        lineNs    == (NsPerSecond + lines \div 2) \div lines
        reduction == (300 * lineNs + 500) \div 1000
        duty      == 30000 - reduction
        blank     == ((((width * duty + (100000 - duty) \div 2)
                           \div (100000 - duty)) + 8) \div 16) * 16
        hTotal    == width + blank
        syncWidth == ((hTotal + 50) \div 100) * 8
        front     == blank \div 2 - syncWidth
    IN  IF \/ width < 320 \/ width % 8 /= 0 \/ height < 200
           \/ height > 1024 \/ width > 2048 \/ refresh < 50 \/ refresh > 120
           \/ backPorch < 3 \/ reduction >= 30000 \/ blank = 0 \/ front <= 0
          THEN NoTiming
          ELSE [ok |-> TRUE, width |-> width, height |-> height,
                hSyncStart |-> width + front,
                hSyncEnd   |-> width + front + syncWidth,
                hTotal     |-> hTotal,
                vSyncStart |-> height + 1,
                vSyncEnd   |-> height + 4,
                vTotal     |-> vTotal,
                clock      |-> PerSecond(hTotal, lineNs)]

(* kCommonGtfSeeds: the modes whose timing is compiled in. *)
GtfSeeds ==
    { [ok |-> TRUE, width |-> 640, height |-> 480, hSyncStart |-> 656,
       hSyncEnd |-> 720, hTotal |-> 800, vSyncStart |-> 481, vSyncEnd |-> 484,
       vTotal |-> 497, clock |-> 23855673],
      [ok |-> TRUE, width |-> 800, height |-> 600, hSyncStart |-> 832,
       hSyncEnd |-> 912, hTotal |-> 1024, vSyncStart |-> 601, vSyncEnd |-> 604,
       vTotal |-> 622, clock |-> 38216085],
      [ok |-> TRUE, width |-> 1024, height |-> 768, hSyncStart |-> 1080,
       hSyncEnd |-> 1184, hTotal |-> 1344, vSyncStart |-> 769, vSyncEnd |-> 772,
       vTotal |-> 795, clock |-> 64109903] }

FindGtfSeed(width, height, refresh) ==
    { s \in GtfSeeds : refresh = 60 /\ s.width = width /\ s.height = height }

-----------------------------------------------------------------------------
(* The registers. *)

RegisterBit(value, n) == (value \div 2^n) % 2

HTotalPacked(m) == m.hTotal \div 8 - 5

(* CR07 collects the ninth and the tenth bits of four vertical values. *)
Overflow(m) ==
    RegisterBit(m.vTotal - 2, 8) + 2 * RegisterBit(m.height - 1, 8) + 4 * RegisterBit(m.vSyncStart, 8)
      + 8 * RegisterBit(m.height, 8) + 16 + 32 * RegisterBit(m.vTotal - 2, 9)
      + 64 * RegisterBit(m.height - 1, 9) + 128 * RegisterBit(m.vSyncStart, 9)

(* PackCrtc's refusals, the later ones on the register values. *)
Packable(m, pitch) ==
    /\ m.width % 8 = 0 /\ m.hSyncStart % 8 = 0 /\ m.hSyncEnd % 8 = 0
    /\ m.hTotal % 8 = 0 /\ pitch % 8 = 0
    /\ m.width <= m.hSyncStart /\ m.hSyncStart < m.hSyncEnd
    /\ m.hSyncEnd <= m.hTotal
    /\ m.height + 4 <= m.vTotal
    /\ m.height <= m.vSyncStart /\ m.vSyncStart < m.vSyncEnd
    /\ m.vSyncEnd <= m.vTotal
    /\ HTotalPacked(m) \in 0..255
    /\ m.width \div 8 - 1 <= 255 /\ m.hSyncStart \div 8 <= 255
    /\ m.hSyncEnd \div 8 <= 255 /\ m.hTotal \div 8 - 1 <= 255
    /\ m.vTotal - 2 <= 1023 /\ m.height - 1 <= 1023 /\ m.vSyncStart <= 1023
    /\ m.vSyncEnd - m.vSyncStart <= 16
    /\ m.height <= 1023 /\ m.vTotal - 1 <= 1023
    /\ pitch \div 8 <= 511

(* The registers that hold a number, and the bits that extend them. *)
PackCrtc(m, pitch) ==
    LET blankEnd == m.hTotal \div 8 - 1
    IN  [cr00 |-> HTotalPacked(m),
         cr01 |-> m.width \div 8 - 1,
         cr02 |-> m.width \div 8,
         cr03 |-> (blankEnd % 32) + 128,
         cr04 |-> m.hSyncStart \div 8,
         cr05 |-> ((m.hSyncEnd \div 8) % 32) + 128 * RegisterBit(blankEnd, 5),
         cr06 |-> (m.vTotal - 2) % 256,
         cr07 |-> Overflow(m),
         cr09 |-> 32 * RegisterBit(m.height, 9) + 64,
         cr10 |-> m.vSyncStart % 256,
         cr11 |-> m.vSyncEnd % 16,
         cr12 |-> (m.height - 1) % 256,
         cr13 |-> (pitch \div 8) % 256,
         cr15 |-> m.height % 256,
         cr16 |-> (m.vTotal - 1) % 256,
         cr1b |-> 34 + 16 * RegisterBit(pitch \div 8, 8)]

-----------------------------------------------------------------------------
(* The clock search. *)

ClockReference == 14318000 \div ClockUnit

Abs(n) == IF n < 0 THEN -n ELSE n

NoPll == [n |-> 0, div |-> 1, post |-> 0]

(* The raw divider pairs the inner loop visits: the GD5430 counts through    *)
(* divider and postdivider, the GD5434 through effective divisors, of which  *)
(* only the even ones are reached above 31.                                  *)
Divider(chip, code) ==
    IF chip = "Gd5430" THEN [div |-> code \div 2, post |-> code % 2]
    ELSE IF code > 31 THEN [div |-> code \div 2, post |-> 1]
    ELSE [div |-> code, post |-> 0]

Skipped(chip, code) == chip = "Gd5434" /\ code > 31 /\ code % 2 = 1

Numerators(chip) == IF chip = "Gd5430" THEN <<16, 126>> ELSE <<32, 127>>
FirstCode(chip) == IF chip = "Gd5430" THEN 20 ELSE 7

Denominator(p) == p.div * (1 + p.post)
Output(p) == ClockReference * p.n
Requested(p, target) == target * Denominator(p)
ClockError(p, target) == Abs(Output(p) - Requested(p, target))

(* A pair none of the loop's tests on the pair alone skips. *)
PllUsable(p, chip, target, limit) ==
    /\ chip = "Gd5430" => /\ Output(p) >= (28636000 \div ClockUnit) * p.div
                          /\ Output(p) <= (111000000 \div ClockUnit) * p.div
    /\ Output(p) <= limit * Denominator(p)
    /\ (ClockError(p, target) * PpmScale + Requested(p, target) \div 2)
         \div Requested(p, target) <= MaxErrorParts

(* p's relative error is smaller than q's, by cross multiplication. *)
PllBeats(p, q, target) ==
    ClockError(p, target) * Requested(q, target)
      < ClockError(q, target) * Requested(p, target)

(* What the inner loop makes of `best': of one numerator's usable codes the   *)
(* first that no other beats, if it beats what the earlier numerators left.   *)
PllRow(best, n, chip, target, limit) ==
    LET At(code) == [n |-> n, div |-> Divider(chip, code).div,
                     post |-> Divider(chip, code).post]
        codes == { c \in FirstCode(chip)..63 :
                     ~Skipped(chip, c) /\ PllUsable(At(c), chip, target, limit) }
        nearest == { c \in codes :
                       \A d \in codes : ~PllBeats(At(d), At(c), target) }
        first == At(Min(nearest))
    IN  IF codes /= {} /\ (best = NoPll \/ PllBeats(first, best, target))
          THEN first ELSE best

-----------------------------------------------------------------------------
TimingInit ==
    /\ built = NoTiming
    /\ \/ \E t \in Timings, chip \in Chips, bits \in 0..3, doubled \in BOOLEAN,
             bpp \in Depths, supported \in BOOLEAN :
            asked = [kind |-> "mode", chip |-> chip, timing |-> t, bpp |-> bpp,
                     vram |-> DecodeVram(chip, bits, doubled),
                     supported |-> supported]
       \/ \E chip \in Chips, target \in Targets :
            asked = [kind |-> "clock", chip |-> chip, target |-> target,
                     limit |-> MaximumHardwareClock(chip) \div ClockUnit]

(* Cirrus_BuildMode for one timing and depth.  Whether the clock search       *)
(* succeeds is left open here; the monitor's Supports is an input.            *)
BuildMode ==
    /\ asked.kind = "mode" /\ ~built.ok
    /\ LET width   == asked.timing[1]
           height  == asked.timing[2]
           refresh == asked.timing[3]
           seeds   == FindGtfSeed(width, height, refresh)
           gtf     == IF seeds /= {} THEN CHOOSE s \in seeds : TRUE
                      ELSE ComputeGtf(width, height, refresh)
           layout  == ComputeScanoutLayout(asked.chip, asked.vram, width, height,
                                           asked.bpp, gtf.clock)
       IN  /\ asked.vram /= 0
           /\ gtf.ok
           /\ gtf.clock <= MaximumPixelClock(asked.chip, asked.bpp)
           /\ layout.ok
           /\ Packable(gtf, layout.pitch)
           /\ asked.chip = "Gd5430" => asked.bpp /= 32
           /\ asked.supported
           /\ built' = [ok |-> TRUE, timing |-> gtf, pitch |-> layout.pitch,
                        crtc |-> PackCrtc(gtf, layout.pitch)]
    /\ UNCHANGED asked

(* ChoosePll, one turn of the outer loop at a time. *)
StartSearch ==
    /\ asked.kind = "clock" /\ built = NoTiming
    /\ asked.target <= asked.limit
    /\ built' = [ok |-> FALSE, n |-> Numerators(asked.chip)[1], pll |-> NoPll]
    /\ UNCHANGED asked

Searching == asked.kind = "clock" /\ built /= NoTiming /\ ~built.ok

SearchRow ==
    /\ Searching
    /\ built.n <= Numerators(asked.chip)[2]
    /\ built' = [built EXCEPT
         !.n = @ + 1,
         !.pll = PllRow(@, built.n, asked.chip, asked.target, asked.limit)]
    /\ UNCHANGED asked

ChoosePll ==
    /\ Searching
    /\ built.n > Numerators(asked.chip)[2]
    /\ built' = IF built.pll = NoPll THEN NoTiming
                ELSE [built EXCEPT !.ok = TRUE]
    /\ UNCHANGED asked

TimingNext == BuildMode \/ StartSearch \/ SearchRow \/ ChoosePll

TimingSpec == TimingInit /\ [][TimingNext]_timingVars

-----------------------------------------------------------------------------
(* The first value from start on whose low bits are those of a compare        *)
(* field: where the controller's counter ends a blank or a sync pulse.        *)
EndsAt(start, field, modulus) ==
    start + ((field + modulus - (start % modulus)) % modulus)

(* What the controller makes of the registers is the timing the mode was      *)
(* built from: every total, display end, blank and sync interval and the      *)
(* pitch come back out of the packed fields and their overflow bits, and no   *)
(* blank or sync interval is longer than its short compare field can count.   *)
RegistersHoldTheTiming ==
    (asked.kind = "mode" /\ built.ok) =>
      LET c == built.crtc
          m == built.timing
          hBlankEnd == (c.cr03 % 32) + 32 * RegisterBit(c.cr05, 7)
          vSyncStart == c.cr10 + 256 * RegisterBit(c.cr07, 2) + 512 * RegisterBit(c.cr07, 7)
      IN  /\ (c.cr00 + 5) * 8 = m.hTotal
          /\ (c.cr01 + 1) * 8 = m.width
          /\ 8 * EndsAt(c.cr02, hBlankEnd, 64) = m.hTotal - 8
          /\ c.cr04 * 8 = m.hSyncStart
          /\ 8 * EndsAt(c.cr04, c.cr05 % 32, 32) = m.hSyncEnd
          /\ c.cr06 + 256 * RegisterBit(c.cr07, 0) + 512 * RegisterBit(c.cr07, 5) + 2 = m.vTotal
          /\ c.cr12 + 256 * RegisterBit(c.cr07, 1) + 512 * RegisterBit(c.cr07, 6) + 1 = m.height
          /\ c.cr15 + 256 * RegisterBit(c.cr07, 3) + 512 * RegisterBit(c.cr09, 5) = m.height
          /\ vSyncStart = m.vSyncStart
          /\ EndsAt(vSyncStart, c.cr11, 16) = m.vSyncEnd
          /\ 8 * (c.cr13 + 256 * RegisterBit(c.cr1b, 4)) = built.pitch

(* A compiled-in timing is exactly what the GTF formula gives for its mode,   *)
(* so a mode scans the same way whichever of the two it is built from.        *)
SeedsAreTheFormula ==
    (asked.kind = "mode" /\ built.ok) =>
        built.timing = ComputeGtf(asked.timing[1], asked.timing[2], asked.timing[3])

(* The clock the search settles on is the closest one, in relative error, of  *)
(* all the divider pairs the chip can be programmed with under its limits.    *)
NearestClock ==
    (asked.kind = "clock" /\ built.ok) =>
        \A n \in 16..127, div \in 7..31, post \in 0..1 :
            LET p == [n |-> n, div |-> div, post |-> post]
            IN  (/\ IF asked.chip = "Gd5430" THEN n <= 126 /\ div >= 10
                    ELSE n >= 32 /\ (post = 1 => div >= 16)
                 /\ PllUsable(p, asked.chip, asked.target, asked.limit))
                  => ClockError(p, asked.target) * Requested(built.pll, asked.target)
                       >= ClockError(built.pll, asked.target)
                            * Requested(p, asked.target)

(* The registers hold the timing that was asked for and the monitor shows  *)
(* the surface the driver reports.                                         *)
DisplayDriven ==
    /\ ScreenIsTheSurface /\ ActualStateIsTrue /\ RegistersHoldTheTiming
    /\ SeedsAreTheFormula /\ NearestClock /\ BlocksAccountedFor
=============================================================================
