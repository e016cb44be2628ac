------------------------------- MODULE Raster -------------------------------
(***************************************************************************)
(* Drawing through a device context (syscalls/GFX.cpp), down to the        *)
(* software raster operations, the Cirrus driver's blitter and bank window *)
(* and the VGA driver's planar writes.                                     *)
(*                                                                         *)
(* The screen is Width x Height pixels of one byte; the pitch of every     *)
(* mode is its width in bytes.  A packed screen is a shadow buffer that    *)
(* has to reach VRAM; a planar one is VRAM itself.  Every pixel starts     *)
(* with a value of its own, and 0 is the pen colour, so that a copied      *)
(* pixel shows where it came from.  Each call holds the draw guard and the *)
(* slot's lock and is one step.  Conversion between pixel formats, one     *)
(* pixel at a time, is left out.                                           *)
(***************************************************************************)
EXTENDS Integers, FiniteSetsExt, SequencesExt

CONSTANTS
    Width, Height,   \* of the screen and of the off-screen bitmap
    kWindowSize,     \* bytes the bank window shows
    kBankGranularity,\* bytes a bank number counts
    ByteBits,        \* pixels in a byte of a plane
    TinyPixels,      \* fills up to this size are drawn by the CPU
    Clips,           \* the clip lists BeginPaint may set up
    FillArgs,        \* <<left, top, right, bottom>> of Rectangle
    Points,          \* where MoveTo and LineTo go
    BlitArgs,        \* <<x, y, srcX, srcY, width, height>> of BitBlt
    MaxDraws         \* bound on the drawing calls

VARIABLES
    surface,  \* the screen's surface: [planar, pixels]
    vram,     \* what the monitor shows
    window,   \* activeBank, as the driver believes and as the chip has it
    bitmap,   \* the pixels of an off-screen bitmap
    dc,       \* the paint DC: [open, rects, dirty, bounds], and the pen position
    rasterDrawn,    \* history: the last call, its arguments and the pixels before it
    draws     \* drawing calls made

rasterVars == <<surface, vram, window, bitmap, dc, rasterDrawn, draws>>

Offsets == 0..(Width * Height - 1)
PixelAt(x, y) == y * Width + x
Columns == 0..(Width - 1)
Rows == 0..(Height - 1)

NoBounds == [l |-> Width, t |-> Height, r |-> 0, b |-> 0]
NoDraw == [kind |-> "none"]

RasterInit ==
    /\ \E planar \in BOOLEAN :
         surface = [planar |-> planar, pixels |-> [o \in Offsets |-> o + 1]]
    /\ vram = [o \in Offsets |-> o + 1]
    /\ window = [active |-> 0, gr09 |-> 0]
    /\ bitmap = [o \in Offsets |-> 100 + o]
    /\ dc = [open |-> FALSE, rects |-> <<>>, bounds |-> NoBounds, x |-> 0, y |-> 0]
    /\ rasterDrawn = NoDraw
    /\ draws = 0

-----------------------------------------------------------------------------
(* Rectangles and clipping. *)

Inside(rect, x, y) == rect.l <= x /\ x < rect.r /\ rect.t <= y /\ y < rect.b
Empty(rect) == rect.r <= rect.l \/ rect.b <= rect.t
Meet(p, q) == [l |-> Max({p.l, q.l}), t |-> Max({p.t, q.t}),
               r |-> Min({p.r, q.r}), b |-> Min({p.b, q.b})]
Join(p, q) == [l |-> Min({p.l, q.l}), t |-> Min({p.t, q.t}),
               r |-> Max({p.r, q.r}), b |-> Max({p.b, q.b})]
RasterScreen == [l |-> 0, t |-> 0, r |-> Width, b |-> Height]

(* The parts of a rectangle ForEachClip visits, in order. *)
ForEachClip(rect) ==
    LET whole == Meet(rect, RasterScreen)
        parts == IF dc.open THEN [i \in DOMAIN dc.rects |-> Meet(whole, dc.rects[i])]
                 ELSE <<whole>>
    IN  SelectSeq(parts, LAMBDA p : ~Empty(p))

InClip(x, y) ==
    /\ Inside(RasterScreen, x, y)
    /\ IF dc.open THEN \E i \in DOMAIN dc.rects : Inside(dc.rects[i], x, y) ELSE TRUE

(* ClipBlit: source and destination lose the same columns and rows. *)
ClipBlit(c) ==
    LET left == Max({0, -c.dx, -c.sx})
        top  == Max({0, -c.dy, -c.sy})
        dx == c.dx + left   dy == c.dy + top
        sx == c.sx + left   sy == c.sy + top
    IN  [dx |-> dx, dy |-> dy, sx |-> sx, sy |-> sy,
         w |-> Min({c.w - left, Width - dx, Width - sx}),
         h |-> Min({c.h - top, Height - dy, Height - sy})]

Distance(a, b) == IF a > b THEN a - b ELSE b - a
Toward(from, to, step) == IF to >= from THEN from + step ELSE from - step

(* The pixels ForEachLinePixel plots: one for each visible step along the     *)
(* longer axis.                                                               *)
ForEachLinePixel(x0, y0, x1, y1) ==
    LET dx == Distance(x0, x1)
        dy == Distance(y0, y1)
        YAt(x) == Toward(y0, y1, (Distance(x, x0) * dy + dx \div 2) \div dx)
        XAt(y) == IF dy = 0 THEN x0
                  ELSE Toward(x0, x1, (Distance(y, y0) * dx + dy \div 2) \div dy)
    IN  IF dx >= dy /\ dx # 0
          THEN { <<x, YAt(x)>> : x \in Columns \cap Min({x0, x1})..Max({x0, x1}) }
                 \cap (Columns \X Rows)
          ELSE { <<XAt(y), y>> : y \in Rows \cap Min({y0, y1})..Max({y0, y1}) }
                 \cap (Columns \X Rows)

-----------------------------------------------------------------------------
(* The screen under a drawing call: [pixels, vram, window, dirty]. *)

Now == [pixels |-> surface.pixels, vram |-> vram, window |-> window,
        dirty |-> NoBounds]

SoftwareFillRect(s, rect) ==
    [s EXCEPT !.pixels = [o \in Offsets |->
        IF Inside(rect, o % Width, o \div Width) THEN 0 ELSE @[o]]]

(* Vga_FillRect: byte by byte, the first and the last one masked. *)
VgaFillRect(s, rect) ==
    LET first == rect.l \div ByteBits
        end   == rect.r - 1
        last  == end \div ByteBits
        Masked(x) == /\ x \div ByteBits \in first..last
                     /\ x \div ByteBits = first => x % ByteBits >= rect.l % ByteBits
                     /\ x \div ByteBits = last => x % ByteBits <= end % ByteBits
    IN  [s EXCEPT !.pixels = [o \in Offsets |->
            IF o \div Width \in rect.t..(rect.b - 1) /\ Masked(o % Width) THEN 0
            ELSE @[o]]]

(* The blitter fills `lines' rows of the rectangle in VRAM; the shadow gets   *)
(* the same pixels only when it finished.                                     *)
CirrusFillRect(s, rect, lines) ==
    LET hit == [s EXCEPT !.vram = [o \in Offsets |->
                   IF Inside([rect EXCEPT !.b = @ - (@ - rect.t - lines)],
                             o % Width, o \div Width) THEN 0 ELSE @[o]]]
    IN  IF lines = rect.b - rect.t THEN SoftwareFillRect(hit, rect) ELSE hit

Add(s, rect) == [s EXCEPT !.dirty = Join(@, rect)]

(* One part of Fill: the CPU for a small one, else the adapter, else the CPU  *)
(* again.  What the adapter filled is visible at once; a blitter that stalls  *)
(* may have filled the first line.                                            *)
FillPart(s, rect, noAccel, stall) ==
    LET tiny  == (rect.r - rect.l) * (rect.b - rect.t) <= TinyPixels
        lines == IF stall THEN Min({1, rect.b - rect.t - 1}) ELSE rect.b - rect.t
    IN  IF surface.planar THEN Add(VgaFillRect(s, rect), rect)
        ELSE IF tiny \/ noAccel THEN Add(SoftwareFillRect(s, rect), rect)
        ELSE IF stall THEN Add(SoftwareFillRect(CirrusFillRect(s, rect, lines), rect), rect)
        ELSE CirrusFillRect(s, rect, lines)

Fill(s, rect, noAccel, stall) ==
    FoldLeft(LAMBDA a, part : FillPart(a, part, noAccel, stall), s, ForEachClip(rect))

-----------------------------------------------------------------------------
(* Copying. *)

(* Rows are moved one at a time, each as a whole; from the bottom when the    *)
(* picture moves down within one buffer.                                      *)
RowOrderAlwaysDown(c, shared) == [i \in 1..c.h |-> i - 1]
RowOrder(c, shared) ==
    [i \in 1..c.h |-> IF shared /\ c.dy > c.sy THEN c.h - i ELSE i - 1]

MoveRow(to, from, c, row) ==
    [o \in Offsets |->
        LET x == (o % Width) - c.dx
        IN  IF o \div Width = c.dy + row /\ x \in 0..(c.w - 1)
              THEN from[PixelAt(c.sx + x, c.sy + row)] ELSE to[o]]

(* Rows that span the pitch are one transfer, which reads before it writes. *)
SoftwareBitBlt(to, from, shared, c) ==
    IF c.w = Width
      THEN [o \in Offsets |->
              IF o \div Width \in c.dy..(c.dy + c.h - 1)
                THEN from[o - PixelAt(0, c.dy) + PixelAt(0, c.sy)] ELSE to[o]]
    ELSE IF shared
      THEN FoldLeft(LAMBDA a, row : MoveRow(a, a, c, row), to, RowOrder(c, shared))
      ELSE FoldLeft(LAMBDA a, row : MoveRow(a, from, c, row), to, RowOrder(c, shared))

(* Within one clipped or planar surface single pixels are copied in memmove   *)
(* order, whichever clip rectangles they lie in.                              *)
PixelOrder(c) ==
    [i \in 1..(c.w * c.h) |->
        LET row == (i - 1) \div c.w
            col == (i - 1) % c.w
        IN  <<IF c.dy = c.sy /\ c.dx > c.sx THEN c.w - 1 - col ELSE col,
              IF c.dy > c.sy THEN c.h - 1 - row ELSE row>>]

CopyPixels(to, c) ==
    FoldLeft(LAMBDA a, p :
                IF InClip(c.dx + p[1], c.dy + p[2])
                  THEN [a EXCEPT ![PixelAt(c.dx + p[1], c.dy + p[2])] =
                                    a[PixelAt(c.sx + p[1], c.sy + p[2])]]
                  ELSE a,
             to, PixelOrder(c))

(* One blit per part of the clip list. *)
CopyParts(to, from, shared, c) ==
    FoldLeft(LAMBDA a, p :
                SoftwareBitBlt(a, from, shared,
                    [dx |-> p.l, dy |-> p.t, sx |-> c.sx + (p.l - c.dx),
                     sy |-> c.sy + (p.t - c.dy), w |-> p.r - p.l, h |-> p.b - p.t]),
             to, ForEachClip([l |-> c.dx, t |-> c.dy,
                              r |-> c.dx + c.w, b |-> c.dy + c.h]))

-----------------------------------------------------------------------------
(* The bank window. *)

Covers(w, offset) ==
    LET base == w.active * kBankGranularity
    IN  offset >= base /\ offset - base < kWindowSize

SetBank(w, offset) ==
    LET bank == offset \div kBankGranularity
    IN  IF Covers(w, offset) THEN w ELSE [active |-> bank, gr09 |-> bank]

(* A store at `at' in the window reaches VRAM where the chip's bank register  *)
(* says; one past the window does not.                                        *)
Stored(v, w, at, value) ==
    LET address == w.gr09 * kBankGranularity + at
    IN  IF at < kWindowSize /\ address \in Offsets THEN [v EXCEPT ![address] = value] ELSE v

RECURSIVE WriteVram(_, _, _)
WriteVram(s, offset, length) ==
    IF length <= 0 THEN s
    ELSE LET w     == SetBank(s.window, offset)
             at    == offset - w.active * kBankGranularity
             chunk == Max({1, Min({kWindowSize - at, length})})
             copy  == FoldLeft(LAMBDA v, i : Stored(v, w, at + i, s.pixels[offset + i]),
                               s.vram, [i \in 1..chunk |-> i - 1])
         IN  WriteVram([s EXCEPT !.vram = copy, !.window = w],
                       offset + chunk, length - chunk)

(* Cirrus_FlushRect: rows as wide as the pitch are one run. *)
FlushRect(s, rect) ==
    LET r == Meet(rect, RasterScreen)
        w == r.r - r.l
    IN  IF Empty(r) THEN s
        ELSE IF w = Width THEN WriteVram(s, PixelAt(0, r.t), w * (r.b - r.t))
        ELSE FoldLeft(LAMBDA a, i : WriteVram(a, PixelAt(r.l, r.t + i), w), s,
                      [i \in 1..(r.b - r.t) |-> i - 1])

(* A planar surface has nothing to flush. *)
PresentRect(s, rect) == IF surface.planar THEN [s EXCEPT !.vram = s.pixels]
                        ELSE FlushRect(s, rect)

(* Present of GFX.cpp: a paint DC only gathers what EndPaint will flush. *)
PresentDraw(s) ==
    IF dc.open THEN [s EXCEPT !.vram = IF surface.planar THEN s.pixels ELSE @]
    ELSE IF Empty(s.dirty) THEN s ELSE PresentRect(s, s.dirty)

(* The end of every drawing call on the screen. *)
Finish(s, x, y) ==
    LET end == PresentDraw(s)
    IN  /\ surface' = [surface EXCEPT !.pixels = end.pixels]
        /\ vram' = end.vram
        /\ window' = end.window
        /\ dc' = [dc EXCEPT !.bounds = IF dc.open /\ ~Empty(s.dirty)
                                         THEN Join(@, s.dirty) ELSE @,
                            !.x = x, !.y = y]
        /\ draws' = draws + 1

-----------------------------------------------------------------------------
BeginRasterPaint(rects) ==
    /\ ~dc.open /\ draws < MaxDraws
    /\ dc' = [dc EXCEPT !.open = TRUE, !.rects = rects, !.bounds = NoBounds]
    /\ rasterDrawn' = NoDraw
    /\ UNCHANGED <<surface, vram, window, bitmap, draws>>

EndRasterPaint ==
    /\ dc.open
    /\ LET end == IF Empty(dc.bounds) THEN Now ELSE PresentRect(Now, dc.bounds)
       IN  vram' = end.vram /\ window' = end.window
    /\ dc' = [dc EXCEPT !.open = FALSE, !.rects = <<>>, !.bounds = NoBounds]
    /\ rasterDrawn' = NoDraw
    /\ UNCHANGED <<surface, bitmap, draws>>

Rectangle(a, noAccel, stall) ==
    /\ draws < MaxDraws
    /\ stall => ~noAccel /\ ~surface.planar
    /\ Finish(Fill(Now, [l |-> a[1], t |-> a[2], r |-> a[3], b |-> a[4]],
                   noAccel, stall), dc.x, dc.y)
    /\ rasterDrawn' = NoDraw
    /\ UNCHANGED bitmap

MoveTo(p) ==
    /\ draws < MaxDraws
    /\ dc' = [dc EXCEPT !.x = p[1], !.y = p[2]]
    /\ rasterDrawn' = NoDraw
    /\ UNCHANGED <<surface, vram, window, bitmap, draws>>

LineTo(p) ==
    /\ draws < MaxDraws
    /\ LET line == { q \in ForEachLinePixel(dc.x, dc.y, p[1], p[2]) :
                       InClip(q[1], q[2]) }
           One(q) == [l |-> q[1], t |-> q[2], r |-> q[1] + 1, b |-> q[2] + 1]
       IN  /\ Finish(FoldLeft(LAMBDA s, q : Fill(s, One(q), FALSE, FALSE),
                              Now, SetToSeq(line)), p[1], p[2])
           /\ rasterDrawn' = [kind |-> "line", x0 |-> dc.x, y0 |-> dc.y, x1 |-> p[1],
                        y1 |-> p[2], plotted |-> line, rects |-> ForEachClip(RasterScreen)]
    /\ UNCHANGED bitmap

Copied(to, from, shared, c) ==
    IF shared /\ (dc.open \/ surface.planar) THEN CopyPixels(to, c)
    ELSE CopyParts(to, from, shared, c)

(* BitBlt to the screen, from itself or, on a packed one, from the bitmap.    *)
BitBltToScreen(a, shared) ==
    /\ draws < MaxDraws
    /\ ~shared => ~surface.planar
    /\ LET c == ClipBlit([dx |-> a[1], dy |-> a[2], sx |-> a[3], sy |-> a[4],
                          w |-> a[5], h |-> a[6]])
           from == IF shared THEN surface.pixels ELSE bitmap
           s == [Now EXCEPT !.pixels = Copied(@, from, shared, c)]
       IN  /\ c.w > 0 /\ c.h > 0
           /\ Finish(Add(s, [l |-> c.dx, t |-> c.dy, r |-> c.dx + c.w,
                             b |-> c.dy + c.h]), dc.x, dc.y)
           /\ rasterDrawn' = [kind |-> "blit", args |-> a, to |-> surface.pixels,
                        from |-> from, rects |-> ForEachClip(RasterScreen)]
    /\ UNCHANGED bitmap

(* BitBlt from the screen into the bitmap, which no clip applies to. *)
BitBltFromScreen(a) ==
    /\ draws < MaxDraws /\ ~surface.planar /\ ~dc.open
    /\ LET c == ClipBlit([dx |-> a[1], dy |-> a[2], sx |-> a[3], sy |-> a[4],
                          w |-> a[5], h |-> a[6]])
       IN  /\ c.w > 0 /\ c.h > 0
           /\ bitmap' = SoftwareBitBlt(bitmap, surface.pixels, FALSE, c)
    /\ draws' = draws + 1
    /\ rasterDrawn' = NoDraw
    /\ UNCHANGED <<surface, vram, window, dc>>

RasterNext ==
    \/ \E rects \in Clips : BeginRasterPaint(rects)
    \/ EndRasterPaint
    \/ \E a \in FillArgs, n, s \in BOOLEAN : Rectangle(a, n, s)
    \/ \E p \in Points : MoveTo(p) \/ LineTo(p)
    \/ \E a \in BlitArgs : BitBltToScreen(a, TRUE) \/ BitBltToScreen(a, FALSE)
                           \/ BitBltFromScreen(a)

RasterSpec == RasterInit /\ [][RasterNext]_rasterVars

-----------------------------------------------------------------------------
Clipped(rects, o) ==
    \E i \in DOMAIN rects : Inside(rects[i], o % Width, o \div Width)

(* A copy behaves as if the whole source had been read before the first pixel *)
(* was written, however the two overlap, however many clip rectangles cut     *)
(* the destination and whatever part lies off either surface: exactly the     *)
(* visible, unclipped destination pixels whose source pixel exists change.    *)
BlitCopiesOldImage ==
    rasterDrawn.kind = "blit" =>
        \A o \in Offsets :
            LET i == (o % Width) - rasterDrawn.args[1]
                j == (o \div Width) - rasterDrawn.args[2]
                sx == rasterDrawn.args[3] + i
                sy == rasterDrawn.args[4] + j
            IN  surface.pixels[o] =
                  IF /\ i \in 0..(rasterDrawn.args[5] - 1) /\ j \in 0..(rasterDrawn.args[6] - 1)
                     /\ Inside(RasterScreen, sx, sy) /\ Clipped(rasterDrawn.rects, o)
                  THEN rasterDrawn.from[PixelAt(sx, sy)] ELSE rasterDrawn.to[o]

(* The monitor shows the surface: every pixel that differs waits for EndPaint*)
(* inside the bounds its paint DC has gathered, also after a stalled fill,    *)
(* and through whichever bank the window was left on.                         *)
MonitorFollowsSurface ==
    \A o \in Offsets :
        vram[o] # surface.pixels[o] =>
            dc.open /\ Inside(dc.bounds, o % Width, o \div Width)

(* A line visits every visible step of its longer axis once, at the pixel     *)
(* nearest to the ideal line, and clipping does not move it: what is plotted  *)
(* is what the unclipped line would have had there.                           *)
LinesAreTheirIdeal ==
    rasterDrawn.kind = "line" =>
        LET dx == rasterDrawn.x1 - rasterDrawn.x0
            dy == rasterDrawn.y1 - rasterDrawn.y0
            steep == Distance(dx, 0) < Distance(dy, 0)
            Near(q) == IF steep
                 THEN 2 * Distance((q[1] - rasterDrawn.x0) * dy, (q[2] - rasterDrawn.y0) * dx)
                        <= Distance(dy, 0)
                 ELSE 2 * Distance((q[2] - rasterDrawn.y0) * dx, (q[1] - rasterDrawn.x0) * dy)
                        <= Distance(dx, 0)
        IN  /\ \A q \in rasterDrawn.plotted : Near(q)
            /\ \A p, q \in rasterDrawn.plotted :
                 p # q => IF steep THEN p[2] # q[2] ELSE p[1] # q[1]
            /\ \A p \in {<<rasterDrawn.x0, rasterDrawn.y0>>, <<rasterDrawn.x1, rasterDrawn.y1>>} :
                 (Inside(RasterScreen, p[1], p[2])
                    /\ Clipped(rasterDrawn.rects, PixelAt(p[1], p[2])))
                   => p \in rasterDrawn.plotted

-----------------------------------------------------------------------------
(***************************************************************************)
(* Fonts and text of the graphics system calls (syscalls/GFX.cpp): font    *)
(* objects and their handles, selecting a font into a device context,      *)
(* measuring text and drawing it.                                          *)
(*                                                                         *)
(* Threads of one process share its handle table and one slot of its       *)
(* device-context table.  SelectFont and DrawText take the scene lock for  *)
(* a part of their work only; the other parts are steps of their own, at   *)
(* which other threads may run.  A glyph is its mask: a full box of width  *)
(* x height pixels at (left, -top) from the pen.  Decoding of UTF-8 is     *)
(* abstracted to a sequence of characters.                                 *)
(***************************************************************************)
CONSTANTS
    TextThread,   \* threads of the process
    Basic,        \* the characters 0x20 to 0x7e
    Replacement,  \* U+FFFD
    Control,      \* a control character
    Faces,        \* [line, cmap, masks]: a realized face, notdef included
    FontCell,         \* the built-in bitmap font: [width, height, ascent, ink]
    Texts,        \* the strings drawn
    Layouts,      \* of "proportional", "grid"
    MaxHandle,    \* size of the handle table
    MaxTextCalls  \* bound on calls

VARIABLES
    fontTable,  \* handle -> "free", "reserved" or a font object
    dcSlot,     \* [used, generation, font]: a slot of the DC table
    textCall,   \* thread -> the call it is in
    replaced,   \* history: <<font a SelectFont displaced, font its caller got>>
    inked,      \* history: what the last DrawText measured and drew
    textCalls   \* calls made

textVars == <<fontTable, dcSlot, textCall, replaced, inked, textCalls>>

NoFont == [face |-> 0]
FreeEntry == [kind |-> "free", font |-> NoFont]
Reserved == [kind |-> "reserved", font |-> NoFont]
Bound(f) == [kind |-> "bound", font |-> f]
InNone == [at |-> "none"]
NotInked == [did |-> FALSE]

TextInit ==
    /\ fontTable = [h \in 1..MaxHandle |-> FreeEntry]
    /\ dcSlot = [used |-> FALSE, generation |-> 1, font |-> NoFont]
    /\ textCall = [t \in TextThread |-> InNone]
    /\ replaced = <<NoFont, NoFont>>
    /\ inked = NotInked
    /\ textCalls = 0

-----------------------------------------------------------------------------
(* Glyphs and metrics.  A font object is [face, fallback]; face 0 would be no *)
(* font, "bitmap" is the built-in one, else an index of Faces.                *)

Mask(left, top, width, height, advance) ==
    [left |-> left, top |-> top, width |-> width, height |-> height,
     advance |-> advance]

IsBitmap(font) == font.face = Len(Faces) + 1
Face(font) == Faces[font.face]

BuiltinGlyph == Mask(0, FontCell.ascent, FontCell.width, FontCell.ascent, FontCell.width)

(* The mask LayoutFontText and FontMetrics take for a character: the face's,  *)
(* its .notdef, or the built-in bitmap when the font asks for that fallback.  *)
Glyph(font, c) ==
    LET face == Face(font)
    IN  IF c \in face.cmap /\ c # Control THEN face.masks[c]
        ELSE IF font.fallback /\ c # Control THEN BuiltinGlyph
        ELSE face.masks["notdef"]

LineOf(font, masks) ==
    LET line == Face(font).line
        above == Max({line.ascent} \cup { m.top : m \in masks })
        below == Max({line.descent} \cup { m.height - m.top : m \in masks })
    IN  [above |-> above,
         height |-> Max({line.ascent + line.descent + line.gap, above + below})]

CellWidth(m) == Max({m.left + m.width, m.advance}) - Min({m.left, 0})

(* FontMetrics over the repertoire: every printable character, and for a      *)
(* terminal the replacement character.                                        *)
FontMetrics(font, terminal) ==
    LET masks == { Glyph(font, c) : c \in Basic \cup IF terminal THEN {Replacement} ELSE {} }
        line  == LineOf(font, masks)
    IN  IF IsBitmap(font)
          THEN [lineHeight |-> FontCell.height, baselineOffset |-> FontCell.ascent,
                cellWidth |-> FontCell.width]
          ELSE [lineHeight |-> line.height, baselineOffset |-> line.above,
                cellWidth |-> Max({ CellWidth(m) : m \in masks })]

(* PrepareFontText widens the line for the glyphs of this text.               *)
TextMetrics(font, terminal, masks) ==
    LET whole == FontMetrics(font, terminal)
        line  == LineOf(font, masks)
    IN  [whole EXCEPT !.lineHeight = Max({@, line.height}),
                      !.baselineOffset = line.above]

Box(l, t, w, h) == [l |-> l, t |-> t, r |-> l + w, b |-> t + h]
Hull(boxes) == [l |-> Min({ x.l : x \in boxes }), t |-> Min({ x.t : x \in boxes }),
                r |-> Max({ x.r : x \in boxes }), b |-> Max({ x.b : x \in boxes })]

(* Where the pen stands before the i-th character. *)
PenAt(font, metrics, text, layout, i) ==
    IF IsBitmap(font) \/ layout = "grid" THEN (i - 1) * metrics.cellWidth
    ELSE FoldLeft(LAMBDA sum, c : sum + Glyph(font, c).advance, 0, SubSeq(text, 1, i - 1))

BitmapInk(pen) == [FontCell.ink EXCEPT !.l = @ + pen, !.r = @ + pen]

(* The box PrepareFontText reckons a glyph's ink at. *)
MeasuredBox(font, metrics, m, pen, layout) ==
    Box(IF layout = "grid" /\ m.left < 0 THEN pen - m.left ELSE pen + m.left,
        metrics.baselineOffset - m.top, m.width, m.height)

(* The box DrawText fills for it. *)
DrawnBox(font, metrics, m, pen, layout) ==
    Box(IF layout = "grid" THEN pen - Min({m.left, 0}) ELSE pen + m.left,
        metrics.baselineOffset - m.top, m.width, m.height)

(* PrepareFontText and, from what it returns, the drawing of DrawText.        *)
Prepared(font, terminal, text, layout) ==
    LET masks == { Glyph(font, text[i]) : i \in DOMAIN text }
        metrics == IF IsBitmap(font) THEN FontMetrics(font, terminal)
                   ELSE TextMetrics(font, terminal, masks)
        Pen(i) == PenAt(font, metrics, text, layout, i)
        measured == { IF IsBitmap(font) THEN BitmapInk(Pen(i))
                      ELSE MeasuredBox(font, metrics, Glyph(font, text[i]), Pen(i), layout) :
                      i \in DOMAIN text }
    IN  [lineHeight |-> metrics.lineHeight,
         advance |-> Pen(Len(text) + 1),
         measured |-> IF text = <<>> THEN Box(0, 0, 0, 0) ELSE Hull(measured),
         drawn |-> { b \in { IF IsBitmap(font) THEN BitmapInk(Pen(i))
                             ELSE DrawnBox(font, metrics, Glyph(font, text[i]), Pen(i), layout) :
                             i \in DOMAIN text } : b.l < b.r /\ b.t < b.b }]

-----------------------------------------------------------------------------
(* Handles. *)

MayCall(t) == textCall[t] = InNone /\ textCalls < MaxTextCalls
FreeHandles == { h \in DOMAIN fontTable : fontTable[h].kind = "free" }
Resolves(h) == fontTable[h].kind = "bound"
Resolved(generation) == dcSlot.used /\ dcSlot.generation = generation

AcquireTextFont(t, font) ==
    /\ MayCall(t) /\ FreeHandles # {}
    /\ fontTable' = [fontTable EXCEPT ![Min(FreeHandles)] = Bound(font)]
    /\ textCalls' = textCalls + 1
    /\ UNCHANGED <<dcSlot, textCall, replaced, inked>>

CloseTextFont(t, h) ==
    /\ MayCall(t) /\ Resolves(h)
    /\ fontTable' = [fontTable EXCEPT ![h] = FreeEntry]
    /\ textCalls' = textCalls + 1
    /\ UNCHANGED <<dcSlot, textCall, replaced, inked>>

CreateContext(t) ==
    /\ MayCall(t) /\ ~dcSlot.used
    /\ dcSlot' = [dcSlot EXCEPT !.used = TRUE, !.font = NoFont]
    /\ textCalls' = textCalls + 1
    /\ UNCHANGED <<fontTable, textCall, replaced, inked>>

DeleteContext(t) ==
    /\ MayCall(t) /\ dcSlot.used
    /\ dcSlot' = [used |-> FALSE, generation |-> dcSlot.generation + 1, font |-> NoFont]
    /\ textCalls' = textCalls + 1
    /\ UNCHANGED <<fontTable, textCall, replaced, inked>>

(* SelectFont resolves the font and reserves a handle before any lock ...     *)
SelectReserve(t, h) ==
    /\ MayCall(t) /\ Resolves(h) /\ FreeHandles # {} /\ dcSlot.used
    /\ fontTable' = [fontTable EXCEPT ![Min(FreeHandles)] = Reserved]
    /\ textCall' = [textCall EXCEPT ![t] =
           [at |-> "swap", font |-> fontTable[h].font, generation |-> dcSlot.generation,
            token |-> Min(FreeHandles)]]
    /\ textCalls' = textCalls + 1
    /\ UNCHANGED <<dcSlot, replaced, inked>>

(* ... exchanges the fonts under the scene lock ...                           *)
SelectSwap(t) ==
    LET c == textCall[t]
    IN  /\ c.at = "swap"
        /\ textCall' = [textCall EXCEPT ![t] =
               [at |-> "bind", token |-> c.token,
                previous |-> IF Resolved(c.generation) THEN dcSlot.font ELSE NoFont]]
        /\ dcSlot' = IF Resolved(c.generation) THEN [dcSlot EXCEPT !.font = c.font] ELSE dcSlot
        /\ UNCHANGED <<fontTable, replaced, inked, textCalls>>

BoundOrCancelled(c) ==
    [fontTable EXCEPT ![c.token] =
        IF c.previous = NoFont THEN FreeEntry ELSE Bound(c.previous)]

(* ... and binds the previous font to the handle, or cancels it.              *)
SelectBind(t) ==
    LET c == textCall[t]
    IN  /\ c.at = "bind"
        /\ fontTable' = BoundOrCancelled(c)
        /\ replaced' = <<c.previous, fontTable'[c.token].font>>
        /\ textCall' = [textCall EXCEPT ![t] = InNone]
        /\ UNCHANGED <<dcSlot, inked, textCalls>>

-----------------------------------------------------------------------------
(* DrawText: retain the font under the lock, prepare the glyphs without it,   *)
(* and draw under the lock again if the context is still the same one.        *)
DrawRetain(t, text, layout, terminal) ==
    /\ MayCall(t) /\ dcSlot.used
    /\ dcSlot.font # NoFont
    /\ textCall' = [textCall EXCEPT ![t] =
           [at |-> "draw", generation |-> dcSlot.generation, font |-> dcSlot.font,
            text |-> text, layout |-> layout, terminal |-> terminal]]
    /\ textCalls' = textCalls + 1
    /\ UNCHANGED <<fontTable, dcSlot, replaced, inked>>

SameContext(c) == Resolved(c.generation)

DrawPrepared(t) ==
    LET c == textCall[t]
    IN  /\ c.at = "draw"
        /\ inked' = IF SameContext(c)
                      THEN [did |-> TRUE, wanted |-> c.generation,
                            into |-> dcSlot.generation, layout |-> c.layout,
                            bitmap |-> IsBitmap(c.font),
                            of |-> Prepared(c.font, c.terminal, c.text, c.layout)]
                      ELSE NotInked
        /\ textCall' = [textCall EXCEPT ![t] = InNone]
        /\ UNCHANGED <<fontTable, dcSlot, replaced, textCalls>>

FontObjects == [face : 1..(Len(Faces) + 1), fallback : BOOLEAN]

TextNext ==
    \E t \in TextThread :
        \/ \E f \in FontObjects : AcquireTextFont(t, f)
        \/ \E h \in 1..MaxHandle : CloseTextFont(t, h) \/ SelectReserve(t, h)
        \/ CreateContext(t) \/ DeleteContext(t)
        \/ SelectSwap(t) \/ SelectBind(t)
        \/ \E text \in Texts, l \in Layouts, terminal \in BOOLEAN :
              DrawRetain(t, text, l, terminal)
        \/ DrawPrepared(t)

TextSpec == TextInit /\ [][TextNext]_textVars

-----------------------------------------------------------------------------
(* Text stays within its line: whatever the glyphs' tops and depths, the ink  *)
(* DrawText leaves lies between the origin and the line height it measured,   *)
(* which is also what an opaque background is filled to.                      *)
InkInsideLine ==
    inked.did => \A b \in inked.of.drawn : 0 <= b.t /\ b.b <= inked.of.lineHeight

(* Proportional and bitmap text is drawn where MeasureText says its ink is.   *)
InkWhereMeasured ==
    inked.did /\ (inked.layout = "proportional" \/ inked.bitmap) =>
        \A b \in inked.of.drawn :
            inked.of.measured.l <= b.l /\ b.r <= inked.of.measured.r

(* The same for text laid out on a grid, which the SDK measures with the same *)
(* call (violated by the source).                                             *)
GridInkWhereMeasured ==
    inked.did =>
        \A b \in inked.of.drawn :
            inked.of.measured.l <= b.l /\ b.r <= inked.of.measured.r

(* Text prepared without the lock is only drawn into the context it was asked *)
(* for, never into one that took over its slot in between.                    *)
DrawnIntoItsContext == inked.did => inked.wanted = inked.into

(* A handle reserved by SelectFont belongs to a call in progress, each to one *)
(* of its own, and the font a selection displaced is the one its caller gets  *)
(* a handle to, also when two threads select into the same context.           *)
SelectionsBalanced ==
    /\ replaced[1] = replaced[2]
    /\ \A h \in 1..MaxHandle :
         (fontTable[h].kind = "reserved") <=>
             (\E t \in TextThread : textCall[t].at \in {"swap", "bind"} /\ textCall[t].token = h)
    /\ \A t, u \in TextThread :
         (t # u /\ textCall[t].at \in {"swap", "bind"} /\ textCall[u].at \in {"swap", "bind"})
            => textCall[t].token # textCall[u].token

(* Pixels drawn are the ones the operation names, in the clip, and text is *)
(* where it was measured.                                                  *)
DrawingExact ==
    /\ MonitorFollowsSurface /\ BlitCopiesOldImage /\ LinesAreTheirIdeal /\ InkInsideLine
    /\ InkWhereMeasured /\ DrawnIntoItsContext /\ SelectionsBalanced
=============================================================================
