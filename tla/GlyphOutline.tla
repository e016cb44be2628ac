---------------------------- MODULE GlyphOutline ----------------------------
(***************************************************************************)
(* A face at one size: outlines assembled from simple and composite glyphs *)
(* and filled into masks of one bit per pixel.                             *)
(* Source: Kernel/Source/src/gfx/font/glyph.cpp (load and its parts),      *)
(* raster.cpp and realization.cpp.                                         *)
(*                                                                         *)
(* A request runs under the realization's mutex from load() to the mask,   *)
(* and is one step.  Glyph programs are HintVm's subject: here a realization *)
(* renders with hinting disabled.  A face is a sequence of glyph records;  *)
(* coordinates are 1/64 pixel, y grows upward, point numbers start at 0.   *)
(* The phantom points take room in the workspace and give origin and edge. *)
(***************************************************************************)
EXTENDS HintVm

CONSTANTS
  OutlineFaces,        \* [glyphs: seq of records, maxPoints, maxCompositePoints, other]
  OutlinePpem, OutlineUnits,
  MaxComponentDepth, MaxCurveSegments, MaxBitmapSide, MaxMaskBytes,
  CoordinateLimit, MaxRealizationBytes, MaxRequests

VARIABLES typeface, masks, lastRequest, requests

outlineVars == <<typeface, masks, lastRequest, requests>>

PhantomPoints == 4
fits(v) == -CoordinateLimit <= v /\ v <= CoordinateLimit
FitsPoint(p) == fits(p.x) /\ fits(p.y)
Scaled(v) == divide_nearest(v * OutlinePpem * Pixel, OutlineUnits)
round_pixel(v) == ((v + HalfPixel) \div Pixel) * Pixel
\* Rounds to nearest, ties away from zero.
multiply_unit(v, factor) ==
  LET m == (Magnitude(v * factor) + Unit \div 2) \div Unit
  IN IF v * factor < 0 THEN -m ELSE m

-----------------------------------------------------------------------------
(* The scratch of a realization.  other is what the buffers take that are   *)
(* counted as they are allocated.                                          *)

PointBytes == 8
EdgeBytes == 16
CrossingBytes == 8
point_capacity(f) ==
  (IF f.maxPoints > f.maxCompositePoints THEN f.maxPoints ELSE f.maxCompositePoints)
  + PhantomPoints
edge_capacity(points) == points * MaxCurveSegments
Arrays(f) == point_capacity(f) * (2 * PointBytes + 3 + 4)
scratch_bytes(f) ==
  Arrays(f) + point_capacity(f) * (MaxCurveSegments * EdgeBytes + CrossingBytes) + f.other
\* What the constructor allocates: one crossing for each edge.
AllocatedBytes(f) ==
  Arrays(f) + edge_capacity(point_capacity(f)) * (EdgeBytes + CrossingBytes) + f.other

-----------------------------------------------------------------------------
(* Loading.  A work record holds the outline built so far and the part that *)
(* was loaded last.                                                        *)

NoPart == [points |-> 0, contours |-> 0, origin |-> 0, edge |-> 0]
EmptyWork == [pts |-> <<>>, on |-> <<>>, ends |-> <<>>, error |-> "None", part |-> NoPart]

HasMetrics(record) ==
  fits(record.xMin - record.lsb) /\ fits(record.xMin - record.lsb + record.advance)
\* The origin and advance phantom points, scaled.
Metrics(record) == [origin |-> Scaled(record.xMin - record.lsb),
                    edge |-> Scaled(record.xMin - record.lsb + record.advance)]

load_simple(w, record) ==
  LET n == Len(record.points)
      m == Metrics(record)
  IN IF Len(w.pts) + n + PhantomPoints > point_capacity(typeface)
        \/ Len(w.ends) + Len(record.ends) > point_capacity(typeface)
     THEN Error(w, "PointLimit")
     ELSE IF ~HasMetrics(record) THEN Error(w, "InvalidGlyph")
     ELSE [w EXCEPT !.pts = @ \o [i \in 1 .. n |-> [x |-> Scaled(record.points[i].x),
                                                    y |-> Scaled(record.points[i].y)]],
                    !.on = @ \o record.on, !.ends = @ \o record.ends,
                    !.part = [points |-> n, contours |-> Len(record.ends),
                              origin |-> m.origin, edge |-> m.edge]]

ContourShift(childBase, base) == childBase - base

Transformed(p, m) == [x |-> multiply_unit(p.x, m[1]) + multiply_unit(p.y, m[3]),
                      y |-> multiply_unit(p.x, m[2]) + multiply_unit(p.y, m[4])]

\* The offset of a component placed by distances, scaled like FreeType does
\* when it asks for it.  Offsets round to the grid only while hinting.
PlacedBy(component) ==
  LET m == component.matrix
      scaled == m # <<>> /\ "ScaledComponentOffset" \in component.flags
      x == IF scaled THEN multiply_unit(component.arg1, isqrt(m[1] * m[1] + m[3] * m[3]))
           ELSE component.arg1
      y == IF scaled THEN multiply_unit(component.arg2, isqrt(m[4] * m[4] + m[2] * m[2]))
           ELSE component.arg2
  IN [x |-> Scaled(x), y |-> Scaled(y)]

\* A component placed by attaching its point arg2 to point arg1 of the outline
\* built so far.
MayAttach(component, base, childBase, child) ==
  /\ 0 <= component.arg1 /\ component.arg1 < childBase - base
  /\ 0 <= component.arg2 /\ component.arg2 < child.points
Attached(component, pts, base, childBase) ==
  LET a == pts[base + component.arg1 + 1]
      b == pts[childBase + component.arg2 + 1]
  IN [x |-> a.x - b.x, y |-> a.y - b.y]

\* What add_component does to the outline of w once its part is loaded.
Assembled(w, component, base, childBase, childContours) ==
  LET shift == ContourShift(childBase, base)
      ends == [c \in DOMAIN w.ends |-> IF c > childContours THEN w.ends[c] + shift ELSE w.ends[c]]
      turned == [i \in DOMAIN w.pts |->
                   IF i > childBase /\ component.matrix # <<>>
                   THEN Transformed(w.pts[i], component.matrix) ELSE w.pts[i]]
      byXy == "ArgsAreXyValues" \in component.flags
      d == IF byXy THEN PlacedBy(component) ELSE Attached(component, turned, base, childBase)
      moved == [i \in DOMAIN w.pts |-> IF i > childBase THEN [x |-> turned[i].x + d.x,
                                                              y |-> turned[i].y + d.y]
                                       ELSE turned[i]]
      own == childBase + 1 .. Len(w.pts)
  IN IF \E i \in own : ~FitsPoint(turned[i]) THEN Error(w, "ArithmeticOverflow")
     ELSE IF ~byXy /\ ~MayAttach(component, base, childBase, w.part)
     THEN Error(w, "InvalidComponent")
     ELSE IF ~FitsPoint(d) \/ \E i \in own : ~FitsPoint(moved[i])
     THEN Error(w, "ArithmeticOverflow")
     ELSE [w EXCEPT !.ends = ends, !.pts = moved]

RECURSIVE load_part(_, _, _)
RECURSIVE AddComponents(_, _, _, _, _, _)
\* The components of a composite from the k-th on; m are its metrics so far.
AddComponents(w, record, k, base, depth, m) ==
  IF k > Len(record.components) THEN [w EXCEPT !.part.origin = m.origin, !.part.edge = m.edge]
  ELSE LET component == record.components[k]
           Then(w2, mine) == IF ~OK(w2) THEN w2
                             ELSE AddComponents(w2, record, k + 1, base, depth, mine)
           Add(loaded) ==
             IF ~OK(loaded) THEN loaded
             ELSE Then(Assembled(loaded, component, base, Len(w.pts), Len(w.ends)),
                       IF "UseMyMetrics" \in component.flags
                       THEN [origin |-> loaded.part.origin, edge |-> loaded.part.edge] ELSE m)
       IN Add(load_part(w, component.glyph, depth + 1))

load_composite(w, record, depth) ==
  LET Counted(end) ==
        IF ~OK(end) THEN end
        ELSE IF Len(end.pts) + PhantomPoints > point_capacity(typeface) THEN Error(end, "PointLimit")
        ELSE [end EXCEPT !.part.points = Len(end.pts) - Len(w.pts),
                         !.part.contours = Len(end.ends) - Len(w.ends)]
  IN IF ~HasMetrics(record) THEN Error(w, "InvalidGlyph")
     ELSE Counted(AddComponents([w EXCEPT !.part = NoPart], record, 1, Len(w.pts), depth,
                                Metrics(record)))

load_part(w, id, depth) ==
  IF depth > MaxComponentDepth THEN Error(w, "DepthLimit")
  ELSE IF id \notin DOMAIN typeface.glyphs THEN Error(w, "InvalidGlyph")
  ELSE LET record == typeface.glyphs[id]
           m == Metrics(record)
       IN CASE record.kind = "Absent" /\ ~HasMetrics(record) -> Error(w, "InvalidGlyph")
            [] record.kind = "Absent" /\ HasMetrics(record) ->
                 [w EXCEPT !.part = [NoPart EXCEPT !.origin = m.origin, !.edge = m.edge]]
            [] record.kind = "Simple" -> load_simple(w, record)
            [] record.kind = "Composite" -> load_composite(w, record, depth)

\* load(): the whole outline, relative to its origin.
Based(end) ==
  LET pts == [i \in DOMAIN end.pts |-> [end.pts[i] EXCEPT !.x = @ - end.part.origin]]
  IN IF ~OK(end) THEN end
     ELSE IF \E i \in DOMAIN pts : ~fits(pts[i].x) THEN Error(end, "ArithmeticOverflow")
     ELSE [end EXCEPT !.pts = pts]
LoadFrom(w, id) == Based(load_part(w, id, 0))
LoadOutline(id, before) == LoadFrom(EmptyWork, id)

-----------------------------------------------------------------------------
(* Curves to lines.                                                        *)

midpoint(a, b) == [x |-> (a.x + b.x) \div 2, y |-> (a.y + b.y) \div 2]

\* Horizontal lines make no edge.
Line(a, b) == IF a.y = b.y THEN <<>> ELSE <<[a |-> a, b |-> b]>>

SegmentsOf(a, c, b) ==
  LET deviation == Magnitude(a.x - 2 * c.x + b.x) + Magnitude(a.y - 2 * c.y + b.y)
  IN isqrt(deviation \div 32) + 1
Segments(a, c, b) ==
  IF SegmentsOf(a, c, b) > MaxCurveSegments THEN MaxCurveSegments ELSE SegmentsOf(a, c, b)

\* The i-th of n points on a quadratic curve.
OnCurve(a, c, b, n, i) ==
  LET At(p, q, r) == ((n - i) * (n - i) * p + 2 * i * (n - i) * q + i * i * r
                      + (n * n) \div 2) \div (n * n)
  IN IF i = n THEN b ELSE [x |-> At(a.x, c.x, b.x), y |-> At(a.y, c.y, b.y)]
Quad(a, c, b) ==
  LET n == Segments(a, c, b)
      p == [i \in 0 .. n |-> IF i = 0 THEN a ELSE OnCurve(a, c, b, n, i)]
  IN FlattenSeq([i \in 1 .. n |-> Line(p[i - 1], p[i])])

\* One contour, from its first or last point on the curve or from a middle.
\* Two points off the curve in a row imply one on it half way.
flatten_contour(pts, on, first, last) ==
  LET from == IF on[first] = 1 THEN first + 1 ELSE first
      to == IF on[first] = 0 /\ on[last] = 1 THEN last - 1 ELSE last
      begin == IF on[first] = 1 THEN pts[first]
               ELSE IF on[last] = 1 THEN pts[last] ELSE midpoint(pts[first], pts[last])
      Walk(s, i) ==
        LET q == pts[i]
            m == midpoint(s.control, q)
        IN IF on[i] = 1
           THEN [s EXCEPT !.at = q, !.bent = FALSE,
                          !.out = @ \o (IF s.bent THEN Quad(s.at, s.control, q) ELSE Line(s.at, q))]
           ELSE IF s.bent
           THEN [s EXCEPT !.at = m, !.control = q, !.out = @ \o Quad(s.at, s.control, m)]
           ELSE [s EXCEPT !.control = q, !.bent = TRUE]
      end == FoldLeft(Walk, [at |-> begin, control |-> begin, bent |-> FALSE, out |-> <<>>],
                      [k \in 1 .. to - from + 1 |-> from + k - 1])
  IN end.out \o (IF end.bent THEN Quad(end.at, end.control, begin) ELSE Line(end.at, begin))

Edges(w) == FlattenSeq([c \in DOMAIN w.ends |->
              flatten_contour(w.pts, w.on, IF c = 1 THEN 1 ELSE w.ends[c - 1] + 2, w.ends[c] + 1)])

-----------------------------------------------------------------------------
(* Bounds and filling.                                                     *)

validate_outline(w) ==
  /\ \A c \in DOMAIN w.ends : w.ends[c] < Len(w.pts) /\ (c > 1 => w.ends[c] > w.ends[c - 1])
  /\ \A i \in DOMAIN w.pts : FitsPoint(w.pts[i])

Ceil(v) == -((-v) \div Pixel)
NoBox == [left |-> 0, bottom |-> 0, width |-> 0, height |-> 0]
measure(w) ==
  LET xs == {w.pts[i].x : i \in DOMAIN w.pts}
      ys == {w.pts[i].y : i \in DOMAIN w.pts}
      left == Min(xs) \div Pixel
      bottom == Min(ys) \div Pixel
  IN IF w.pts = <<>> THEN NoBox
     ELSE [left |-> left, bottom |-> bottom, width |-> Ceil(Max(xs)) - left,
           height |-> Ceil(Max(ys)) - bottom]

\* Where the edges cross a scan line, relative to the mask, from left to right.
CrossingAt(edge, y, left) ==
  LET up == edge.b.y > edge.a.y
      a == IF up THEN edge.a ELSE edge.b
      b == IF up THEN edge.b ELSE edge.a
      dy == b.y - a.y
  IN [meets |-> a.y <= y /\ y < b.y, winding |-> IF up THEN 1 ELSE -1,
      x |-> a.x + ((2 * (y - a.y) * (b.x - a.x) + dy) \div (2 * dy)) - left * Pixel]
\* Each crossing is inserted before the first one to its right.
gather(edges, y, left) ==
  LET Insert(list, e) ==
        LET c == CrossingAt(e, y, left)
            before == SelectSeq(list, LAMBDA o : o.x <= c.x)
        IN IF ~c.meets THEN list
           ELSE before \o <<c>> \o SelectSeq(list, LAMBDA o : o.x > c.x)
  IN FoldLeft(Insert, <<>>, edges)

\* The spans between crossings where the winding number is not zero.
spans(edges, y, left) ==
  LET Next(s, c) ==
        LET from == IF s.winding = 0 THEN c.x ELSE s.from
            w == s.winding + c.winding
        IN [winding |-> w, from |-> from,
            out |-> IF w = 0 THEN Append(s.out, [a |-> from, b |-> c.x]) ELSE s.out]
  IN FoldLeft(Next, [winding |-> 0, from |-> 0, out |-> <<>>], gather(edges, y, left)).out

\* The pixels of a span: those whose centre it holds, or the one under its
\* middle when it holds none; only pixels of the mask.
fill_spanLate(s, width) ==
  LET first == (s.a + HalfPixel) \div Pixel
      end == (s.b + HalfPixel) \div Pixel
      pixels == IF first < end THEN first .. end - 1
                ELSE IF s.b <= s.a THEN {} ELSE {(s.a + s.b) \div (2 * Pixel)}
  IN pixels \intersect (0 .. width - 1)
fill_span(s, width) ==
  LET first == (s.a + HalfPixel - 1) \div Pixel
      end == (s.b + HalfPixel - 1) \div Pixel
      pixels == IF first < end THEN first .. end - 1
                ELSE IF s.b <= s.a THEN {} ELSE {(s.a + s.b) \div (2 * Pixel)}
  IN pixels \intersect (0 .. width - 1)

\* render(): the set of <<column, row>> of the mask, rows counted upward.
Filled(w, box) ==
  LET edges == Edges(w)
      Row(r) == LET ss == spans(edges, (box.bottom + r) * Pixel + HalfPixel, box.left)
                IN UNION {fill_span(ss[i], box.width) : i \in DOMAIN ss}
  IN UNION {{<<c, r>> : c \in Row(r)} : r \in 0 .. box.height - 1}

-----------------------------------------------------------------------------
(* Requests.                                                               *)

Refusal(w, box) ==
  CASE ~OK(w) -> w.error
    [] ~validate_outline(w) -> "InvalidOutline"
    [] box.width > MaxBitmapSide \/ box.height > MaxBitmapSide -> "BitmapTooLarge"
    [] ((box.width + 7) \div 8) * box.height > MaxMaskBytes -> "ResourceLimitExceeded"
    [] Len(Edges(w)) > edge_capacity(point_capacity(typeface)) -> "EdgeLimit"
    [] OTHER -> "None"
NoMask == [box |-> NoBox, advance |-> 0, set |-> {}]

MaskOf(w, box, error) ==
  IF error # "None" THEN NoMask
  ELSE [box |-> box, set |-> Filled(w, box),
        advance |-> round_pixel(w.part.edge - w.part.origin) \div Pixel]

\* Realization::create, for a face whose scratch is within the limit.
NoFace == [glyphs |-> <<>>]
CreateRealization(f) ==
  /\ typeface = NoFace
  /\ scratch_bytes(f) <= MaxRealizationBytes
  /\ typeface' = f
  /\ UNCHANGED <<masks, lastRequest, requests>>

\* Realization::glyph: load, measure, render; a failure gives no mask.
OutlineGlyph(id) ==
  /\ requests < MaxRequests
  /\ \E w \in {LoadOutline(id, lastRequest.work)} :
     \E box \in {IF OK(w) /\ validate_outline(w) THEN measure(w) ELSE NoBox} :
     \E error \in {Refusal(w, box)} : \E mask \in {MaskOf(w, box, error)} :
        /\ lastRequest' = [glyph |-> id, error |-> error, mask |-> mask, work |-> w]
        /\ masks' = IF error = "None" /\ id \notin DOMAIN masks
                    THEN masks @@ (id :> mask) ELSE masks
  /\ requests' = requests + 1
  /\ UNCHANGED typeface

OutlineInit ==
  /\ typeface = NoFace
  /\ masks = <<>> /\ requests = 0
  /\ lastRequest = [glyph |-> 0, error |-> "None", mask |-> NoMask, work |-> EmptyWork]
OutlineNext ==
  \/ \E f \in OutlineFaces : CreateRealization(f)
  \/ \E id \in DOMAIN typeface.glyphs : OutlineGlyph(id)
OutlineSpec == OutlineInit /\ [][OutlineNext]_outlineVars

-----------------------------------------------------------------------------
(* Properties.                                                             *)

\* However deep composites nest, the contours of an assembled outline divide
\* its points: the ends grow and the last one is the last point, so the
\* rasteriser never refuses an outline the loader made.
ContoursDivideOutline ==
  LET w == lastRequest.work
  IN OK(w) /\ requests > 0 =>
       /\ \A c \in DOMAIN w.ends : c > 1 => w.ends[c - 1] < w.ends[c]
       /\ w.pts # <<>> => Last(w.ends) = Len(w.pts) - 1

\* The winding number of the outline around the centre of a pixel, summed over
\* all edges without sorting them; a crossing within half a unit counts as
\* left of the centre.
Winding(edges, x, y) ==
  LET Adds(e) ==
        LET up == e.b.y > e.a.y
            a == IF up THEN e.a ELSE e.b
            b == IF up THEN e.b ELSE e.a
        IN IF a.y <= y /\ y < b.y
              /\ 2 * (y - a.y) * (b.x - a.x) < (2 * (x - a.x) + 1) * (b.y - a.y)
           THEN IF up THEN 1 ELSE -1 ELSE 0
  IN FoldLeft(LAMBDA n, e : n + Adds(e), 0, edges)

\* Whether an edge crosses the row of a centre inside the pixel.
Touches(edges, x, y) ==
  \E i \in DOMAIN edges :
    LET c == CrossingAt(edges[i], y, 0)
    IN c.meets /\ x - HalfPixel <= c.x /\ c.x <= x + HalfPixel

\* A mask is the inside of its outline: exactly the pixels whose centre has a
\* winding number other than zero, inside the measured box and around it, and
\* no other pixel except one that an edge crosses.
MaskIsTheInside ==
  LET box == lastRequest.mask.box
      edges == Edges(lastRequest.work)
  IN lastRequest.error = "None" /\ requests > 0 =>
       \A c \in -1 .. box.width, r \in -1 .. box.height :
         LET x == (box.left + c) * Pixel + HalfPixel
             y == (box.bottom + r) * Pixel + HalfPixel
             set == <<c, r>> \in lastRequest.mask.set
         IN IF Winding(edges, x, y) # 0 THEN set ELSE set => Touches(edges, x, y)

\* The edges of every outline the workspace can hold fit the edge buffer, so
\* no glyph is refused for its curves.
EdgesFit == lastRequest.error # "EdgeLimit"

\* The same glyph always gives the same mask, whatever was requested, and
\* whatever failed, before.
SameGlyphSameMask ==
  lastRequest.glyph \in DOMAIN masks =>
    lastRequest.error = "None" /\ lastRequest.mask = masks[lastRequest.glyph]

\* A realization never holds more scratch than MaxRealizationBytes: larger
\* faces are refused when it is created.
ScratchWithinLimit == typeface # NoFace => AllocatedBytes(typeface) <= MaxRealizationBytes

(* A glyph mask is the inside of its outline, whatever was rendered        *)
(* before.                                                                 *)
MasksExact ==
    /\ ContoursDivideOutline /\ MaskIsTheInside /\ EdgesFit
    /\ SameGlyphSameMask
=============================================================================
