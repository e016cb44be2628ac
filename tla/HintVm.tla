------------------------------- MODULE HintVm -------------------------------
(***************************************************************************)
(* The TrueType instructions that measure and move outline points, as      *)
(* operators on the state of one hinting run.                              *)
(* Source: Kernel/Source/src/gfx/font/vm_points.cpp, vm_hints.cpp and the  *)
(* numeric helpers of vm_executor.cpp.                                     *)
(*                                                                         *)
(* A run is a record: its operand stack, its work counter, the graphics    *)
(* state (projection, dual, freedom, ref, zp, loop, param), the CVT and    *)
(* the two zones z[0] (twilight) and z[1] (the glyph).  A zone holds the   *)
(* original and current position of its points and which axes of each were *)
(* touched.  An instruction that fails sets error and the run ends.        *)
(*                                                                         *)
(* Unit is the length of a unit vector (16384 in the code) and IntMax the  *)
(* largest int32; the pixel is the code's 64 units.  Differences of two    *)
(* coordinates the code forms in an int32 without a check wrap.            *)
(***************************************************************************)
EXTENDS Integers, SequencesExt

CONSTANTS Unit, IntMax, MaxWork, FractionScale, NormalizeLimit

Pixel == 64
HalfPixel == 32
Axis == {"x", "y"}
Flags(n, bit) == (n \div bit) % 2 = 1
IsInt(v) == -IntMax - 1 <= v /\ v <= IntMax
WrapInt(v) == ((v + IntMax + 1) % (2 * IntMax + 2)) - IntMax - 1
Magnitude(v) == IF v < 0 THEN -v ELSE v
\* The quotient of C: truncated towards zero.
Quot(a, b) == LET q == Magnitude(a) \div Magnitude(b)
              IN IF (a < 0) = (b < 0) THEN q ELSE -q

divide_nearest(n, d) ==
  LET q == (2 * Magnitude(n) + Magnitude(d)) \div (2 * Magnitude(d))
  IN IF (n < 0) = (d < 0) THEN q ELSE -q

isqrt(v) == CHOOSE r \in 0 .. v : r * r <= v /\ v < (r + 1) * (r + 1)

OK(s) == s.error = "None"
Error(s, e) == [s EXCEPT !.error = e]
Charge(s, n) == IF n > MaxWork - s.work THEN Error(s, "WorkLimit")
                ELSE [s EXCEPT !.work = @ + n]
Operand(s, k) == s.stack[Len(s.stack) - k]
Drop(s, k) == [s EXCEPT !.stack = SubSeq(@, 1, Len(@) - k)]
\* Each element of seq in turn, until one of them fails.
InTurn(s, seq, Apply(_, _)) ==
  FoldLeft(LAMBDA t, e : IF OK(t) THEN Apply(t, e) ELSE t, s, seq)

-----------------------------------------------------------------------------
(* Rounding.                                                               *)

MagnitudeUp(v, param) ==
  CASE param.round = "Grid" -> ((v + HalfPixel) \div Pixel) * Pixel
    [] param.round = "HalfGrid" -> (v \div Pixel) * Pixel + HalfPixel
    [] param.round = "DoubleGrid" -> ((v + 16) \div HalfPixel) * HalfPixel
    [] param.round = "Down" -> (v \div Pixel) * Pixel
    [] param.round = "Up" -> ((v + Pixel - 1) \div Pixel) * Pixel
    [] param.round = "Off" -> v

\* Super rounding floors, Super45 truncates.
SuperRounded(v, param) ==
  LET offset == Magnitude(v) + param.threshold - param.phase
      steps == IF param.round = "Super" THEN offset \div param.period
               ELSE Quot(offset, param.period)
      grid == steps * param.period
  IN IF v >= 0
     THEN IF grid + param.phase < 0 THEN param.phase ELSE grid + param.phase
     ELSE IF -grid - param.phase > 0 THEN -param.phase ELSE -grid - param.phase

rounded_distance(v, param) ==
  IF param.round \in {"Super", "Super45"} THEN SuperRounded(v, param)
  ELSE IF v < 0 THEN -MagnitudeUp(-v, param) ELSE MagnitudeUp(v, param)

\* SROUND and S45ROUND: period, phase and threshold from one selector byte.
set_super_round(s, op) ==
  IF s.stack = <<>> THEN Error(s, "StackUnderflow")
  ELSE LET byte == Operand(s, 0) % 256
           grid == IF op = "S45ROUND" THEN 11585 ELSE 16384
           period == CASE byte \div 64 = 0 -> grid \div 2
                       [] byte \div 64 = 2 -> grid * 2
                       [] OTHER -> grid
           phase == (((byte \div 16) % 4) * period) \div 4
           low == byte % 16
           threshold == IF low = 0 THEN period - 1 ELSE Quot((low - 4) * period, 8)
       IN [Drop(s, 1) EXCEPT
             !.param.round = IF op = "S45ROUND" THEN "Super45" ELSE "Super",
             !.param.period = period \div 256,
             !.param.phase = phase \div 256,
             !.param.threshold = threshold \div 256]

-----------------------------------------------------------------------------
(* Points, vectors and moves.                                              *)

dot(p, v) == (p.x * v.x + p.y * v.y + Unit \div 2) \div Unit
Minus(a, b) == [x |-> WrapInt(a.x - b.x), y |-> WrapInt(a.y - b.y)]
project(s, p) == dot(p, s.projection)
Located(s, zp, i) == i \in DOMAIN s.z[s.zp[zp]].current
Current(s, zp, i) == s.z[s.zp[zp]].current[i]
Original(s, zp, i) == s.z[s.zp[zp]].original[i]
Touching(v) == {a \in Axis : v[a] # 0}

\* A freedom vector nearly perpendicular to the projection counts as parallel.
movement_scale(s) ==
  LET scale == (s.freedom.x * s.projection.x + s.freedom.y * s.projection.y
                + Unit \div 2) \div Unit
  IN IF Magnitude(scale) < Unit \div 16 THEN Unit ELSE scale

Placed(s, zone, i, dx, dy, touch) ==
  LET p == s.z[zone].current[i]
      x == IF s.freedom.x # 0 THEN p.x + dx ELSE p.x
      y == IF s.freedom.y # 0 THEN p.y + dy ELSE p.y
  IN IF ~IsInt(p.x + dx) \/ ~IsInt(p.y + dy) THEN Error(s, "ArithmeticOverflow")
     ELSE [s EXCEPT !.z[zone].current[i] = [x |-> x, y |-> y],
                    !.z[zone].touched[i] = IF touch THEN @ \union Touching(s.freedom)
                                           ELSE @]

shift_point(s, zone, i, dx, dy, touch) == Placed(s, zone, i, dx, dy, touch)

move_point(s, zone, i, distance) ==
  LET along(a) == IF s.freedom[a] = 0 THEN 0
                  ELSE divide_nearest(distance * s.freedom[a], movement_scale(s))
  IN Placed(s, zone, i, along("x"), along("y"), TRUE)

\* The vector of a direction, unless the direction is zero.
RECURSIVE Halved(_, _)
Halved(x, y) ==
  IF Magnitude(x) > NormalizeLimit \/ Magnitude(y) > NormalizeLimit
  THEN Halved(x \div 2, y \div 2) ELSE [x |-> x, y |-> y]
normalize(x, y, old) ==
  LET d == Halved(x, y)
      length == isqrt((d.x * d.x + d.y * d.y) * FractionScale * FractionScale)
  IN IF d.x = 0 /\ d.y = 0 THEN old
     ELSE [x |-> divide_nearest(d.x * Unit * FractionScale, length),
           y |-> divide_nearest(d.y * Unit * FractionScale, length)]

\* The line from b to a, or across it; equal points give the x axis.
LineVector(a, b, across, old) ==
  LET x == a.x - b.x
      y == a.y - b.y
  IN IF x = 0 /\ y = 0 THEN normalize(Unit, 0, old)
     ELSE IF across THEN normalize(-y, x, old) ELSE normalize(x, y, old)

\* SPVTL, SFVTL, SDPVTL: the top operand is a point of zp2, the lower of zp1.
point_vector(s, op, across, lower, top) ==
  LET vector == LineVector(Current(s, 1, lower), Current(s, 2, top), across,
                           IF op = "SFVTL" THEN s.freedom ELSE s.projection)
  IN CASE op = "SPVTL" -> [s EXCEPT !.projection = vector, !.dual = vector]
       [] op = "SFVTL" -> [s EXCEPT !.freedom = vector]
       [] op = "SDPVTL" ->
            [s EXCEPT !.projection = vector,
                      !.dual = LineVector(Original(s, 1, lower), Original(s, 2, top),
                                          across, s.dual)]

vector_op(s, op, n) ==
  IF Len(s.stack) < 2 THEN Error(s, "StackUnderflow")
  ELSE LET lower == Operand(s, 1)
           top == Operand(s, 0)
       IN CASE op = "SPVFS" ->
                 LET v == normalize(lower, top, s.projection)
                 IN [Drop(s, 2) EXCEPT !.projection = v,
                       !.dual = IF lower = 0 /\ top = 0 THEN @ ELSE v]
            [] op = "SFVFS" -> [Drop(s, 2) EXCEPT !.freedom = normalize(lower, top, @)]
            [] OTHER -> IF ~Located(s, 1, lower) \/ ~Located(s, 2, top)
                        THEN Error(s, "InvalidPoint")
                        ELSE Drop(point_vector(s, op, n = 1, lower, top), 2)

-----------------------------------------------------------------------------
(* Instructions on as many points as the loop counter says.                *)

EachLoopPoint(s, zp, Apply(_, _)) ==
  LET One(t, i) == LET c == Charge(t, 1)
                       at == Operand(c, 0)
                   IN IF ~OK(c) THEN c
                      ELSE IF ~Located(c, zp, at) THEN Error(c, "InvalidPoint")
                      ELSE Apply(Drop(c, 1), at)
      end == InTurn(s, [i \in 1 .. s.loop |-> i], One)
  IN IF OK(end) THEN [end EXCEPT !.loop = 1] ELSE end

\* SHPIX.  The code ends with the loop reset even for a loop of zero.
shift_pixels(s) ==
  IF Len(s.stack) < 1 + s.loop THEN Error(s, "StackUnderflow")
  ELSE LET by(a) == divide_nearest(Operand(s, 0) * s.freedom[a], Unit)
           One(t, i) == shift_point(t, t.zp[2], i, by("x"), by("y"), TRUE)
       IN EachLoopPoint(Drop(s, 1), 2, One)

\* ALIGNRP.
align_to_reference(s) ==
  IF Len(s.stack) < s.loop THEN Error(s, "StackUnderflow")
  ELSE IF ~Located(s, 0, s.ref[0]) THEN Error(s, "InvalidPoint")
  ELSE LET One(t, i) == move_point(t, t.zp[1], i,
                          -project(t, Minus(Current(t, 1, i), Current(t, 0, t.ref[0]))))
       IN EachLoopPoint(s, 1, One)

\* How far a reference point has moved, along the freedom vector: rp1 in zp0
\* for the odd opcodes, rp2 in zp1 for the even ones.
Reference(s, odd) == IF odd THEN [zp |-> 0, at |-> s.ref[1]] ELSE [zp |-> 1, at |-> s.ref[2]]
displacement(s, odd) ==
  LET r == Reference(s, odd)
      distance == project(s, Minus(Current(s, r.zp, r.at), Original(s, r.zp, r.at)))
  IN [a \in Axis |-> divide_nearest(distance * s.freedom[a], movement_scale(s))]

\* SHP.
shift_by_reference(s, odd) ==
  LET r == Reference(s, odd)
      d == displacement(s, odd)
      One(t, i) == shift_point(t, t.zp[2], i, d["x"], d["y"], TRUE)
  IN IF Len(s.stack) < s.loop THEN Error(s, "StackUnderflow")
     ELSE IF ~Located(s, r.zp, r.at) THEN Error(s, "InvalidPoint")
     ELSE EachLoopPoint(s, 2, One)

\* IP: the distance from rp1 scaled as the span from rp1 to rp2 was.
interpolate_points(s) ==
  LET old == dot(Minus(Original(s, 1, s.ref[2]), Original(s, 0, s.ref[1])), s.dual)
      new == project(s, Minus(Current(s, 1, s.ref[2]), Current(s, 0, s.ref[1])))
      base0 == Original(s, 0, s.ref[1])
      base == Current(s, 0, s.ref[1])
      One(t, i) ==
        LET was == dot(Minus(Original(t, 2, i), base0), t.dual)
            is == project(t, Minus(Current(t, 2, i), base))
            target == IF was = 0 THEN 0
                      ELSE IF old = 0 THEN was ELSE divide_nearest(was * new, old)
        IN move_point(t, t.zp[2], i, target - is)
  IN IF Len(s.stack) < s.loop THEN Error(s, "StackUnderflow")
     ELSE IF ~Located(s, 0, s.ref[1]) \/ ~Located(s, 1, s.ref[2])
          THEN Error(s, "InvalidPoint")
     ELSE EachLoopPoint(s, 2, One)

\* FLIPPT on the loop points, FLIPRGON and FLIPRGOFF on an inclusive range.
flip_points(s, op) ==
  LET Flip(t, i) == [t EXCEPT !.z[1].on[i] = 1 - @]
      Flipped(t, k) == LET c == Charge(t, 1)
                           at == Operand(c, 0)
                       IN IF ~OK(c) THEN c
                          ELSE IF at \notin DOMAIN c.z[1].on THEN Error(c, "InvalidPoint")
                          ELSE Flip(Drop(c, 1), at)
      Set(t, i) == LET c == Charge(t, 1)
                   IN IF OK(c) THEN [c EXCEPT !.z[1].on[i] = IF op = "FLIPRGON" THEN 1 ELSE 0]
                      ELSE c
      first == Operand(s, 1)
      last == Operand(s, 0)
      end == InTurn(s, [i \in 1 .. s.loop |-> i], Flipped)
      range == InTurn(s, [k \in 1 .. last - first + 1 |-> first + k - 1], Set)
  IN CASE DOMAIN s.z[1].on = {} -> Error(s, "InvalidState")
       [] op = "FLIPPT" ->
            IF Len(s.stack) < s.loop THEN Error(s, "StackUnderflow")
            ELSE IF OK(end) THEN [end EXCEPT !.loop = 1] ELSE end
       [] OTHER ->
            IF Len(s.stack) < 2 THEN Error(s, "StackUnderflow")
            ELSE IF {first, last} \subseteq DOMAIN s.z[1].on
                 THEN IF OK(range) THEN Drop(range, 2) ELSE range
                 ELSE Error(s, "InvalidPoint")

-----------------------------------------------------------------------------
(* Untouched points: IUP.                                                  *)

Count(s) == Cardinality(DOMAIN s.z[1].current)
ContourFirst(s, c) == IF c = 1 THEN 0 ELSE s.contours[c - 1] + 1
With(p, a, v) == [p EXCEPT ![a] = v]

\* The place of a point of original coordinate o between the touched points
\* A and B, given as their original and current coordinates.
Between(o, orgA, orgB, curA, curB) ==
  LET swap == orgA > orgB
      a == IF swap THEN [org |-> orgB, cur |-> curB] ELSE [org |-> orgA, cur |-> curA]
      b == IF swap THEN [org |-> orgA, cur |-> curA] ELSE [org |-> orgB, cur |-> curB]
  IN IF o <= a.org THEN o + a.cur - a.org
     ELSE IF o >= b.org THEN o + b.cur - b.org
     ELSE IF a.cur = b.cur \/ a.org = b.org THEN a.cur
     ELSE a.cur + divide_nearest((o - a.org) * (b.cur - a.cur), b.org - a.org)

\* The touched neighbours of a point of its contour, around the contour's end.
TouchedOf(s, c, a) == {i \in ContourFirst(s, c) .. s.contours[c] : a \in s.z[1].touched[i]}
Before(T, i) == LET low == {j \in T : j < i}
                IN IF low = {} THEN CHOOSE j \in T : \A k \in T : k <= j
                   ELSE CHOOSE j \in low : \A k \in low : k <= j
After(T, i) == LET high == {j \in T : j > i}
               IN IF high = {} THEN CHOOSE j \in T : \A k \in T : j <= k
                  ELSE CHOOSE j \in high : \A k \in high : j <= k

Interpolated(s, T, a, i) ==
  LET zone == s.z[1]
      p == Before(T, i)
      q == After(T, i)
  IN IF Cardinality(T) = 1
     THEN zone.original[i][a] + zone.current[p][a] - zone.original[p][a]
     ELSE Between(zone.original[i][a], zone.original[p][a], zone.original[q][a],
                  zone.current[p][a], zone.current[q][a])

\* One contour: every point without the axis' flag; one that would overflow
\* keeps its place and fails the instruction once the contour is done.
InterpolateContour(s, c, a) ==
  LET first == ContourFirst(s, c)
      last == s.contours[c]
      T == TouchedOf(s, c, a)
      value == [i \in (first .. last) \ T |-> Interpolated(s, T, a, i)]
      moved == {i \in DOMAIN value : IsInt(value[i])}
      charged == Charge(s, last - first + 1)
      done == [charged EXCEPT !.z[1].current =
                 [i \in DOMAIN @ |-> IF i \in moved THEN With(@[i], a, value[i]) ELSE @[i]]]
  IN IF last < first \/ last >= Count(s) THEN Error(s, "InvalidPoint")
     ELSE IF ~OK(charged) THEN charged
     ELSE IF T = {} THEN charged
     ELSE IF moved # DOMAIN value THEN Error(done, "ArithmeticOverflow") ELSE done

interpolate_untouched(s, horizontal) ==
  LET One(t, c) == InterpolateContour(t, c, IF horizontal THEN "x" ELSE "y")
  IN InTurn(s, [c \in DOMAIN s.contours |-> c], One)

-----------------------------------------------------------------------------
(* Moving one point, a contour or a zone.                                  *)

untouch_point(s) ==
  IF s.stack = <<>> THEN Error(s, "StackUnderflow")
  ELSE IF ~Located(s, 0, Operand(s, 0)) THEN Error(s, "InvalidPoint")
  ELSE [Drop(s, 1) EXCEPT !.z[s.zp[0]].touched[Operand(s, 0)] = @ \ Touching(s.freedom)]

\* The points SHC and SHZ shift: a contour, or the zone without its phantoms.
ShiftRange(s, op) ==
  LET zone == s.zp[2]
      size == Cardinality(DOMAIN s.z[zone].current)
      arg == Operand(s, 0)
  IN IF zone = 0 THEN [ok |-> arg = 0 \/ (op = "SHZ" /\ arg = 1), first |-> 0, end |-> size]
     ELSE IF op = "SHC"
     THEN [ok |-> 0 <= arg /\ arg < Len(s.contours),
           first |-> IF 0 <= arg /\ arg < Len(s.contours) THEN ContourFirst(s, arg + 1) ELSE 0,
           end |-> IF 0 <= arg /\ arg < Len(s.contours) THEN s.contours[arg + 1] + 1 ELSE 0]
     ELSE [ok |-> arg \in {0, 1}, first |-> 0,
           end |-> IF s.contours = <<>> THEN 0 ELSE s.contours[Len(s.contours)] + 1]

\* SHC touches the contour it shifts, SHZ touches nothing; the reference point
\* itself stays.
shift_contour_or_zone(s, op, odd) ==
  LET range == ShiftRange(s, op)
      r == Reference(s, odd)
      d == displacement(s, odd)
      One(t, i) ==
        LET c == Charge(t, 1)
        IN IF ~OK(c) \/ (t.zp[r.zp] = t.zp[2] /\ r.at = i) THEN c
           ELSE shift_point(c, c.zp[2], i, d["x"], d["y"], op = "SHC")
      end == InTurn(s, [k \in 1 .. range.end - range.first |-> range.first + k - 1], One)
  IN IF s.stack = <<>> THEN Error(s, "StackUnderflow")
     ELSE IF ~range.ok
     THEN Error(s, IF op = "SHZ" THEN "InvalidParameter" ELSE "InvalidPoint")
     ELSE IF range.end > Cardinality(DOMAIN s.z[s.zp[2]].current) \/ range.first > range.end
     THEN Error(s, "InvalidPoint")
     ELSE IF ~Located(s, r.zp, r.at) THEN Error(s, "InvalidPoint")
     ELSE IF OK(end) THEN Drop(end, 1) ELSE end

\* ISECT: where two lines cross, or their middle when they hardly do.
Crossing(a0, a1, b0, b1) ==
  LET da == [x |-> a1.x - a0.x, y |-> a1.y - a0.y]
      db == [x |-> b1.x - b0.x, y |-> b1.y - b0.y]
      dx == b0.x - a0.x
      dy == b0.y - a0.y
      discriminant == divide_nearest(-(da.x * db.y), Pixel) + divide_nearest(da.y * db.x, Pixel)
      product == divide_nearest(da.x * db.x, Pixel) + divide_nearest(da.y * db.y, Pixel)
      value == divide_nearest(-(dx * db.y), Pixel) + divide_nearest(dy * db.x, Pixel)
  IN IF discriminant # 0 /\ 19 * Magnitude(discriminant) > Magnitude(product)
     THEN [x |-> a0.x + divide_nearest(value * da.x, discriminant),
           y |-> a0.y + divide_nearest(value * da.y, discriminant)]
     ELSE [x |-> Quot(a0.x + a1.x + b0.x + b1.x, 4), y |-> Quot(a0.y + a1.y + b0.y + b1.y, 4)]

intersect(s) ==
  IF Len(s.stack) < 5 THEN Error(s, "StackUnderflow")
  ELSE LET point == Operand(s, 4)
           A == {Operand(s, 3), Operand(s, 2)}
           B == {Operand(s, 1), Operand(s, 0)}
           p == Crossing(Current(s, 1, Operand(s, 3)), Current(s, 1, Operand(s, 2)),
                         Current(s, 0, Operand(s, 1)), Current(s, 0, Operand(s, 0)))
       IN IF ~(Located(s, 2, point) /\ (\A i \in A : Located(s, 1, i))
               /\ \A i \in B : Located(s, 0, i)) THEN Error(s, "InvalidPoint")
          ELSE IF ~IsInt(p.x) \/ ~IsInt(p.y) THEN Error(s, "ArithmeticOverflow")
          ELSE [Drop(s, 5) EXCEPT !.z[s.zp[2]].current[point] = p,
                                  !.z[s.zp[2]].touched[point] = Axis]

\* ALIGNPTS: two points meet half way.
align_points(s) ==
  LET p1 == Operand(s, 1)
      p2 == Operand(s, 0)
      distance == Quot(project(s, Minus(Current(s, 0, p2), Current(s, 1, p1))), 2)
      first == move_point(s, s.zp[1], p1, distance)
      second == move_point(first, s.zp[0], p2, -distance)
  IN IF Len(s.stack) < 2 THEN Error(s, "StackUnderflow")
     ELSE IF ~Located(s, 1, p1) \/ ~Located(s, 0, p2) THEN Error(s, "InvalidPoint")
     ELSE IF ~OK(first) THEN first ELSE IF ~OK(second) THEN second ELSE Drop(second, 2)

\* DELTAP and DELTAC: pairs of a step and a point or CVT index, each applied
\* only at the size its step names.
DeltaSize(s, variant, argument) ==
  ((argument % 256) \div 16) + variant * 16 + s.param.deltaBase
DeltaStep(s, argument) ==
  LET low == (argument % 16) - 8
  IN (IF low >= 0 THEN low + 1 ELSE low) * 2 ^ (6 - s.param.deltaShift)

DeltaPair(s, cvt, variant) ==
  LET c == Charge(s, 1)
      index == Operand(c, 0)
      argument == Operand(c, 1)
      t == Drop(c, 2)
      known == IF cvt THEN index \in DOMAIN s.cvt ELSE Located(s, 0, index)
      missing == IF cvt THEN "InvalidCvtIndex" ELSE "InvalidPoint"
      value == s.cvt[index] + DeltaStep(s, argument)
  IN IF ~OK(c) THEN c
     ELSE IF DeltaSize(s, variant, argument) # s.ppem
     THEN IF known THEN t ELSE Error(t, missing)
     ELSE IF s.param.deltaShift > 6 THEN Error(t, "InvalidParameter")
     ELSE IF ~known THEN Error(t, missing)
     ELSE IF ~cvt THEN move_point(t, t.zp[0], index, DeltaStep(s, argument))
     ELSE IF IsInt(value) THEN [t EXCEPT !.cvt[index] = value]
     ELSE Error(t, "ArithmeticOverflow")

delta_apply(s, cvt, variant) ==
  LET count == Operand(s, 0)
      One(t, i) == DeltaPair(t, cvt, variant)
  IN IF s.stack = <<>> THEN Error(s, "StackUnderflow")
     ELSE IF count < 0 \/ count > MaxWork THEN Error(s, "InvalidParameter")
     ELSE IF Len(s.stack) - 1 < 2 * count THEN Error(s, "StackUnderflow")
     ELSE InTurn(Drop(s, 1), [i \in 1 .. count |-> i], One)

-----------------------------------------------------------------------------
(* Measuring points and placing them: MDAP, MIAP, GC, SCFS, MD.            *)

Push(s, v, size) ==
  IF ~IsInt(v) THEN Error(s, "ArithmeticOverflow")
  ELSE IF Len(s.stack) = size THEN Error(s, "StackOverflow")
  ELSE [s EXCEPT !.stack = Append(@, v)]

MDAP(s, round) ==
  LET index == Operand(s, 0)
      current == project(s, Current(s, 0, index))
      target == rounded_distance(current, s.param)
      moved == move_point(s, s.zp[0], index, IF round THEN target - current ELSE 0)
  IN IF ~Located(s, 0, index) THEN Error(s, "InvalidPoint")
     ELSE IF round /\ ~IsInt(current) THEN Error(s, "ArithmeticOverflow")
     ELSE IF OK(moved) THEN [Drop(moved, 1) EXCEPT !.ref[0] = index, !.ref[1] = index]
     ELSE moved

\* A twilight point is created at the CVT distance before it is moved.
MIAP(s, round) ==
  LET cvt == Operand(s, 0)
      index == Operand(s, 1)
      at(a) == divide_nearest(s.cvt[cvt] * s.freedom[a], Unit)
      created == [x |-> at("x"), y |-> at("y")]
      t == IF s.zp[0] # 0 THEN s
           ELSE [s EXCEPT !.z[0].original[index] = created, !.z[0].current[index] = created]
      current == project(t, Current(t, 0, index))
      wanted == IF Magnitude(s.cvt[cvt] - current) > s.param.cutIn THEN current ELSE s.cvt[cvt]
      distance == IF round THEN rounded_distance(wanted, s.param) ELSE s.cvt[cvt]
      moved == move_point(t, t.zp[0], index, distance - current)
  IN IF cvt \notin DOMAIN s.cvt THEN Error(s, "InvalidCvtIndex")
     ELSE IF ~Located(s, 0, index) THEN Error(s, "InvalidPoint")
     ELSE IF round /\ ~IsInt(wanted) THEN Error(t, "ArithmeticOverflow")
     ELSE IF OK(moved) THEN [Drop(moved, 2) EXCEPT !.ref[0] = index, !.ref[1] = index]
     ELSE moved

SCFS(s) ==
  LET index == Operand(s, 1)
      moved == move_point(s, s.zp[2], index, Operand(s, 0) - project(s, Current(s, 2, index)))
  IN IF ~Located(s, 2, index) THEN Error(s, "InvalidPoint")
     ELSE IF ~OK(moved) THEN moved
     ELSE IF s.zp[2] # 0 THEN Drop(moved, 2)
     ELSE [Drop(moved, 2) EXCEPT !.z[0].original[index] = moved.z[0].current[index]]

Measure(s, grid, size) ==
  LET left == Operand(s, 1)
      right == Operand(s, 0)
      a == IF grid THEN Current(s, 0, left) ELSE Original(s, 0, left)
      b == IF grid THEN Current(s, 1, right) ELSE Original(s, 1, right)
  IN IF ~Located(s, 0, left) \/ ~Located(s, 1, right) THEN Error(s, "InvalidPoint")
     ELSE IF ~IsInt(a.x - b.x) \/ ~IsInt(a.y - b.y) THEN Error(s, "ArithmeticOverflow")
     ELSE Push(Drop(s, 2), IF grid THEN project(s, Minus(a, b)) ELSE dot(Minus(a, b), s.dual), size)

point_op(s, op, n, size) ==
  IF Len(s.stack) < (IF op \in {"MDAP", "GC"} THEN 1 ELSE 2) THEN Error(s, "StackUnderflow")
  ELSE CASE op = "MDAP" -> MDAP(s, n = 1)
         [] op = "MIAP" -> MIAP(s, n = 1)
         [] op = "SCFS" -> SCFS(s)
         [] op = "MD" -> Measure(s, n = 0, size)
         [] op = "GC" ->
              LET i == Operand(s, 0)
              IN IF ~Located(s, 2, i) THEN Error(s, "InvalidPoint")
                 ELSE Push(Drop(s, 1), IF n = 1 THEN dot(Original(s, 2, i), s.dual)
                                       ELSE project(s, Current(s, 2, i)), size)

-----------------------------------------------------------------------------
(* Moving a point of zp1 relative to rp0: MSIRP, MDRP and MIRP.  The flags  *)
(* of MDRP and MIRP are 16 (set rp0), 8 (minimum distance) and 4 (round).  *)

SingleWidth(param, v) == IF v >= 0 THEN param.width ELSE -param.width

\* The CVT distance of MIRP, snapped to the single width when near it.
CvtDistance(s, index) ==
  LET d == IF index >= 0 THEN s.cvt[index] ELSE 0
  IN IF Magnitude(d - s.param.width) < s.param.widthCutIn THEN SingleWidth(s.param, d) ELSE d

\* MSIRP and MIRP first place a twilight point relative to rp0.
TwilightPlaced(s, op, index, placed) ==
  LET scale == IF op = "MSIRP" THEN movement_scale(s) ELSE Unit
      base == Original(s, 0, s.ref[0])
      by(a) == divide_nearest(placed * s.freedom[a], scale)
      p == [x |-> WrapInt(base.x + by("x")), y |-> WrapInt(base.y + by("y"))]
  IN IF s.zp[1] # 0 \/ op = "MDRP" THEN s
     ELSE [s EXCEPT !.z[0].original[index] = p, !.z[0].current[index] = p]

\* The distance before rounding and the minimum.
Wanted(s, op, n, was, cvt) ==
  LET flipped == IF s.param.autoFlip /\ (was < 0) # (cvt < 0) THEN -cvt ELSE cvt
      cutOff == Flags(n, 4) /\ s.zp[0] = s.zp[1] /\ Magnitude(flipped - was) > s.param.cutIn
      single == /\ s.param.widthCutIn > 0
                /\ was < s.param.width + s.param.widthCutIn
                /\ was > s.param.width - s.param.widthCutIn
  IN IF op = "MIRP" THEN IF cutOff THEN was ELSE flipped
     ELSE IF single THEN SingleWidth(s.param, was) ELSE was

AtLeast(s, n, was, d) ==
  IF ~Flags(n, 8) THEN d
  ELSE IF was >= 0 THEN IF d < s.param.minimum THEN s.param.minimum ELSE d
  ELSE IF d > -s.param.minimum THEN -s.param.minimum ELSE d

reference_op(s, op, n) ==
  LET needed == IF op = "MDRP" THEN 1 ELSE 2
      index == Operand(s, needed - 1)
      value == Operand(s, 0)
      cvt == CvtDistance(s, value)
      t == TwilightPlaced(s, op, index, IF op = "MSIRP" THEN value ELSE cvt)
      was == dot(Minus(Original(t, 1, index), Original(s, 0, s.ref[0])), s.dual)
      is == project(t, Minus(Current(t, 1, index), Current(t, 0, s.ref[0])))
      wanted == Wanted(s, op, n, was, cvt)
      distance == IF op = "MSIRP" THEN value
                  ELSE AtLeast(s, n, was, IF Flags(n, 4) THEN rounded_distance(wanted, s.param)
                                          ELSE wanted)
      moved == move_point(t, t.zp[1], index, distance - is)
      sets == IF op = "MSIRP" THEN n = 1 ELSE Flags(n, 16)
  IN IF Len(s.stack) < needed THEN Error(s, "StackUnderflow")
     ELSE IF ~Located(s, 1, index) \/ ~Located(s, 0, s.ref[0]) THEN Error(s, "InvalidPoint")
     ELSE IF op = "MIRP" /\ value # -1 /\ value \notin DOMAIN s.cvt
     THEN Error(s, "InvalidCvtIndex")
     ELSE IF op # "MSIRP" /\ Flags(n, 4) /\ ~IsInt(wanted) THEN Error(t, "ArithmeticOverflow")
     ELSE IF ~OK(moved) THEN moved
     ELSE [Drop(moved, needed) EXCEPT !.ref[1] = s.ref[0], !.ref[2] = index,
                                      !.ref[0] = IF sets THEN index ELSE @]

-----------------------------------------------------------------------------
(***************************************************************************)
(* The interpreter of TrueType programs and the glyph loader's use of it.  *)
(* Source: Kernel/Source/src/gfx/font/vm_executor.cpp, vm.cpp,             *)
(* vm_internal.hpp, and prepare, build_state and run_program of glyph.cpp. *)
(*                                                                         *)
(* A face's font and prep programs run once for a size; every hinted glyph *)
(* then runs its own program on the state they left (storage, CVT,         *)
(* functions, twilight points, saved parameters).  A program that fails    *)
(* leaves its glyph unhinted and the state is rebuilt before the next one. *)
(*                                                                         *)
(* A program is a sequence of cells [op, n]: an opcode with the flag bits  *)
(* its number carries, or a datum of a push.  A cell is one byte of the    *)
(* program; a pushed word takes one cell.  A step is one turn of the run   *)
(* loop.  vm is State and Executor together; steps counts the turns of a   *)
(* run and start is the zone of the glyph before it, for the properties.   *)
(***************************************************************************)
CONSTANTS
  HintFaces,          \* [fpgm, prep, glyphs, loads]: programs, and how many glyphs are loaded
  HintOutline,    \* [points, on, contours]: the scaled points every glyph loads
  SourceCvt,      \* the CVT in font units
  StackSize, StorageSize, FunctionCount, DefinitionCount, TwilightPoints,
  MaxNesting, MaxCalls, Ppem, UnitsPerEm,
  Opcode(_)       \* the number of an opcode that has no built-in meaning

VARIABLES face, vm, loader, start

hintVars == <<face, vm, loader, start>>

Indexes(n) == 0 .. n - 1
Undefined == <<[op |-> "undefined", n |-> 0]>>
scale_funits(v) == divide_nearest(v * Ppem * Pixel, UnitsPerEm)
Zeros(n) == [i \in Indexes(n) |-> [x |-> 0, y |-> 0]]
EmptyZone(n) == [original |-> Zeros(n), current |-> Zeros(n),
                 touched |-> [i \in Indexes(n) |-> {}], on |-> <<>>]

DefaultParameters ==
  [round |-> "Grid", cutIn |-> 68, widthCutIn |-> 0, width |-> 0, minimum |-> Pixel,
   deltaBase |-> 9, deltaShift |-> 3, autoFlip |-> TRUE, scan |-> 0, scanControl |-> 0,
   period |-> Pixel, phase |-> 0, threshold |-> HalfPixel]

\* What execute() resets before every program.
HintGeometry(s) ==
  [s EXCEPT !.projection = [x |-> Unit, y |-> 0], !.dual = [x |-> Unit, y |-> 0],
            !.freedom = [x |-> Unit, y |-> 0], !.ref = [i \in 0 .. 2 |-> 0],
            !.zp = [i \in 0 .. 2 |-> 1], !.loop = 1]

\* The state the loader gives to initialize(): the glyph zone and its
\* contours stay as the last glyph left them.
ScaledCvt(s) == [i \in Indexes(Len(SourceCvt)) |-> scale_funits(SourceCvt[i + 1])]
initialize(s) ==
  LET cvt == ScaledCvt(s)
      fresh == HintGeometry([s EXCEPT
        !.cvt = cvt, !.storage = [i \in Indexes(StorageSize) |-> 0], !.written = {},
        !.z[0] = [EmptyZone(TwilightPoints) EXCEPT !.on = <<>>],
        !.functions = [i \in Indexes(FunctionCount) |-> Undefined], !.defs = <<>>,
        !.param = DefaultParameters, !.prepared = DefaultParameters,
        !.control = {}, !.preparedControl = {}, !.ready = TRUE])
  IN IF \A i \in DOMAIN cvt : IsInt(cvt[i]) THEN fresh ELSE [s EXCEPT !.ready = FALSE]

NoRun == [program |-> <<>>, at |-> 0, calls |-> <<>>, stack |-> <<>>, work |-> 0,
          steps |-> 0, phase |-> "Font", error |-> "None", last |-> [op |-> "none", n |-> 0]]

Blank ==
  NoRun @@ [projection |-> [x |-> Unit, y |-> 0], dual |-> [x |-> Unit, y |-> 0],
   freedom |-> [x |-> Unit, y |-> 0], ref |-> [i \in 0 .. 2 |-> 0], zp |-> [i \in 0 .. 2 |-> 1],
   loop |-> 1, param |-> DefaultParameters, prepared |-> DefaultParameters, control |-> {},
   preparedControl |-> {}, cvt |-> <<>>, storage |-> <<>>, written |-> {},
   functions |-> <<>>, defs |-> <<>>, z |-> [i \in 0 .. 1 |-> EmptyZone(0)],
   contours |-> <<>>, ppem |-> Ppem, ready |-> FALSE]

\* What survives from one program to the next.
Lasting(s) == [cvt |-> s.cvt, storage |-> s.storage, written |-> s.written,
               functions |-> s.functions, defs |-> s.defs, twilight |-> s.z[0],
               prepared |-> s.prepared, control |-> s.preparedControl]

-----------------------------------------------------------------------------
(* Decoding.                                                               *)

HintCell(p, at) == p[at + 1]

\* The header of an instruction and the number of cells it takes; one whose
\* data run past the end is truncated.
decode(p, at) ==
  LET op == HintCell(p, at).op
      header == IF op = "NPUSH" THEN 2 ELSE 1
      count == IF op = "PUSH" THEN HintCell(p, at).n
               ELSE IF op = "NPUSH" /\ at + 1 < Len(p) THEN HintCell(p, at + 1).n ELSE 0
  IN [ok |-> at + header + count <= Len(p), size |-> header + count, data |-> at + header,
      count |-> count]

\* prepare(): the whole program is decoded and charged, its conditionals and
\* definitions must nest, and the offsets where instructions begin are marked.
EndsDefinition(seen) == seen.definition /\ Len(seen.else) = seen.outer
RECURSIVE Scan(_, _, _)
Scan(s, at, seen) ==
  LET i == decode(s.program, at)
      op == HintCell(s.program, at).op
      nesting == Len(seen.else)
      atOuter == nesting = 0 \/ (seen.definition /\ nesting = seen.outer)
      charged == Charge(s, i.size)
      Bad(e) == [seen EXCEPT !.run = Error([charged EXCEPT !.at = at], e)]
      next == [seen EXCEPT !.run = charged, !.marks = @ \union {at}]
      On(a) == Scan(charged, at + i.size, a)
  IN IF at = Len(s.program)
     THEN IF seen.definition THEN [seen EXCEPT !.run = Error(s, "InvalidDefinition")]
          ELSE IF nesting # 0 THEN [seen EXCEPT !.run = Error(s, "InvalidConditional")]
          ELSE [seen EXCEPT !.run = s, !.marks = @ \union {at}]
     ELSE IF ~i.ok THEN Bad("TruncatedInstruction")
     ELSE IF ~OK(charged) THEN [seen EXCEPT !.run = charged]
     ELSE CASE op \in {"FDEF", "IDEF"} ->
                 IF seen.definition THEN Bad("InvalidDefinition")
                 ELSE On([next EXCEPT !.definition = TRUE, !.outer = nesting])
            [] op = "ENDF" ->
                 IF ~EndsDefinition(seen) THEN Bad("InvalidDefinition")
                 ELSE On([next EXCEPT !.definition = FALSE])
            [] op = "IF" -> IF nesting = MaxNesting THEN Bad("InvalidConditional")
                            ELSE On([next EXCEPT !.else = Append(@, FALSE)])
            [] op = "ELSE" -> IF atOuter \/ Last(seen.else) THEN Bad("InvalidConditional")
                              ELSE On([next EXCEPT !.else = Append(Front(@), TRUE)])
            [] op = "EIF" -> IF atOuter THEN Bad("InvalidConditional")
                             ELSE On([next EXCEPT !.else = Front(@)])
            [] OTHER -> On(next)
HintPrepared(s) == Scan(s, 0, [run |-> s, marks |-> {}, else |-> <<>>, definition |-> FALSE,
                           outer |-> 0])
\* The offsets at which an instruction of the active program begins.
Boundaries(p) == HintPrepared([Blank EXCEPT !.program = p]).marks

\* The program is active from offset at once it has been decoded again.
Activate(s, p, at) == LET t == HintPrepared([s EXCEPT !.program = p, !.at = 0]).run
                      IN IF OK(t) THEN [t EXCEPT !.at = at] ELSE t

-----------------------------------------------------------------------------
(* Control flow.                                                           *)

enter(s, body, count, next) ==
  IF Len(s.calls) = MaxCalls THEN Error(s, "CallLimit")
  ELSE Activate([s EXCEPT !.calls = Append(@, [caller |-> s.program, body |-> body,
                                               next |-> next, remaining |-> count])],
                body, 0)

\* At the end of a body: again, or back to the caller.
return_call(s) ==
  LET c == Charge(s, 1)
      frame == Last(s.calls)
  IN IF ~OK(c) THEN c
     ELSE IF frame.remaining > 1
     THEN Activate([c EXCEPT !.calls[Len(c.calls)].remaining = @ - 1], frame.body, 0)
     ELSE Activate([c EXCEPT !.calls = Front(@)], frame.caller, frame.next)

\* Past the EIF, or the ELSE where one is allowed, of the enclosing IF.
RECURSIVE skip(_, _, _, _)
skip(s, at, nesting, allowElse) ==
  IF at >= Len(s.program) THEN Error(s, "InvalidConditional")
  ELSE LET i == decode(s.program, at)
           op == HintCell(s.program, at).op
           c == Charge(s, i.size)
           done == [c EXCEPT !.at = at + i.size]
       IN IF ~OK(c) THEN c
          ELSE IF op = "IF" THEN skip(c, at + i.size, nesting + 1, allowElse)
          ELSE IF op = "EIF" /\ nesting = 0 THEN done
          ELSE IF op = "EIF" THEN skip(c, at + i.size, nesting - 1, allowElse)
          ELSE IF op = "ELSE" /\ nesting = 0 /\ allowElse THEN done
          ELSE skip(c, at + i.size, nesting, allowElse)

\* Past the ENDF of a definition; the body is what lies before it.
RECURSIVE skip_definition(_, _)
skip_definition(s, at) ==
  IF at >= Len(s.program) THEN Error(s, "InvalidDefinition")
  ELSE LET i == decode(s.program, at)
           c == Charge(s, i.size)
       IN IF ~OK(c) THEN c
          ELSE IF HintCell(s.program, at).op = "ENDF" THEN [c EXCEPT !.at = at + i.size]
          ELSE skip_definition(c, at + i.size)

Body(s, next, t) == SubSeq(s.program, next + 1, t.at - 1)

define_function(s, next) ==
  LET id == Operand(s, 0)
      t == skip_definition(s, next)
  IN IF s.phase = "Glyph" THEN Error(s, "DefinitionInGlyph")
     ELSE IF s.stack = <<>> THEN Error(s, "StackUnderflow")
     ELSE IF id \notin DOMAIN s.functions THEN Error(s, "InvalidFunction")
     ELSE IF ~OK(t) THEN t
     ELSE [Drop(t, 1) EXCEPT !.functions[id] = Body(s, next, t)]

\* IDEF names an opcode by its number; a code already defined keeps its slot.
define_instruction(s, next) ==
  LET code == Operand(s, 0)
      slots == {k \in DOMAIN s.defs : s.defs[k].code = code}
      slot == IF slots = {} THEN Len(s.defs) + 1 ELSE CHOOSE k \in slots : TRUE
      t == skip_definition(s, next)
      definition == [code |-> code, body |-> Body(s, next, t)]
  IN IF s.phase = "Glyph" THEN Error(s, "DefinitionInGlyph")
     ELSE IF s.stack = <<>> THEN Error(s, "StackUnderflow")
     ELSE IF code < 0 \/ code > 255 THEN Error(s, "InvalidParameter")
     ELSE IF slot > DefinitionCount THEN Error(s, "InvalidFunction")
     ELSE IF ~OK(t) THEN t
     ELSE [Drop(t, 1) EXCEPT !.defs = IF slots = {} THEN Append(@, definition)
                                      ELSE [@ EXCEPT ![slot] = definition]]

call_instruction_def(s, op, next) ==
  LET found == {k \in DOMAIN s.defs : s.defs[k].code = Opcode(op)}
  IN IF found = {} THEN Error(s, "UnsupportedInstruction")
     ELSE enter(s, s.defs[CHOOSE k \in found : TRUE].body, 1, next)

call_op(s, op, next) ==
  LET operands == IF op = "CALL" THEN 1 ELSE 2
      id == Operand(s, 0)
      count == IF op = "CALL" THEN 1 ELSE Operand(s, 1)
      t == Drop(s, operands)
  IN IF Len(s.stack) < operands THEN Error(s, "StackUnderflow")
     ELSE IF id \notin DOMAIN s.functions THEN Error(s, "InvalidFunction")
     ELSE IF s.functions[id] = Undefined THEN Error(s, "InvalidFunction")
     ELSE IF count < 0 THEN Error(s, "InvalidRepeatCount")
     ELSE IF count = 0 THEN [t EXCEPT !.at = next]
     ELSE enter(t, s.functions[id], count, next)

-----------------------------------------------------------------------------
(* Graphics state.                                                         *)

AxisVector(n) == IF n = 1 THEN [x |-> Unit, y |-> 0] ELSE [x |-> 0, y |-> Unit]

vector_state_op(s, op, n) ==
  LET v == AxisVector(n)
      Both(w) == IF StackSize - Len(s.stack) < 2 THEN Error(s, "StackOverflow")
                 ELSE [s EXCEPT !.stack = @ \o <<w.x, w.y>>]
  IN CASE op = "SVTCA" -> [s EXCEPT !.projection = v, !.dual = v, !.freedom = v]
       [] op = "SPVTCA" -> [s EXCEPT !.projection = v, !.dual = v]
       [] op = "SFVTCA" -> [s EXCEPT !.freedom = v]
       [] op = "SFVTPV" -> [s EXCEPT !.freedom = s.projection]
       [] op = "GPV" -> Both(s.projection)
       [] op = "GFV" -> Both(s.freedom)

\* INSTCTRL: no font program may use it, and selectors 1 and 2 mean nothing in
\* a glyph.
instruction_control(s) ==
  LET value == Operand(s, 0)
      setting == Operand(s, 1)
  IN IF value \notin 1 .. 3 \/ s.phase = "Font" THEN Error(s, "InvalidParameter")
     ELSE IF setting \notin {0, 2 ^ (value - 1)} THEN Error(s, "InvalidParameter")
     ELSE IF s.phase = "Prep" \/ value = 3
     THEN [Drop(s, 2) EXCEPT !.control = IF setting = 0 THEN @ \ {value} ELSE @ \union {value}]
     ELSE Drop(s, 2)

parameter_op(s, op, n) ==
  LET value == Operand(s, 0)
      t == Drop(s, 1)
  IN IF Len(s.stack) < (IF op = "INSTCTRL" THEN 2 ELSE 1) THEN Error(s, "StackUnderflow")
     ELSE CASE op = "INSTCTRL" -> instruction_control(s)
            [] op = "SCANCTRL" -> [t EXCEPT !.param.scanControl = value % 65536]
            [] op = "SCANTYPE" -> IF value % 65536 > 7 THEN Error(s, "InvalidParameter")
                                  ELSE [t EXCEPT !.param.scan = value % 65536]
            [] OTHER ->
                 IF value < 0 THEN Error(s, "InvalidParameter")
                 ELSE CASE op = "SRP" -> [t EXCEPT !.ref[n] = value]
                        [] op \in {"SZP", "SZPS"} /\ value > 1 -> Error(s, "InvalidParameter")
                        [] op = "SZP" -> [t EXCEPT !.zp[n] = value]
                        [] op = "SZPS" -> [t EXCEPT !.zp = [i \in 0 .. 2 |-> value]]
                        [] op = "SLOOP" -> IF value > MaxWork THEN Error(s, "InvalidParameter")
                                           ELSE [t EXCEPT !.loop = value]

RoundModes == [RTG |-> "Grid", RTHG |-> "HalfGrid", RTDG |-> "DoubleGrid", ROFF |-> "Off",
               RUTG |-> "Up", RDTG |-> "Down"]
round_mode_op(s, op) ==
  IF op \in DOMAIN RoundModes THEN [s EXCEPT !.param.round = RoundModes[op]]
  ELSE [s EXCEPT !.param.autoFlip = op = "FLIPON"]

value_op(s, op) ==
  LET value == Operand(s, 0)
      rounded == IF op = "NROUND" THEN value ELSE rounded_distance(value, s.param)
      t == Drop(s, 1)
      odd == Quot(rounded, Pixel) % 2 = 1
  IN IF s.stack = <<>> THEN Error(s, "StackUnderflow")
     ELSE CASE op \in {"ODD", "EVEN", "ROUND", "NROUND"} ->
                 IF ~IsInt(rounded) THEN Error(s, "ArithmeticOverflow")
                 ELSE Push(t, IF op \in {"ROUND", "NROUND"} THEN rounded
                              ELSE IF odd = (op = "ODD") THEN 1 ELSE 0, StackSize)
            [] op \in {"SDB", "SDS"} /\ (value < 0 \/ (op = "SDS" /\ value > 31)) ->
                 Error(s, "InvalidParameter")
            [] op = "SMD" -> [t EXCEPT !.param.minimum = value]
            [] op = "SCVTCI" -> [t EXCEPT !.param.cutIn = value]
            [] op = "SSWCI" -> [t EXCEPT !.param.widthCutIn = value]
            [] op = "SSW" -> IF IsInt(scale_funits(value))
                             THEN [t EXCEPT !.param.width = scale_funits(value)]
                             ELSE Error(s, "ArithmeticOverflow")
            [] op = "SDB" -> [t EXCEPT !.param.deltaBase = value]
            [] op = "SDS" -> [t EXCEPT !.param.deltaShift = value]

-----------------------------------------------------------------------------
(* The stack, storage, the CVT, arithmetic and jumps.                      *)

push_data(s, i) ==
  IF i.count > StackSize - Len(s.stack) THEN Error(s, "StackOverflow")
  ELSE [s EXCEPT !.stack = @ \o [k \in 1 .. i.count |-> HintCell(s.program, i.data + k - 1).n]]

StorageOps == {"WS", "RS", "WCVTP", "WCVTF", "RCVT"}
memory_op(s, op) ==
  LET reads == op \in {"RS", "RCVT"}
      index == Operand(s, IF reads THEN 0 ELSE 1)
      storage == op \in {"WS", "RS"}
      value == IF op = "WCVTF" THEN scale_funits(Operand(s, 0)) ELSE Operand(s, 0)
  IN IF storage /\ index \notin DOMAIN s.storage THEN Error(s, "InvalidStorageIndex")
     ELSE IF ~storage /\ index \notin DOMAIN s.cvt THEN Error(s, "InvalidCvtIndex")
     ELSE IF op = "RS" /\ index \notin s.written THEN Error(s, "UninitializedStorage")
     ELSE IF ~IsInt(value) THEN Error(s, "ArithmeticOverflow")
     ELSE CASE op = "RS" -> [s EXCEPT !.stack[Len(s.stack)] = s.storage[index]]
            [] op = "RCVT" -> [s EXCEPT !.stack[Len(s.stack)] = s.cvt[index]]
            [] op = "WS" -> [Drop(s, 2) EXCEPT !.storage[index] = value,
                                               !.written = @ \union {index}]
            [] OTHER -> [Drop(s, 2) EXCEPT !.cvt[index] = value]

\* CINDEX copies and MINDEX moves the k-th element below the index.
index_op(s, op) ==
  LET top == Operand(s, 0)
      t == Drop(s, 1)
      at == Len(t.stack) - top + 1
      c == Charge(t, top)
  IN IF top <= 0 \/ top > Len(t.stack) THEN Error(s, "InvalidStackIndex")
     ELSE IF op = "CINDEX" THEN Push(t, t.stack[at], StackSize)
     ELSE IF OK(c) THEN [c EXCEPT !.stack = Append(RemoveAt(@, at), t.stack[at])] ELSE c

Jumps == {"JMPR", "JROT", "JROF"}
\* A jump goes to the end of the program or to the start of an instruction.
JumpTarget(s, target) == target \in Boundaries(s.program)
jump_op(s, op, next) ==
  LET taken == CASE op = "JMPR" -> TRUE
                 [] op = "JROT" -> Operand(s, 0) # 0
                 [] op = "JROF" -> Operand(s, 0) = 0
      target == s.at + (IF op = "JMPR" THEN Operand(s, 0) ELSE Operand(s, 1))
      t == Drop(s, IF op = "JMPR" THEN 1 ELSE 2)
  IN IF ~taken THEN [t EXCEPT !.at = next]
     ELSE IF ~JumpTarget(s, target) THEN Error(s, "InvalidJump")
     ELSE [t EXCEPT !.at = target]

Bit(b) == IF b THEN 1 ELSE 0
Unary(op, v) ==
  CASE op = "NOT" -> Bit(v = 0)
    [] op = "ABS" -> Magnitude(v)
    [] op = "NEG" -> -v
    [] op = "FLOOR" -> (v \div Pixel) * Pixel
    [] op = "CEILING" -> -((-v) \div Pixel) * Pixel
Binary(op, a, b) ==
  CASE op = "LT" -> Bit(a < b) [] op = "LTEQ" -> Bit(a <= b)
    [] op = "GT" -> Bit(a > b) [] op = "GTEQ" -> Bit(a >= b)
    [] op = "EQ" -> Bit(a = b) [] op = "NEQ" -> Bit(a # b)
    [] op = "AND" -> Bit(a # 0 /\ b # 0) [] op = "OR" -> Bit(a # 0 \/ b # 0)
    [] op = "ADD" -> a + b [] op = "SUB" -> a - b
    [] op = "DIV" -> Quot(a * Pixel, b)
    [] op = "MUL" -> LET m == (Magnitude(a * b) + HalfPixel) \div Pixel
                     IN IF a * b < 0 THEN -m ELSE m
    [] op = "MAX" -> IF a > b THEN a ELSE b [] op = "MIN" -> IF a < b THEN a ELSE b

UnaryOps == {"NOT", "ABS", "NEG", "FLOOR", "CEILING"}
BinaryOps == {"LT", "LTEQ", "GT", "GTEQ", "EQ", "NEQ", "AND", "OR", "ADD", "SUB", "DIV", "MUL",
              "MAX", "MIN"}
Needed(op) ==
  CASE op \in UnaryOps \union {"DUP", "POP", "CINDEX", "MINDEX", "IF", "JMPR", "RS", "RCVT"} -> 1
    [] op \in BinaryOps \union {"SWAP", "JROT", "JROF", "WS", "WCVTP", "WCVTF"} -> 2
    [] op = "ROLL" -> 3
    [] OTHER -> 0

stack_op(s, op, next) ==
  LET top == Operand(s, 0)
      Past(t) == IF OK(t) THEN [t EXCEPT !.at = next] ELSE t
      n == Len(s.stack)
  IN CASE Needed(op) = 0 -> call_instruction_def(s, op, next)
       [] n < Needed(op) -> Error(s, "StackUnderflow")
       [] op \in StorageOps -> Past(memory_op(s, op))
       [] op = "DUP" -> Past(Push(s, top, StackSize))
       [] op = "POP" -> Past(Drop(s, 1))
       [] op = "SWAP" -> Past([s EXCEPT !.stack[n] = s.stack[n - 1], !.stack[n - 1] = top])
       [] op \in {"CINDEX", "MINDEX"} -> Past(index_op(s, op))
       [] op = "ROLL" -> Past([s EXCEPT !.stack[n] = s.stack[n - 2],
                                        !.stack[n - 1] = top, !.stack[n - 2] = s.stack[n - 1]])
       [] op = "IF" -> IF top # 0 THEN Past(Drop(s, 1)) ELSE skip(Drop(s, 1), next, 0, TRUE)
       [] op \in Jumps -> jump_op(s, op, next)
       [] op \in UnaryOps -> Past(Push(Drop(s, 1), Unary(op, top), StackSize))
       [] op = "DIV" /\ top = 0 -> Error(s, "DivisionByZero")
       [] OTHER -> Past(Push(Drop(s, 2), Binary(op, Operand(s, 1), top), StackSize))

-----------------------------------------------------------------------------
(* One instruction: step().                                                *)

PointOps == {"MDAP", "MIAP", "GC", "SCFS", "MD"}
Instruction(s, op, n, i) ==
  CASE op \in {"PUSH", "NPUSH"} -> push_data(s, i)
    [] op = "CLEAR" -> [s EXCEPT !.stack = <<>>]
    [] op = "DEPTH" -> Push(s, Len(s.stack), StackSize)
    [] op = "EIF" -> s
    [] op = "GETINFO" -> IF s.stack = <<>> THEN Error(s, "StackUnderflow")
                         ELSE Push(Drop(s, 1), IF Operand(s, 0) % 2 = 1 THEN 35 ELSE 0, StackSize)
    [] op \in {"SPVTL", "SFVTL", "SPVFS", "SFVFS", "SDPVTL"} -> vector_op(s, op, n)
    [] op \in {"SROUND", "S45ROUND"} -> set_super_round(s, op)
    [] op \in {"SHC", "SHZ"} -> shift_contour_or_zone(s, op, n = 1)
    [] op = "ISECT" -> intersect(s)
    [] op = "ALIGNPTS" -> align_points(s)
    [] op = "UTP" -> untouch_point(s)
    [] op \in {"DELTAP", "DELTAC"} -> delta_apply(s, op = "DELTAC", n)
    [] op \in {"FLIPPT", "FLIPRGON", "FLIPRGOFF"} -> flip_points(s, op)
    [] op = "SHPIX" -> shift_pixels(s)
    [] op = "SHP" -> shift_by_reference(s, n = 1)
    [] op = "IP" -> interpolate_points(s)
    [] op \in {"MSIRP", "MDRP", "MIRP"} -> reference_op(s, op, n)
    [] op = "ALIGNRP" -> align_to_reference(s)
    [] op = "IUP" -> interpolate_untouched(s, n = 1)
    [] op \in PointOps -> point_op(s, op, n, StackSize)
    [] op \in {"MPPEM", "MPS"} -> Push(s, IF op = "MPPEM" THEN Ppem ELSE Ppem * 48, StackSize)
    [] op \in {"SVTCA", "SPVTCA", "SFVTCA", "GPV", "GFV", "SFVTPV"} -> vector_state_op(s, op, n)
    [] op \in {"SRP", "SZP", "SZPS", "SLOOP", "SCANCTRL", "SCANTYPE", "INSTCTRL"} -> parameter_op(s, op, n)
    [] op \in DOMAIN RoundModes \union {"FLIPON", "FLIPOFF"} -> round_mode_op(s, op)
    [] OTHER -> value_op(s, op)

ValueOps == {"SMD", "SCVTCI", "SSWCI", "SSW", "SDB", "SDS", "ODD", "EVEN", "ROUND", "NROUND"}
Plain == {"PUSH", "NPUSH", "CLEAR", "DEPTH", "EIF", "GETINFO", "SPVTL", "SFVTL", "SPVFS", "SFVFS",
          "SDPVTL", "SROUND", "S45ROUND", "SHC", "SHZ", "ISECT", "ALIGNPTS", "UTP", "DELTAP",
          "DELTAC", "FLIPPT", "FLIPRGON", "FLIPRGOFF", "SHPIX", "SHP", "IP", "MSIRP", "MDRP",
          "MIRP", "ALIGNRP", "IUP", "MPPEM", "MPS", "SVTCA", "SPVTCA", "SFVTCA", "GPV", "GFV",
          "SFVTPV", "SRP", "SZP", "SZPS", "SLOOP", "SCANCTRL", "SCANTYPE", "INSTCTRL", "FLIPON", "FLIPOFF"}
         \union PointOps \union ValueOps \union DOMAIN RoundModes

step(s, i) ==
  LET op == HintCell(s.program, s.at).op
      n == HintCell(s.program, s.at).n
      next == s.at + i.size
      Past(t) == IF OK(t) THEN [t EXCEPT !.at = next] ELSE t
  IN CASE op \in Plain -> Past(Instruction(s, op, n, i))
       [] op = "ELSE" -> skip(s, next, 0, FALSE)
       [] op = "FDEF" -> define_function(s, next)
       [] op = "IDEF" -> define_instruction(s, next)
       [] op = "ENDF" -> Error(s, "InvalidDefinition")
       [] op \in {"CALL", "LOOPCALL"} -> call_op(s, op, next)
       [] OTHER -> stack_op(s, op, next)

\* One turn of the loop of run().
Turn(s) ==
  LET t == [s EXCEPT !.steps = @ + 1]
      i == decode(s.program, s.at)
      c == Charge(t, i.size)
  IN IF s.at = Len(s.program) THEN [return_call(t) EXCEPT !.last = [op |-> "return", n |-> 0]]
     ELSE IF ~OK(c) THEN c
     ELSE [step(c, i) EXCEPT !.last = HintCell(s.program, s.at)]
Over(s) == ~OK(s) \/ (s.at = Len(s.program) /\ s.calls = <<>>)

-----------------------------------------------------------------------------
(* execute() and the loader around it.                                     *)

Begun(s, p, phase) ==
  LET t == [HintGeometry(NoRun @@ s) EXCEPT
              !.phase = phase,
              !.param = IF phase = "Glyph" THEN s.prepared ELSE DefaultParameters,
              !.control = IF phase = "Glyph" THEN s.preparedControl ELSE {}]
  IN IF ~s.ready THEN Error(t, "InvalidState") ELSE Activate(t, p, 0)

\* What execute() does to the state when the program is over.
Executed(s) ==
  IF ~OK(s) THEN [s EXCEPT !.ready = FALSE]
  ELSE IF s.phase # "Prep" THEN s
  ELSE [s EXCEPT !.prepared = IF 2 \in s.control THEN DefaultParameters ELSE s.param,
                 !.preparedControl = s.control]
Resting(s) == NoRun @@ s

NotBuilt == [cvt |-> <<>>, storage |-> <<>>, written |-> {}, functions |-> <<>>, defs |-> <<>>,
             twilight |-> EmptyZone(0), prepared |-> DefaultParameters, control |-> {}]

HintInit ==
  /\ face \in HintFaces
  /\ vm = Blank
  /\ loader = [stage |-> "Build", hinting |-> FALSE, dirty |-> FALSE, glyph |-> 0, loads |-> 0,
               fellBack |-> FALSE, since |-> 0]
  /\ start = [zone |-> EmptyZone(0), built |-> NotBuilt]

\* prepare() and build_state(): initialise, then run the font program.
build_state ==
  /\ loader.stage = "Build"
  /\ LET s == initialize(vm)
     IN /\ vm' = IF s.ready THEN Begun(s, face.fpgm, "Font") ELSE s
        /\ loader' = [loader EXCEPT !.hinting = FALSE, !.dirty = FALSE, !.since = 0,
                                    !.stage = IF s.ready THEN "Run" ELSE "Refused"]
  /\ UNCHANGED <<face, start>>

run == /\ loader.stage = "Run" /\ ~Over(vm)
       /\ vm' = Turn(vm)
       /\ UNCHANGED <<face, loader, start>>

FontDone ==
  /\ loader.stage = "Run" /\ Over(vm) /\ vm.phase = "Font" /\ OK(vm)
  /\ vm' = Begun(Executed(vm), face.prep, "Prep")
  /\ UNCHANGED <<face, loader, start>>

\* A font or prep program that fails disables hinting, never loading.
BuildFails ==
  /\ loader.stage = "Run" /\ Over(vm) /\ vm.phase # "Glyph" /\ ~OK(vm)
  /\ vm' = Resting(Executed(vm))
  /\ loader' = [loader EXCEPT !.stage = "Idle", !.glyph = 0]
  /\ UNCHANGED <<face, start>>

\* run_program from the backup of the points on: the advance point is rounded
\* and the program runs, unless the prep program inhibited glyph programs.
Advance(z) == Cardinality(DOMAIN z.current) - 3
StartGlyph(s, g) ==
  LET zone == s.z[1]
      a == Advance(zone)
      t == [s EXCEPT !.z[1].original = zone.current,
                     !.z[1].touched = [i \in DOMAIN zone.current |-> {}],
                     !.z[1].current[a].x = ((@ + HalfPixel) \div Pixel) * Pixel,
                     !.contours = HintOutline.contours]
  IN Begun(t, face.glyphs[g], "Glyph")
Inhibited(s) == s.ready /\ 1 \in s.preparedControl

PrepDone ==
  /\ loader.stage = "Run" /\ Over(vm) /\ vm.phase = "Prep" /\ OK(vm)
  /\ LET s == Executed(vm)
         g == loader.glyph
         runs == g # 0 /\ ~Inhibited(s)
     IN /\ vm' = IF runs THEN StartGlyph(s, g) ELSE Resting(s)
        /\ loader' = [loader EXCEPT !.hinting = TRUE, !.stage = IF runs THEN "Run" ELSE "Idle",
                                    !.glyph = IF runs THEN g ELSE 0]
        /\ start' = IF start.built = NotBuilt THEN [start EXCEPT !.built = Lasting(s)] ELSE start
  /\ UNCHANGED face

Fallback(s, zone) == [s EXCEPT !.z[1] = zone]

\* The state is built again before the next program.
Spoilt(l) == [l EXCEPT !.dirty = TRUE]

GlyphDone ==
  /\ loader.stage = "Run" /\ Over(vm) /\ vm.phase = "Glyph"
  /\ LET s == Executed(vm)
         done == [loader EXCEPT !.stage = "Idle", !.glyph = 0, !.fellBack = ~OK(s)]
     IN IF OK(s)
        THEN /\ vm' = Resting(s)
             /\ loader' = [done EXCEPT !.since = @ + 1]
        ELSE /\ vm' = Resting(Fallback(s, start.zone))
             /\ loader' = Spoilt(done)
  /\ UNCHANGED <<face, start>>

\* load() of a simple glyph: its points are scaled into the workspace, then
\* run_program builds a spoilt state again and runs the glyph's program.
LoadedZone ==
  [original |-> HintOutline.points, current |-> HintOutline.points,
   touched |-> [i \in DOMAIN HintOutline.points |-> {}], on |-> HintOutline.on]
load(g, hint) ==
  /\ loader.stage = "Idle" /\ loader.loads < face.loads
  /\ LET s == [vm EXCEPT !.z[1] = LoadedZone]
         l == [loader EXCEPT !.loads = @ + 1, !.fellBack = FALSE]
         wanted == hint /\ face.glyphs[g] # <<>>
         runs == wanted /\ ~l.dirty /\ l.hinting /\ ~Inhibited(s)
     IN /\ start' = [start EXCEPT !.zone = LoadedZone]
        /\ vm' = IF runs THEN StartGlyph(s, g) ELSE s
        /\ loader' = IF wanted /\ l.dirty THEN [l EXCEPT !.stage = "Build", !.glyph = g]
                     ELSE IF runs THEN [l EXCEPT !.stage = "Run", !.glyph = g] ELSE l
  /\ UNCHANGED face

HintNext ==
  \/ build_state \/ run \/ FontDone \/ BuildFails \/ PrepDone \/ GlyphDone
  \/ \E g \in DOMAIN face.glyphs, hint \in BOOLEAN : load(g, hint)
HintSpec == HintInit /\ [][HintNext]_hintVars

-----------------------------------------------------------------------------
(* Properties.                                                             *)

Running == loader.stage = "Run"

\* No program, however it loops, jumps or calls, takes more turns than its
\* work budget: every turn of run() is charged, an empty function's too.
EveryTurnIsCharged == vm.steps <= vm.work /\ vm.work <= MaxWork

\* The next instruction, and the one every caller goes on with, is the start
\* of an instruction: no jump, skip or return lands in the data of a push.
OnInstructions ==
  Running /\ OK(vm) =>
    /\ vm.at \in Boundaries(vm.program)
    /\ \A k \in DOMAIN vm.calls : vm.calls[k].next \in Boundaries(vm.calls[k].caller)

\* A program decoded once without error is never found malformed later: every
\* IF that is skipped has its end, and every stored function body decodes.
StructureHolds ==
  vm.steps > 0 => vm.error \notin {"InvalidConditional", "TruncatedInstruction"}

\* A glyph whose program failed is the plain scaled glyph: points, curve flags
\* and touched flags show nothing of the steps that were executed.
FailureLeavesNoTrace ==
  loader.fellBack => vm.z[1] = start.zone

\* A failed program does not block the glyphs after it: no glyph program is
\* ever started on a state that is not ready.
BadGlyphBlocksNobody == vm.phase = "Glyph" /\ vm.steps = 0 => vm.error # "InvalidState"

\* A state built again after a failure is the one the first build left:
\* nothing the failed program or the glyphs before it wrote survives.
RebuiltLikeNew ==
  Running /\ vm.phase = "Glyph" /\ vm.steps = 0 /\ OK(vm) /\ loader.since = 0 =>
    Lasting(vm) = start.built

\* Hinting moves only the current points of a glyph: its original points stay
\* the scaled ones from the first step to the last.
OriginalsKept == Running /\ vm.phase = "Glyph" => vm.z[1].original = start.zone.current

AlongAxis(s) == s.freedom = s.projection /\ 0 \in {s.freedom.x, s.freedom.y}
                /\ Unit \in {s.freedom.x, s.freedom.y}

\* MDAP[1] leaves its point on a whole pixel when distances round to the grid,
\* on either side of the origin.
RoundedOnGrid ==
  OK(vm) /\ vm.last = [op |-> "MDAP", n |-> 1] /\ AlongAxis(vm) /\ vm.param.round = "Grid" =>
    project(vm, Current(vm, 0, vm.ref[0])) % Pixel = 0

\* MDRP and MIRP with the minimum distance flag keep their point that far from
\* rp0, on the side on which it lay in the original outline.
MinimumDistanceKept ==
  OK(vm) /\ vm.last.op \in {"MDRP", "MIRP"} /\ Flags(vm.last.n, 8) /\ AlongAxis(vm) =>
    LET was == dot(Minus(Original(vm, 1, vm.ref[2]), Original(vm, 0, vm.ref[1])), vm.dual)
        is == project(vm, Minus(Current(vm, 1, vm.ref[2]), Current(vm, 0, vm.ref[1])))
    IN vm.ref[2] # vm.ref[1] =>
         IF was >= 0 THEN is >= vm.param.minimum ELSE is <= -vm.param.minimum

\* IUP keeps the outline's order: two points that lay in order between the same
\* touched points are in that order afterwards, and still between them, unless
\* the touched points themselves changed sides.
InterpolatedInOrder ==
  OK(vm) /\ vm.last.op = "IUP" =>
    LET a == IF vm.last.n = 1 THEN "x" ELSE "y"
        old(i) == vm.z[1].original[i][a]
        new(i) == vm.z[1].current[i][a]
        Inside(o, p, q) == (p <= o /\ o <= q) \/ (q <= o /\ o <= p)
    IN \A c \in DOMAIN vm.contours :
         LET T == TouchedOf(vm, c, a)
             free == (ContourFirst(vm, c) .. vm.contours[c]) \ T
             ends(i) == {Before(T, i), After(T, i)}
         IN T # {} => \A i, j \in free :
              LET p == Before(T, i)
                  q == After(T, i)
              IN /\ Inside(old(i), old(p), old(q)) => Inside(new(i), new(p), new(q))
                 /\ ends(i) = ends(j) /\ old(i) <= old(j)
                    /\ (old(p) < old(q)) = (new(p) < new(q)) => new(i) <= new(j)

(* A glyph program ends within its budget on well-formed control flow,     *)
(* moves points by the rules, and a failing one leaves the face as it was. *)
HintingContained ==
    /\ EveryTurnIsCharged /\ OnInstructions /\ StructureHolds
    /\ FailureLeavesNoTrace /\ BadGlyphBlocksNobody /\ RebuiltLikeNew
    /\ OriginalsKept /\ RoundedOnGrid /\ MinimumDistanceKept
    /\ InterpolatedInOrder
=============================================================================
