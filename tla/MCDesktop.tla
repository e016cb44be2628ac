----------------------------- MODULE MCDesktop -----------------------------
(* What is on the screen: windows and who receives input, menus, device    *)
(* contexts and fonts; display targets and mode sets, the Cirrus driver    *)
(* and its timings, drawing on packed and planar surfaces, text, and       *)
(* glyphs from outlines and from their programs.  They share no variable:  *)
(* focus says which of them a behaviour exercises.                         *)
EXTENDS WindowManager, Gdi, Topology, Raster, CirrusDriver, GlyphOutline, HintVm

VARIABLE focus

desktopVars ==
    <<user, menuVars, gdiVars, fontVars, topVars, rasterVars, textVars,
      cirrusVars, timingVars, outlineVars, hintVars, focus>>

-----------------------------------------------------------------------------
(* A window and a child of it, of one process.                             *)
MCOwner == [w \in MenuWindow |-> "p"]
MCParent == [w \in MenuWindow |-> IF w = "w2" THEN "w1" ELSE "none"]

(* What a step never does: leave no successor active, publish an older     *)
(* default font, or commit a path that was validated for another monitor.  *)
ChangesOrdered ==
    [][[SuccessorChosen]_user /\ GenerationsGrow /\ CommitsWhatWasValidated]_desktopVars

(* Processes are alike.                                                    *)
MCSymmetry == Permutations(UserProcess)

-----------------------------------------------------------------------------
(* Two targets of one adapter.                                             *)
MCAdapterOf == [t \in Target |-> "a"]

(* Clip regions of two rectangles, fills and lines inside and across the   *)
(* edges, and copies that overlap in every direction or leave the surface. *)
MCRect(l, t, r, b) == [l |-> l, t |-> t, r |-> r, b |-> b]
MCClips == {<<MCRect(0, 0, 1, 3), MCRect(1, 1, 3, 3)>>, <<MCRect(2, 0, 4, 2), MCRect(0, 1, 2, 2)>>}
MCFillArgs == {<<0, 0, 4, 2>>, <<-1, 1, 3, 3>>}
MCPoints == {<<-1, 2>>, <<2, 0>>, <<1, 4>>}
MCBlitArgs ==
    {<<1, 0, 0, 0, 3, 2>>, <<0, 0, 1, 0, 3, 3>>, <<0, 1, 0, 0, 4, 2>>, <<0, 0, 0, 1, 4, 2>>,
     <<1, 1, 0, 0, 4, 4>>, <<-1, 0, 1, 1, 4, 2>>, <<1, 0, -1, 1, 4, 2>>}

(* A face whose glyphs reach above and below the line and left of their    *)
(* origin, and the built-in cell font.                                     *)
MCMask(l, t, w, h, a) == [left |-> l, top |-> t, width |-> w, height |-> h, advance |-> a]
MCFaces ==
    <<[line |-> [ascent |-> 2, descent |-> 1, gap |-> 0], cmap |-> {"a", "b"},
       masks |-> [c \in {"a", "b", "notdef"} |->
                    CASE c = "a" -> MCMask(1, 3, 2, 3, 3) [] c = "b" -> MCMask(-1, 1, 2, 3, 2)
                      [] OTHER -> MCMask(0, 2, 1, 2, 2)]]>>
MCCell == [width |-> 3, height |-> 4, ascent |-> 3, ink |-> MCRect(1, 0, 2, 3)]
MCTexts == {<<>>, <<"a">>, <<"b", "r">>, <<"c", "a">>}

(* Standard modes and ones that reach a limit of the chip or a register.   *)
MCTimings ==
    {<<640, 480, 60>>, <<640, 480, 75>>, <<800, 600, 60>>, <<1024, 768, 60>>, <<320, 200, 70>>,
     <<1480, 1024, 120>>, <<1520, 768, 50>>, <<1536, 864, 50>>, <<1280, 1024, 50>>,
     <<1152, 864, 50>>, <<1400, 600, 50>>, <<1024, 512, 60>>, <<1600, 400, 50>>,
     <<1560, 400, 50>>, <<1000, 514, 51>>, <<2048, 400, 50>>}

-----------------------------------------------------------------------------
(* Outlines: polygons with holes, crossings and overlaps, curves without a *)
(* point on them, and composites that nest, scale, tie points, recur, or   *)
(* leave a bound.                                                          *)
MCPt(x, y) == [x |-> x, y |-> y]
MCSimple(pts, on, ends, advance, xMin) ==
    [kind |-> "Simple", points |-> pts, on |-> on, ends |-> ends, advance |-> advance,
     lsb |-> 0, xMin |-> xMin, components |-> <<>>]
MCPolygon(pts, ends, advance, xMin) ==
    MCSimple(pts, [i \in DOMAIN pts |-> 1], ends, advance, xMin)
MCBox(l, b, r, t) == <<MCPt(l, b), MCPt(l, t), MCPt(r, t), MCPt(r, b)>>
MCComposite(parts, xMin) ==
    [kind |-> "Composite", points |-> <<>>, on |-> <<>>, ends |-> <<>>, advance |-> 30,
     lsb |-> 0, xMin |-> xMin, components |-> parts]
MCPart(glyph, flags, arg1, arg2, matrix) ==
    [glyph |-> glyph, flags |-> flags, arg1 |-> arg1, arg2 |-> arg2, matrix |-> matrix]
MCAt(glyph, dx, dy) == MCPart(glyph, {"ArgsAreXyValues"}, dx, dy, <<>>)
MCSquare == MCPolygon(MCBox(1, 1, 9, 13), <<3>>, 14, 1)
MCRing == MCPolygon(MCBox(0, 0, 16, 16) \o <<MCPt(4, 4), MCPt(12, 4), MCPt(12, 12), MCPt(4, 12)>>,
                    <<3, 7>>, 18, 0)
MCRound == MCSimple(MCBox(0, 0, 43, 43), <<0, 0, 0, 0>>, <<3>>, 20, 0)
MCLeaf == MCSimple(<<MCPt(0, 0), MCPt(3, 21), MCPt(20, 9), MCPt(6, -5)>>, <<0, 0, 1, 0>>, <<3>>, 20, 0)
MCOutlines ==
    <<MCSquare, MCRing, MCRound, MCLeaf,
      MCPolygon(<<MCPt(3, 0), MCPt(4, 17), MCPt(5, 0)>>, <<2>>, 7, 2),
      MCPolygon(<<MCPt(0, 0), MCPt(16, 13), MCPt(16, 0), MCPt(0, 13)>>, <<3>>, 17, -2),
      MCPolygon(<<MCPt(0, 0), MCPt(9, 16), MCPt(14, 16), MCPt(5, 0)>>, <<3>>, 16, 0),
      MCComposite(<<MCAt(1, 0, 0),
                    MCPart(5, {"ArgsAreXyValues", "UseMyMetrics"}, 10, 2, <<>>)>>, 0),
      MCComposite(<<MCAt(5, 0, 0), MCPart(8, {"ArgsAreXyValues"}, 4, 0, <<32, 0, 0, 48>>)>>, 0),
      MCComposite(<<MCAt(1, 0, 0), MCPart(5, {}, 2, 0, <<0, 64, -64, 0>>)>>, 0),
      MCComposite(<<MCAt(1, 0, 0), MCPart(5, {}, 4, 0, <<>>)>>, 0),
      MCComposite(<<MCAt(1, 0, 0), MCAt(12, 4, 0)>>, 0),
      MCComposite(<<MCPart(3, {"ArgsAreXyValues", "ScaledComponentOffset"}, 8, 8,
                           <<32, 0, 0, 32>>)>>, 0),
      MCComposite(<<MCAt(1, 900, 0)>>, 0), MCComposite(<<MCAt(40, 0, 0)>>, 0),
      MCComposite(<<MCAt(2, 0, 0), MCAt(2, 0, 0)>>, 0),
      MCPolygon(<<MCPt(0, 0), MCPt(0, 60), MCPt(60, 0)>>, <<2>>, 14, 1),
      MCPolygon(<<MCPt(0, 0), MCPt(0, 90), MCPt(9, 0)>>, <<2>>, 14, 1),
      [kind |-> "Absent", points |-> <<>>, on |-> <<>>, ends |-> <<>>, advance |-> 9,
       lsb |-> 2, xMin |-> 0, components |-> <<>>],
      MCComposite(<<MCAt(5, 0, 0), MCAt(8, 4, 0)>>, 1),
      MCPolygon(MCBox(0, 0, 12, 12) \o MCBox(6, 6, 18, 18), <<3, 7>>, 18, 0),
      MCPolygon(MCBox(8, 0, 14, 16), <<3>>, 16, 0)>>
MCOutlineFace(n, glyphs) ==
    [glyphs |-> glyphs, maxPoints |-> n, maxCompositePoints |-> n - 1, other |-> 10]
MCOutlineFaces ==
    {MCOutlineFace(11, MCOutlines), MCOutlineFace(4, <<MCRound, MCLeaf, MCSquare>>),
     MCOutlineFace(19, <<MCSquare>>), MCOutlineFace(40, <<MCSquare>>)}
-----------------------------------------------------------------------------
(* Glyph programs: a phrase that sets something up, then any phrase, over  *)
(* a font program with functions that nest, call themselves and are empty. *)
MCOp(op) == <<[op |-> op, n |-> 0]>>
MCOpOf(op, n) == <<[op |-> op, n |-> n]>>
MCData(vals) == [i \in 1 .. Len(vals) |-> [op |-> "data", n |-> vals[i]]]
MCPush(vals) == MCOpOf("PUSH", Len(vals)) \o MCData(vals)
MCDo(vals, op) == MCPush(vals) \o MCOp(op)
MCDoOf(vals, op, n) == MCPush(vals) \o MCOpOf(op, n)
MCZone == <<MCPt(-20, 10), MCPt(40, 70), MCPt(100, -30), MCPt(60, 20), MCPt(0, 0), MCPt(110, 0),
            MCPt(0, 0), MCPt(0, 0)>>
MCHintOutline ==
    [points |-> [i \in 0 .. 7 |-> MCZone[i + 1]], on |-> [i \in 0 .. 7 |-> IF i = 1 THEN 0 ELSE 1],
     contours |-> <<3>>]
MCSourceCvt == <<1, -1>>
MCOpcode(op) == IF op = "USER" THEN 145 ELSE 999
MCFpgm ==
    MCDo(<<0>>, "FDEF") \o MCDo(<<1>>, "IF") \o MCDo(<<2>>, "POP") \o MCOp("ELSE") \o MCOp("EIF")
        \o MCOp("ENDF") \o MCDo(<<1>>, "FDEF") \o MCOp("ENDF")
        \o MCDo(<<2>>, "FDEF") \o MCDo(<<2>>, "CALL") \o MCOp("ENDF")
        \o MCDo(<<145>>, "IDEF") \o MCDo(<<7>>, "POP") \o MCOp("ENDF")
MCPrep ==
    MCDo(<<0, 3>>, "WS") \o MCDo(<<0>>, "SMD") \o MCDo(<<40>>, "SMD") \o MCOp("IUP")
        \o MCDo(<<0>>, "SZPS") \o MCDoOf(<<0, 1>>, "MIAP", 1)
MCSetups ==
    {MCDoOf(<<0>>, "MDAP", 1), MCDoOf(<<2>>, "MDAP", 1), MCDoOf(<<1, 0>>, "MIAP", 1),
     MCDoOf(<<1>>, "MDRP", 28), MCOpOf("SVTCA", 0), MCOpOf("SFVTCA", 0),
     MCDo(<<0, 200>>, "WCVTP"), MCDo(<<1, 5>>, "WS"), MCDo(<<0>>, "CALL"), MCOp("RTHG"),
     MCDo(<<88>>, "SROUND"), MCDoOf(<<1>>, "SRP", 0), MCDoOf(<<0>>, "SZP", 1),
     MCDoOf(<<1, 2>>, "SPVTL", 1), MCDoOf(<<1, 2>>, "SDPVTL", 0), MCDo(<<3, 4>>, "SFVFS"),
     MCDo(<<2>>, "SLOOP") \o MCDo(<<1, 3, -40>>, "SHPIX")}
MCPhrases ==
    MCSetups \cup
    {MCDoOf(<<3>>, "MDAP", 0), MCDoOf(<<2>>, "MDAP", 1) \o MCOpOf("IUP", 1),
     MCDoOf(<<2, 1>>, "MIAP", 0), MCDoOf(<<0>>, "MDRP", 12), MCDoOf(<<3, 1>>, "MIRP", 12),
     MCDoOf(<<3, -1>>, "MIRP", 20), MCDoOf(<<2, 90>>, "MSIRP", 1), MCOpOf("IUP", 1),
     MCOpOf("IUP", 0), MCOp("SFVTPV"), MCDo(<<0, 9>>, "WCVTF"), MCDo(<<0>>, "RCVT") \o MCOp("POP"),
     MCDo(<<1>>, "RS") \o MCOp("POP"), MCDo(<<30, 1>>, "LOOPCALL"), MCDo(<<2>>, "CALL"),
     MCOp("USER"), MCOp("OTHER"), MCDo(<<-2>>, "JMPR"), MCDo(<<2>>, "JMPR") \o MCPush(<<1>>),
     MCDo(<<3, 1>>, "JROT") \o MCPush(<<1>>), MCDo(<<2, 0>>, "JROT"),
     MCDo(<<0>>, "IF") \o MCPush(<<1>>) \o MCOp("ELSE") \o MCDo(<<2>>, "EIF"),
     MCDo(<<1>>, "IF") \o MCDo(<<0>>, "IF") \o MCOp("ELSE") \o MCOp("EIF") \o MCOp("ELSE")
        \o MCOp("EIF"),
     MCOp("IF"), MCOp("EIF"), MCDo(<<0>>, "FDEF") \o MCOp("ENDF"),
     MCDo(<<1, 2>>, "FLIPPT") \o MCDo(<<0, 2>>, "FLIPRGOFF"),
     MCDo(<<0>>, "SLOOP") \o MCDo(<<64>>, "SHPIX"), MCDo(<<1>>, "ALIGNRP"), MCDoOf(<<1>>, "SHP", 1),
     MCDo(<<3>>, "IP"), MCDoOf(<<0>>, "SHC", 1), MCDoOf(<<1>>, "SHZ", 0), MCDo(<<0, 1>>, "ALIGNPTS"),
     MCDo(<<0, 1, 2, 3, 1>>, "ISECT"), MCDo(<<2>>, "UTP"), MCDoOf(<<44, 1, 1>>, "DELTAP", 0),
     MCDoOf(<<44, 1, 1>>, "DELTAC", 0), MCDo(<<2, 77>>, "SCFS"),
     MCDoOf(<<0, 1>>, "MD", 1) \o MCOp("POP"),
     MCDoOf(<<1>>, "GC", 0) \o MCOp("ROUND") \o MCOp("POP"), MCDo(<<200>>, "S45ROUND"), MCOp("RDTG"),
     MCDo(<<1, 3, 2>>, "MINDEX") \o MCOp("ROLL"),
     MCOp("NPUSH") \o MCData(<<2, 7, 64>>) \o MCOp("DIV") \o MCOp("CEILING") \o MCOp("NEG") \o MCOp("ODD"),
     MCDo(<<1, 1>>, "INSTCTRL"), MCDo(<<3000, 3000>>, "ADD"), MCOpOf("PUSH", 3)}
MCHintFace(fpgm, prep, glyphs) ==
    [fpgm |-> fpgm, prep |-> prep, glyphs |-> glyphs, loads |-> Len(glyphs)]

(* Faces that are loaded again and again, whose glyphs write the state,    *)
(* fail half way or read it, with sound and unsound programs before them.  *)
MCWrites ==
    MCDo(<<1, 5>>, "WS") \o MCDo(<<0, 200>>, "WCVTP") \o MCDo(<<1, 1>>, "FLIPPT")
        \o MCDoOf(<<0>>, "MDAP", 1)
MCGlyphs == <<MCWrites, MCWrites \o MCOp("POP") \o MCOp("POP"), MCDo(<<1>>, "RS") \o MCOp("POP"), <<>>>>
MCUnclosed ==
    MCDo(<<1>>, "IF") \o MCDo(<<0>>, "FDEF") \o MCDo(<<0>>, "IF") \o MCOp("ENDF") \o MCOp("EIF")
        \o MCOp("EIF")
MCHintFaces ==
    {MCHintFace(MCFpgm, MCPrep, <<p \o q>>) : p \in MCSetups, q \in MCPhrases}
    \cup {MCHintFace(f, q, MCGlyphs) :
             f \in {MCFpgm, MCFpgm \o MCOp("EIF"),
                    MCDo(<<0>>, "IF") \o MCDo(<<0>>, "FDEF") \o MCOp("EIF") \o MCOp("ENDF")},
             q \in {MCPrep, MCPrep \o MCDo(<<1, 1>>, "INSTCTRL"), MCPrep \o MCDo(<<2, 2>>, "INSTCTRL")}}
    \cup {MCHintFace(MCUnclosed, MCDo(<<0>>, "CALL"), <<MCWrites>>)}

-----------------------------------------------------------------------------
OneOf(S) == CHOOSE x \in S : TRUE

DesktopInit ==
    /\ focus \in {"windows", "menus", "gdi", "fonts",
                  "topology", "raster", "text", "timing", "outline", "cirrus", "hints"}
    /\ UserInit /\ MenuInit /\ GdiInit /\ FontInit /\ TopInit /\ TextInit
    /\ OutlineInit /\ CirrusInit
    /\ RasterInit /\ (focus # "raster" => ~surface.planar)
    /\ IF focus = "timing" THEN TRUE ELSE built = NoTiming /\ asked = [kind |-> "none"]
    /\ IF focus = "hints" THEN TRUE ELSE face = OneOf(HintFaces) /\ HintInit
    /\ CASE focus = "timing" -> TimingInit
         [] focus = "hints" -> HintInit
         [] OTHER -> TRUE

DesktopNext ==
    /\ UNCHANGED focus
    /\ IF focus = "windows" THEN UserNext ELSE UNCHANGED user
    /\ IF focus = "menus" THEN MenuNext ELSE UNCHANGED menuVars
    /\ IF focus = "gdi" THEN GdiNext ELSE UNCHANGED gdiVars
    /\ IF focus = "fonts" THEN FontNext ELSE UNCHANGED fontVars
    /\ IF focus = "topology" THEN TopNext ELSE UNCHANGED topVars
    /\ IF focus = "raster" THEN RasterNext ELSE UNCHANGED rasterVars
    /\ IF focus = "text" THEN TextNext ELSE UNCHANGED textVars
    /\ IF focus = "cirrus" THEN CirrusNext ELSE UNCHANGED cirrusVars
    /\ IF focus = "timing" THEN TimingNext ELSE UNCHANGED timingVars
    /\ IF focus = "outline" THEN OutlineNext ELSE UNCHANGED outlineVars
    /\ IF focus = "hints" THEN HintNext ELSE UNCHANGED hintVars

DesktopSpec == DesktopInit /\ [][DesktopNext]_desktopVars

(* Mode sets: what is published and shown agrees, down to the registers.   *)
DisplaySound == TopologyCoherent /\ DisplayDriven

(* Glyphs: the mask of an outline, and the programs that move its points.  *)
GlyphsExact == MasksExact /\ HintingContained

(* A behaviour only changes the component in focus: states that agree on   *)
(* it are one state.                                                       *)
InFocus ==
    CASE focus = "windows" -> <<focus, user>>
      [] focus = "menus" -> <<focus, menuVars>>
      [] focus = "gdi" -> <<focus, gdiVars>>
      [] focus = "fonts" -> <<focus, fontVars>>
      [] focus = "topology" -> <<focus, topVars>>
      [] focus = "raster" -> <<focus, rasterVars>>
      [] focus = "text" -> <<focus, textVars>>
      [] focus = "cirrus" -> <<focus, cirrusVars>>
      [] focus = "timing" -> <<focus, timingVars>>
      [] focus = "outline" -> <<focus, outlineVars>>
      [] OTHER -> <<focus, hintVars>>
=============================================================================
