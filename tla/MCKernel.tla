------------------------------ MODULE MCKernel ------------------------------
(* Getting the kernel onto the disk and started, and what it runs on: the  *)
(* image updater, the GRUB loader (command, memory map, linker) and Stage  *)
(* 1.5, the BIOS disk reader and the virtual 8086 monitor below it, the    *)
(* interrupt lines, the configuration hive, page tables and frames, the    *)
(* slab heap, the kernel's trees and lists, the module and program         *)
(* loaders, the object directory, and a thread's message queue with the    *)
(* scene it paints.  They share no variable: focus says which of them a    *)
(* behaviour exercises.                                                    *)
EXTENDS BootLinker, BootLoader, V86, InterruptLines, ConfigManager, DiskUpdate,
        KernelMemory, Containers, Loaders, Objects, MessageQueue

VARIABLE focus

kernelVars ==
    <<linkVars, stageVars, bmVars, bootVars, diskVars, v86Vars, lineVars, cmVars, updateVars,
      vmVars, heapVars, containerVars, rbVars, mlVars, ldVars, objVars, mqVars, sceneVars, focus>>

-----------------------------------------------------------------------------
(* Files for the linker: well-formed and flawed kernels, and HAL files     *)
(* with every relocation type against every kind of symbol.                *)
MCSymbol(name, section, value, inGot) ==
    [name |-> name, section |-> section, value |-> value, size |-> 1, global |-> TRUE, got |-> inGot]
MCRel(site, type, sym, slot) ==
    [target |-> 1, site |-> site, type |-> type, sym |-> sym, slot |-> slot]
MCSegment(low, size, bytes) == [at |-> low, mem |-> size, words |-> bytes, exec |-> TRUE]

MCKernelFile(size, rels) ==
    [flaw |-> "none", segments |-> <<MCSegment(40, size, <<0, 1>>)>>, entry |-> 40,
     sections |-> <<[at |-> 40, size |-> 3, alloc |-> TRUE]>>,
     symbols |-> <<MCSymbol("k", 1, 41, FALSE), MCSymbol("h", 0, 0, FALSE)>>,
     rels |-> rels, got |-> 0, gotSection |-> 0]
MCKernelFiles ==
    {MCKernelFile(3, <<>>), MCKernelFile(5, <<>>),
     MCKernelFile(3, <<MCRel(40, "32", 2, 0)>>), MCKernelFile(3, <<MCRel(41, "PC32", 2, 0)>>),
     [MCKernelFile(3, <<>>) EXCEPT !.flaw = "header"], [MCKernelFile(3, <<>>) EXCEPT !.entry = 43],
     [MCKernelFile(3, <<>>) EXCEPT !.segments = Append(@, MCSegment(41, 2, <<1, 1>>))],
     [MCKernelFile(3, <<>>) EXCEPT !.segments = Append(@, MCSegment(41, 2, <<2>>))]}

MCHal(rels) ==
    [flaw |-> "none", segments |-> <<MCSegment(10, 5, <<0, 1, 2, 0, 0>>)>>, entry |-> 0,
     sections |-> <<[at |-> 10, size |-> 3, alloc |-> TRUE], [at |-> 13, size |-> 2, alloc |-> TRUE],
                    [at |-> 0, size |-> 3, alloc |-> FALSE]>>,
     symbols |-> <<MCSymbol("h", 1, 11, FALSE), MCSymbol("k", 0, 0, FALSE), MCSymbol("c", 99, 7, FALSE),
                   MCSymbol("g", 2, 13, TRUE), MCSymbol("missing", 0, 0, FALSE)>>,
     rels |-> rels, got |-> 13, gotSection |-> 2]
MCFirstRel ==
    {MCRel(10, t, s, 0) : t \in {"32", "PC32", "PLT32", "GOTOFF", "GOTPC", "NONE"}, s \in 1..5}
        \cup {MCRel(10, "RELATIVE", s, 0) : s \in 0..1}
        \cup {MCRel(10, t, s, 13) : t \in {"GOT32", "GOT32X"}, s \in 0..4}
MCSecondRel ==
    {MCRel(11, "32", 2, 0), MCRel(12, "GOT32", 1, 13), MCRel(12, "GOT32X", 2, 14), MCRel(13, "32", 1, 0)}
MCHalFiles ==
    {MCHal(<<>>)} \cup {MCHal(<<a, b>>) : a \in MCFirstRel, b \in MCSecondRel}
        \cup {[MCHal(<<a>>) EXCEPT !.got = 0] : a \in MCFirstRel}
        \cup {[MCHal(<<MCRel(0, "32", 1, 0)>>) EXCEPT !.rels[1].target = 3]}

-----------------------------------------------------------------------------
(* Boot modules for Stage 1.5: kernels and HAL files with every relocation *)
(* type, and lists with missing, doubled and extra modules.  A relocation  *)
(* of type GOTOFF names a defined symbol, and one slot one symbol.         *)
MCStageKernel(size, rels) ==
    [flaw |-> "none", segments |-> <<MCSegment(40, size, <<0, 1>>)>>, entry |-> 40,
     sections |-> <<[at |-> 40, size |-> 3, alloc |-> TRUE]>>,
     symbols |-> <<MCSymbol("k", 1, 41, FALSE), MCSymbol("h", 0, 0, FALSE)>>,
     rels |-> rels, got |-> 41, gotSection |-> 1]
MCStageKernels ==
    {MCStageKernel(3, <<>>), MCStageKernel(5, <<>>), MCStageKernel(12, <<>>),
     MCStageKernel(3, <<MCRel(40, "32", 2, 0)>>), MCStageKernel(3, <<MCRel(41, "PC32", 2, 0)>>),
     [MCStageKernel(3, <<>>) EXCEPT !.flaw = "stripped"], [MCStageKernel(3, <<>>) EXCEPT !.entry = 44],
     [MCStageKernel(3, <<>>) EXCEPT !.got = 0],
     [MCStageKernel(4, <<>>) EXCEPT !.segments = Append(@, MCSegment(44, 3, <<2>>))]}
MCStageHal(rels) ==
    [flaw |-> "none", segments |-> <<MCSegment(10, 5, <<0, 1, 2, 0, 0>>)>>, entry |-> 0,
     sections |-> <<[at |-> 10, size |-> 3, alloc |-> TRUE], [at |-> 13, size |-> 2, alloc |-> TRUE],
                    [at |-> 0, size |-> 3, alloc |-> FALSE]>>,
     symbols |-> <<MCSymbol("h", 1, 11, FALSE), MCSymbol("k", 0, 0, FALSE), MCSymbol("k", 1, 12, FALSE),
                   MCSymbol("g", 2, 13, TRUE), MCSymbol("missing", 0, 0, FALSE)>>,
     rels |-> rels, got |-> 13, gotSection |-> 2]
MCStageHals ==
    {MCStageHal(<<>>)} \cup {MCStageHal(<<ab[1], ab[2]>>) : ab \in
        {ab \in MCFirstRel \X MCSecondRel :
            /\ ab[1].type = "GOTOFF" => ab[1].sym \in {1, 3, 4}
            /\ ab[1].slot = 13 => ab[2].site # 13 /\ (ab[2].slot = 13 => ab[1].sym = ab[2].sym)}}
        \cup {[MCStageHal(<<MCRel(0, "32", 1, 0)>>) EXCEPT !.rels[1].target = 3]}
MCModuleLists ==
    {<<[words |-> {"kernel"}, file |-> k], [words |-> {"hal"}, file |-> h]>> : k \in MCStageKernels, h \in MCStageHals}
    \cup {<<[words |-> {"kernel"}, file |-> MCStageKernel(3, <<>>)]>>,
          <<[words |-> {"kernel"}, file |-> MCStageKernel(3, <<>>)], [words |-> {"kernel"}, file |-> MCStageKernel(5, <<>>)]>>,
          <<[words |-> {"hal", "kernel"}, file |-> MCStageHal(<<>>)], [words |-> {}, file |-> MCStageHal(<<>>)],
            [words |-> {"kernel"}, file |-> MCStageKernel(5, <<>>)]>>}
MCFirmwareMaps == {<<[base |-> 0, type |-> "available"], [base |-> 4, type |-> "acpi"], [base |-> 8, type |-> "nvs"]>>}
MCNameSize == [n \in {"k", "h", "g"} |-> IF n = "k" THEN 2 ELSE 3]

-----------------------------------------------------------------------------
(* Firmware memory maps: one RAM region, alone and with overlapping        *)
(* reserved, ACPI and available ones in either order, a region that wraps  *)
(* around the address space and an empty one.                              *)
MCRegion(low, high, type) == [base |-> low, length |-> high - low, type |-> type]
MCRam == {MCRegion(b, e, "available") : b \in {0, 1, 2, 5}, e \in {24, 29, 30, 34}}
MCOther ==
    {r \in {MCRegion(b, e, t) : b \in {0, 3, 8, 29}, e \in {4, 9, 30, 31},
                                t \in {"reserved", "acpi", "available"}} : r.length > 0}
MCThird ==
    {MCRegion(8, 9, "reserved"), MCRegion(8, 30, "acpi"), MCRegion(3, 9, "available"),
     MCRegion(29, 31, "reserved")}
MCRawMaps ==
    {<<a>> : a \in MCRam} \cup {<<a, b>> : a \in MCRam, b \in MCOther}
        \cup {<<b, MCRegion(1, 30, "available"), c>> : b \in MCOther, c \in MCThird}
        \cup {<<MCRegion(2, 24, "available"), MCRegion(40, 70, "available")>>,
              <<MCRegion(2, 24, "available"), MCRegion(6, 6, "reserved")>>}

-----------------------------------------------------------------------------
(* Drives on both sides of the ten-bit cylinder split, and requests at     *)
(* their ends.                                                             *)
MCGeometry ==
    {[cylinders |-> 2, heads |-> 2, sectors |-> 3], [cylinders |-> 258, heads |-> 2, sectors |-> 3],
     [cylinders |-> 3, heads |-> 1, sectors |-> 2]}
MCRequest ==
    [lba : {0, 1, 2, 4, 5, 11, 12, 1533, 1535, 1546, 1547, 1990}, count : 0..7, room : {3, 7}]

(* Cells that the values of the two types take in the hive.                *)
MCValueCells == [Boolean |-> 1, UInt32 |-> 2]

(* A disk without our loader, and one with it.                             *)
MCFirstImages ==
    {[user |-> {}, menu |-> <<"dos">>, module |-> 0],
     [user |-> {}, menu |-> <<"dos", "console">>, module |-> 1]}

-----------------------------------------------------------------------------
(* Kernel modules: a chain of requirements, one whose requirement is       *)
(* missing, one that exports a name again, and a cycle.                    *)
MCModule(needs, imports, exported, pages) ==
    [needs |-> needs, imports |-> imports, exports |-> exported, pages |-> pages]
MCImage ==
    [k    |-> MCModule(<<>>, {}, {"ka"}, <<1>>),
     gfx  |-> MCModule(<<"font">>, {"ka"}, {"ga"}, <<1, 2>>),
     font |-> MCModule(<<"k">>, {"ka"}, {"fa"}, <<1>>),
     bad  |-> MCModule(<<"font", "none">>, {"ka"}, {"ba"}, <<1>>),
     dup  |-> MCModule(<<>>, {}, {"fa"}, <<1>>),
     cyc  |-> MCModule(<<"cyc2">>, {}, {"ca"}, <<1>>),
     cyc2 |-> MCModule(<<"cyc">>, {}, {"cb"}, <<1>>),
     use  |-> MCModule(<<"font">>, {"fa"}, {}, <<1>>),
     drv  |-> MCModule(<<>>, {"ka"}, {}, <<1, 1>>),
     prog |-> MCModule(<<>>, {}, {}, <<2, 1>>)]
MCBootModules == <<"k">>

-----------------------------------------------------------------------------
(* Programs: words 10..13 hold a slot for f, a copy of d and two           *)
(* references to f; libraries A, B and C need each other in every way,     *)
(* define f weakly, strongly or not at all, and exist in two directories.  *)
MCSym(name, bind, def, value, size) ==
    [name |-> name, bind |-> bind, def |-> def, value |-> value, size |-> size]
MCReloc(kind, site, sym) == [kind |-> kind, at |-> site, sym |-> sym]
MCExe(needed, bind) ==
    [type |-> "exec", low |-> 10, words |-> <<0, 0, 1, 2>>, needed |-> needed,
     syms |-> <<MCSym("f", bind, FALSE, 0, 0), MCSym("d", "global", TRUE, 11, 1)>>,
     rels |-> <<MCReloc("slot", 10, 1), MCReloc("copy", 11, 2), MCReloc("32", 12, 1), MCReloc("pc32", 13, 1)>>]
MCLib(needed, bind, hasD) ==
    [type |-> "dyn", low |-> 0, words |-> <<0, 1, 0>>, needed |-> needed,
     syms |-> <<MCSym("f", bind, bind # "none", 1, 1), MCSym("d", "global", hasD, 1, 1),
                MCSym("loc", "local", TRUE, 2, 1)>>,
     rels |-> <<MCReloc("slot", 0, 2), MCReloc("relative", 1, 1), MCReloc("slot", 2, 1)>>]
MCOddLib ==
    [MCLib(<<>>, "weak", TRUE) EXCEPT !.rels = @ \o <<MCReloc("none", 0, 1), MCReloc("32", 2, 3)>>]
MCWorlds ==
    {<<"bin", "exe">> :> MCExe(ne, "global") @@ <<"bin", "A">> :> MCLib(na, fa, FALSE)
        @@ <<"System", "A">> :> MCLib(<<>>, "weak", FALSE)
        @@ <<"System", "B">> :> MCLib(nb, fb, TRUE) @@ <<"System", "C">> :> MCLib(<<>>, "weak", TRUE) :
            ne \in {<<"A", "B">>, <<"B", "A">>, <<"A">>},
            na \in {<<>>, <<"B">>, <<"C">>, <<"C", "B">>, <<"X">>},
            nb \in {<<>>, <<"A">>, <<"C">>, <<"exe">>},
            fa, fb \in {"none", "weak", "global"}}
    \cup {<<"bin", "exe">> :> [MCExe(<<>>, "weak") EXCEPT !.rels = <<@[1], @[3]>>],
          <<"bin", "exe">> :> [MCExe(<<>>, "weak") EXCEPT !.type = "dyn"],
          <<"bin", "exe">> :> [MCExe(<<"A">>, "weak") EXCEPT !.low = 24] @@ <<"bin", "A">> :> MCOddLib}

-----------------------------------------------------------------------------
OneOf(S) == CHOOSE x \in S : TRUE

(* Every component but the one in focus starts from one input; the one in  *)
(* focus from any.                                                         *)
OtherInits ==
    /\ IF focus = "linker" THEN TRUE ELSE LinkStart(OneOf(KernelFiles), OneOf(HalFiles))
    /\ IF focus = "stage" THEN TRUE ELSE StageStart(OneOf(ModuleLists), OneOf(FirmwareMaps))
    /\ IF focus = "memory map" THEN TRUE ELSE raw = OneOf(RawMaps) /\ BootMemInit
    /\ IF focus = "command" THEN TRUE ELSE cpu = {} /\ CmdInit
    /\ IF focus = "disk" THEN TRUE
       ELSE /\ drive = [g |-> OneOf(Geometry), edd |-> TRUE]
            /\ request = OneOf(Request) /\ DiskInit
    /\ IF focus = "config" THEN TRUE
       ELSE /\ files = [bootvol |-> InstalledHive, rootvol |-> FormatEmptyConfigurationFile]
            /\ boot = [pc |-> "prepare", selected |-> "bootvol"] /\ CmInit
    /\ IF focus = "heap" THEN TRUE
       ELSE layout = calculate_layout(OneOf(ObjectSize), OneOf(Alignment)) /\ HeapInit
    /\ IF focus = "programs" THEN TRUE ELSE world = OneOf(Worlds) /\ LoadInit

(* What gets code onto the disk and into memory, and what it then runs on. *)
BootParts == {"linker", "stage", "memory map", "command", "disk", "v86", "update", "modules", "programs"}
KernelParts == {"lines", "config", "memory", "heap", "tree", "list", "map", "objects", "queue", "scene"}

KernelInit ==
    /\ focus \in BootParts \cup KernelParts
    /\ V86Init /\ LineInit /\ VmInit /\ ContainersInit /\ RbInit /\ ModInit /\ ObjInit /\ QueueInit
    /\ SceneInit
    /\ focus # "scene" => /\ adapter = [packed |-> TRUE, VisibleFill |-> TRUE, ReadPixel |-> TRUE]
                          /\ scene.surface = OneOf(Surface)
                          /\ \A x \in Cell : content[x] = OneOf(Color)
    /\ artifact \in (IF focus = "update" THEN {1, 2} ELSE {1}) /\ UpdateInit
    /\ artifact = IF image.content.module = 0 THEN 2 ELSE 1
    /\ OtherInits
    /\ CASE focus = "linker" -> LinkInit
         [] focus = "stage" -> StageInit
         [] focus = "memory map" -> BootMemInit
         [] focus = "command" -> CmdInit
         [] focus = "disk" -> DiskInit
         [] focus = "config" -> CmInit
         [] focus = "heap" -> HeapInit
         [] focus = "programs" -> LoadInit
         [] OTHER -> TRUE

KernelNext ==
    /\ UNCHANGED focus
    /\ IF focus = "linker" THEN LinkNext ELSE UNCHANGED linkVars
    /\ IF focus = "stage" THEN StageNext ELSE UNCHANGED stageVars
    /\ IF focus = "memory map" THEN BootMemNext ELSE UNCHANGED bmVars
    /\ IF focus = "command" THEN CmdNext ELSE UNCHANGED bootVars
    /\ IF focus = "disk" THEN DiskNext ELSE UNCHANGED diskVars
    /\ IF focus = "v86" THEN V86Next ELSE UNCHANGED v86Vars
    /\ IF focus = "lines" THEN LineNext ELSE UNCHANGED lineVars
    /\ IF focus = "config" THEN CmNext ELSE UNCHANGED cmVars
    /\ IF focus = "update" THEN UpdateNext ELSE UNCHANGED updateVars
    /\ IF focus = "memory" THEN VmNext ELSE UNCHANGED vmVars
    /\ IF focus = "heap" THEN HeapNext ELSE UNCHANGED heapVars
    /\ IF focus = "tree" THEN \E k \in AvlKey : InsertKey(k) \/ RemoveKey(k)
       ELSE IF focus = "list" THEN ListStep ELSE UNCHANGED containerVars
    /\ IF focus = "map" THEN RbNext ELSE UNCHANGED rbVars
    /\ IF focus = "modules" THEN ModNext ELSE UNCHANGED mlVars
    /\ IF focus = "programs" THEN LoadNext ELSE UNCHANGED ldVars
    /\ IF focus = "objects" THEN ObjNext ELSE UNCHANGED objVars
    /\ IF focus = "queue" THEN QueueNext ELSE UNCHANGED mqVars
    /\ IF focus = "scene" THEN SceneNext ELSE UNCHANGED sceneVars

(* The kernel is started with a linked image and an exact map, from what   *)
(* the BIOS read.                                                          *)
BootSound == ImagesLinked /\ HandoffSound /\ BiosServicesExact

(* What a step never does: publish an image over writes the emulator made  *)
(* to the old one, or interrupt BIOS code that has interrupts off.         *)
StepsAllowed == [][RefreshKeepsWrites /\ InterruptedOnlyWhenAllowed]_kernelVars

(* The behaviours of some components alone.                                *)
BootInit == focus \in BootParts /\ KernelInit
ServicesInit == focus \in KernelParts /\ KernelInit
ConfigInit == focus = "config" /\ KernelInit

BootSpec == BootInit /\ [][KernelNext]_kernelVars
ServicesSpec == ServicesInit /\ [][KernelNext]_kernelVars
ConfigSpec == ConfigInit /\ [][KernelNext]_kernelVars

(* A behaviour only changes the component in focus: states that agree on   *)
(* it are one state.                                                       *)
InFocus ==
    CASE focus = "linker" -> <<focus, linkVars>>
      [] focus = "stage" -> <<focus, stageVars>>
      [] focus = "memory map" -> <<focus, bmVars>>
      [] focus = "command" -> <<focus, bootVars>>
      [] focus = "disk" -> <<focus, diskVars>>
      [] focus = "v86" -> <<focus, v86Vars>>
      [] focus = "lines" -> <<focus, lineVars>>
      [] focus = "config" -> <<focus, cmVars>>
      [] focus = "update" -> <<focus, updateVars>>
      [] focus = "memory" -> <<focus, vmVars>>
      [] focus = "heap" -> <<focus, heapVars>>
      [] focus \in {"tree", "list"} -> <<focus, containerVars>>
      [] focus = "map" -> <<focus, rbVars>>
      [] focus = "modules" -> <<focus, mlVars>>
      [] focus = "programs" -> <<focus, ldVars>>
      [] focus = "objects" -> <<focus, objVars>>
      [] focus = "queue" -> <<focus, mqVars>>
      [] OTHER -> <<focus, sceneVars>>
=============================================================================
