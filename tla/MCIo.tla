-------------------------------- MODULE MCIo --------------------------------
(* Files and devices: the ATA channel, partitions and FAT geometry,        *)
(* reading and changing a FAT volume, mounts and open files, streams, the  *)
(* handles of processes; the ISA bus, the i8042 controller, the HID input  *)
(* path behind it, the event ring and a terminal's line discipline.  They  *)
(* share no variable: focus says which of them, and for HID, the terminal  *)
(* and the bus which side of it, a behaviour exercises.                    *)
EXTENDS Vfs, Processes, Fat, Disks, Input, I8042, HidInput, IsaBus

VARIABLE focus

ioMcVars ==
    <<vfsVars, ioVars, procVars, fatVars, readVars, layoutVars, ataVars, inputVars, ttyVars,
      controllerVars, pumpVars, hidVars, isaVars, dmaVars, focus>>

-----------------------------------------------------------------------------
(* Two volumes for one mount point; the boot volume holds a directory.     *)
MCPaths == {<<"m">>, <<"m", "f">>}
MCMountPoints == {<<>>}
MCTreeOf == [v \in Volume |-> IF v = "v1" THEN {<<>>, <<"m">>, <<"m", "f">>} ELSE {<<>>}]

-----------------------------------------------------------------------------
(* Disks of 16 sectors: MBR tables with overlapping, protective and        *)
(* overlong entries, GPT arrays with unused, reversed and overlong ones,   *)
(* and FAT boot records on both sides of the cluster counts at which the   *)
(* type changes.                                                           *)
MCEntry(type, start, sectors) == [type |-> type, start |-> start, sectors |-> sectors]
MCUnused == MCEntry(0, 0, 0)
MCGpt(used, first, last) == [used |-> used, first |-> first, last |-> last]
MCBpb ==
    [sig |-> TRUE, exfat |-> FALSE, bps |-> 512, spc |-> 1, reserved |-> 2, numFATs |-> 2,
     rootEntries |-> 17, total16 |-> 0, total32 |-> 4100, fatSize16 |-> 16, fatSize32 |-> 0,
     rootCluster |-> 2, serial |-> 7, mirrorOff |-> FALSE, version |-> 0, fsInfo |-> 1]
MCBpb32 == [MCBpb EXCEPT !.fatSize16 = 0, !.fatSize32 = 512, !.rootEntries = 0]
MCRecords ==
    {MCBpb, [MCBpb EXCEPT !.exfat = TRUE], [MCBpb EXCEPT !.sig = FALSE], [MCBpb EXCEPT !.spc = 3],
     [MCBpb EXCEPT !.fatSize16 = 12], [MCBpb EXCEPT !.serial = 8],
     [MCBpb EXCEPT !.total32 = 4000, !.fatSize16 = 8], [MCBpb EXCEPT !.bps = 1024, !.fatSize16 = 8],
     [MCBpb EXCEPT !.fatSize16 = 256, !.total32 = 66038]}
    \cup {[MCBpb EXCEPT !.total32 = n] : n \in {4113, 4122, 4123, 4130, 4132}}
    \cup {[MCBpb32 EXCEPT !.total32 = n] : n \in {66551, 66561, 66562}}
MCTables ==
    {<<a, b, MCUnused, MCUnused>> :
        a \in {MCUnused, MCEntry(6, 1, 4), MCEntry(6, 2, 6)},
        b \in {MCUnused, MCEntry(6, 5, 3), MCEntry(6, 1, 3), MCEntry(238, 1, 7), MCEntry(6, 7, 9)}}
MCGptEntries ==
    {<<a, b>> : a \in {MCGpt(TRUE, 2, 3), MCGpt(FALSE, 0, 0), MCGpt(TRUE, 3, 2)},
                b \in {MCGpt(TRUE, 4, 5), MCGpt(TRUE, 15, 15), MCGpt(TRUE, 13, 20)}}
MCBlankDisk ==
    [sig |-> TRUE, table |-> <<MCUnused, MCUnused, MCUnused, MCUnused>>, lba1 |-> "blank", num |-> 0,
     size |-> 128, entries |-> <<>>, sectors |-> 16, record |-> [s \in 0..15 |-> MCBpb]]
MCDisks ==
    {[MCBlankDisk EXCEPT !.table = t, !.record[1] = r] : t \in MCTables, r \in MCRecords}
    \cup {[MCBlankDisk EXCEPT !.sig = FALSE, !.table = t] : t \in MCTables}
    \cup {[MCBlankDisk EXCEPT !.lba1 = "gpt", !.entries = e, !.num = n, !.size = z] :
             e \in MCGptEntries, n \in {1, 2}, z \in {64, 128, 200}}

-----------------------------------------------------------------------------
(* A file of three clusters and one in a directory, chains that end, run   *)
(* on, loop or are cut, and changes made to them while they are read.      *)
MCDirEntry(name, kind, start, size) == [name |-> name, kind |-> kind, start |-> start, size |-> size]
MCEndEntry == MCDirEntry("", "end", 0, 0)
MCOpenFile == MCDirEntry("K", "file", 2, 5)
MCDirectory ==
    0 :> <<MCDirEntry("K", "deleted", 3, 1), MCOpenFile, MCDirEntry("D", "dir", 6, 0), MCEndEntry,
           MCDirEntry("X", "file", 2, 1)>>
    @@ 6 :> <<MCDirEntry("F", "file", 3, 3), MCEndEntry>>
MCBootPaths == {<<"K">>, <<"D", "F">>, <<"X">>, <<"F", "K">>}
MCInitialFat == {[c \in 0..6 |-> CASE c = 2 -> 3 [] c = 3 -> x [] OTHER -> 7] : x \in {4, 7, 0, 2}}
MCRewire == {<<3, 5>>, <<3, 4>>, <<3, 7>>, <<2, 0>>, <<4, 7>>}
MCFailAt == {-1, 1, 2}

(* Requests of the ATA layer: inside the disk and across its end.          *)
MCExtents == {<<0, 1>>, <<1, 1>>, <<1, 4>>}

-----------------------------------------------------------------------------
(* KE_INPUT_WaitEvent takes one event, InputRead fills its buffer.         *)
MCBuffer == [r \in Reader |-> IF r = "r1" THEN 1 ELSE 2]

(* Terminals in full, silent and raw mode.                                 *)
MCEchoing == {"ECHO", "CANONICAL", "CR_TO_NL", "NL_TO_CRNL"}
MCSilent == {"ECHO_NL", "CANONICAL"}
MCFlags == {MCEchoing, MCSilent, {}}
MCTyped == {<<"x">>, <<"bs">>, <<"r">>, <<"kill">>, <<"eof">>}
MCOutput == {<<"n">>}

(* Bytes no key sends, motions up to and over nine bits, and joysticks     *)
(* with axes at rest, at their ends, over the calibrated range and absent. *)
MCStrays == {<<250>>, <<224, 42>>}
MCMotion(x, y, b, w) == [dx |-> x, dy |-> y, buttons |-> b, wheel |-> w]
MCMotions ==
    {MCMotion(3, -5, 0, 0), MCMotion(200, -130, 5, 0), MCMotion(-128, 127, 1, -1),
     MCMotion(300, 0, 2, 0), MCMotion(8, -1, 0, 0), MCMotion(0, 255, 24, -8),
     MCMotion(-256, -256, 7, 7)}
MCStick(a, b, c, d, pressed) == [ticks |-> <<a, b, c, d>>, buttons |-> pressed]
MCSticks ==
    {MCStick(0, 0, 0, 0, {}), MCStick(1, 500, 0, 0, {1}), MCStick(999, 1000, 3, 0, {2, 4}),
     MCStick(1200, 777, 1000, 2, {}), MCStick(1500, 1, 600, 1500, {3})}

(* Cards that differ in every bit, in the last one and in the middle one;  *)
(* buffers that end at, cross and fill a DMA segment of 16 bytes.          *)
MCSerial == [c1 |-> <<1, 0, 1>>, c2 |-> <<0, 1, 1>>, c3 |-> <<1, 0, 0>>, c4 |-> <<1, 1, 0>>]
MCDecks == {D \in SUBSET DOMAIN MCSerial : Cardinality(D) <= 3}
MCAtaChannel == <<"1F0", "170">>
MCBuffers == [base : {0, 1, 2, 6, 14, 15, 16, 28, 30}, size : {1, 2, 3, 4, 15, 16, 18}]

-----------------------------------------------------------------------------
OneOf(S) == CHOOSE x \in S : TRUE

(* Every component but the one in focus starts from one input; the one in  *)
(* focus from any.                                                         *)
OtherInits ==
    /\ IF focus = "layout" THEN TRUE ELSE disk = OneOf(DiskImage) /\ LayoutInit
    /\ IF focus = "read" THEN TRUE ELSE table = OneOf(InitialFat) /\ ReadInit
    /\ IF focus = "controller" THEN TRUE
       ELSE /\ ControllerInit
            /\ mouse.kind = OneOf(MouseKinds) /\ ~mouse.reporting
            /\ ~hw.dead /\ ~keyboard.dead /\ ~mouse.dead
    /\ IF focus = "isa" THEN TRUE
       ELSE cards = [c \in {} |-> TRUE] /\ ataPresent = {} /\ IsaInit
    /\ IF focus = "dma" THEN TRUE
       ELSE channel = OneOf(Channels) /\ buffer = OneOf(Buffers) /\ autoInit = FALSE /\ DmaInit

IoMcInit ==
    /\ focus \in {"vfs", "process", "fat", "layout", "read", "ata", "streams", "input", "gamepad",
                  "echo", "line", "controller", "pump", "keyboard", "aux", "pad", "isa", "dma"}
    /\ VfsInit /\ IoInit /\ ProcInit /\ FatInit /\ AtaInit /\ InputInit /\ PumpInit
    /\ TtyInit /\ tty.flags = IF focus = "echo" THEN MCEchoing ELSE MCSilent
    /\ HidInit /\ (focus # "aux" => aux.mode = "Standard")
    /\ OtherInits
    /\ CASE focus = "layout" -> LayoutInit
         [] focus = "read" -> ReadInit
         [] focus = "controller" -> ControllerInit
         [] focus = "isa" -> IsaInit
         [] focus = "dma" -> DmaInit
         [] OTHER -> TRUE

IoMcNext ==
    /\ UNCHANGED focus
    /\ IF focus = "vfs" THEN VfsNext ELSE UNCHANGED vfsVars
    /\ IF focus = "streams" THEN IoNext ELSE UNCHANGED ioVars
    /\ IF focus = "process" THEN ProcNext ELSE UNCHANGED procVars
    /\ IF focus = "fat" THEN FatNext ELSE UNCHANGED fatVars
    /\ IF focus = "read" THEN ReadNext ELSE UNCHANGED readVars
    /\ IF focus = "layout" THEN LayoutNext ELSE UNCHANGED layoutVars
    /\ IF focus = "ata" THEN AtaNext ELSE UNCHANGED ataVars
    /\ CASE focus = "input" -> EventNext
         [] focus = "gamepad" -> GamepadNext
         [] OTHER -> UNCHANGED inputVars
    /\ CASE focus = "echo" -> EchoNext [] focus = "line" -> LineNext [] OTHER -> UNCHANGED ttyVars
    /\ IF focus = "controller" THEN ControllerNext ELSE UNCHANGED controllerVars
    /\ IF focus = "pump" THEN PumpNext ELSE UNCHANGED pumpVars
    /\ CASE focus = "keyboard" -> KeyboardNext
         [] focus = "aux" -> AuxNext
         [] focus = "pad" -> PadNext
         [] OTHER -> UNCHANGED hidVars
    /\ IF focus = "isa" THEN IsaNext ELSE UNCHANGED isaVars
    /\ IF focus = "dma" THEN DmaNext ELSE UNCHANGED dmaVars

IoMcSpec == IoMcInit /\ [][IoMcNext]_ioMcVars

(* The bytes of a file reach the disk and come back: file system and disks *)
(* (looked at only where they change).                                     *)
StorageSound ==
    focus \in {"fat", "read", "layout", "ata"} => FatConsistent /\ SectorsAddressed

(* Folding motion into a full ring and editing a line keep what was moved  *)
(* and typed.                                                              *)
InputExact == CoalescingKeepsTheInput /\ LineDelivered

(* Devices are set up as their drivers believe, and read right.            *)
DevicesSound == ControllerSettled /\ InputDecoded /\ BusSound

(* The behaviours of one component alone.                                  *)
EventRingSpec == focus = "input" /\ IoMcSpec
PumpAloneSpec == focus = "pump" /\ IoMcSpec

(* A behaviour only changes the component in focus: states that agree on   *)
(* it are one state.                                                       *)
InFocus ==
    CASE focus = "vfs" -> <<focus, vfsVars>>
      [] focus = "streams" -> <<focus, ioVars>>
      [] focus = "process" -> <<focus, procVars>>
      [] focus = "fat" -> <<focus, fatVars>>
      [] focus = "read" -> <<focus, readVars>>
      [] focus = "layout" -> <<focus, layoutVars>>
      [] focus = "ata" -> <<focus, ataVars>>
      [] focus \in {"input", "gamepad"} -> <<focus, inputVars>>
      [] focus \in {"echo", "line"} -> <<focus, ttyVars>>
      [] focus = "controller" -> <<focus, controllerVars>>
      [] focus = "pump" -> <<focus, pumpVars>>
      [] focus \in {"keyboard", "aux", "pad"} -> <<focus, hidVars>>
      [] focus = "isa" -> <<focus, isaVars>>
      [] OTHER -> <<focus, dmaVars>>
=============================================================================
