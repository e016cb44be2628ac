-------------------------------- MODULE V86 ---------------------------------
(***************************************************************************)
(* Calls into the real-mode BIOS (v86.cpp and the interrupt stubs of       *)
(* intr.cpp): HAL_x86_ExecBiosInt runs a routine in virtual-8086 mode; the *)
(* monitor emulates the instructions that trap, keeps a virtual interrupt  *)
(* flag for the BIOS, and reflects hardware interrupts to the BIOS         *)
(* handlers, or holds one while the virtual flag is clear.                 *)
(*                                                                         *)
(* The BIOS itself is external: in any order it traps on CLI, STI, PUSHF,  *)
(* POPF, INT and IRET, keeps its stack balanced, and a handler of a        *)
(* hardware interrupt tells the controller before it returns.  So is the   *)
(* controller: it raises a line only while none of the same or a higher    *)
(* priority is in service.                                                 *)
(***************************************************************************)
EXTENDS Integers, SequencesExt

CONSTANTS
    Line,        \* interrupt lines open during a call
    MaxFrames,   \* words the BIOS keeps on its stack, in frames
    MaxCalls     \* calls of HAL_x86_ExecBiosInt

VARIABLES
    in_call,     \* a routine is running
    initial_if,  \* the interrupt flag the caller passed
    virtual_if,  \* g_v86_virtual_if
    real_if,     \* IF of the routine's real flags
    pending_irq, \* g_v86_pending_irq
    frames,      \* the routine's stack: return frames and pushed flags
    in_service,  \* lines the controller has raised and not seen ended
    calls

v86Vars == <<in_call, initial_if, virtual_if, real_if, pending_irq, frames, in_service, calls>>

None == -1

V86Init ==
    /\ in_call = FALSE /\ initial_if = FALSE /\ virtual_if = FALSE /\ real_if = FALSE
    /\ pending_irq = None /\ frames = <<>> /\ in_service = {} /\ calls = 0

Frame(kind, line, flag) == [kind |-> kind, line |-> line, flag |-> flag, told |-> FALSE]
Top == Last(frames)

-----------------------------------------------------------------------------
(* HAL_x86_ExecBiosInt: patch INT n; HLT, take the caller's flags, open    *)
(* the disk lines and enter.  The first instruction traps as INT n.        *)
ExecBiosInt(flag) ==
    /\ ~in_call /\ calls < MaxCalls
    /\ in_call' = TRUE /\ calls' = calls + 1
    /\ initial_if' = flag /\ virtual_if' = FALSE /\ real_if' = TRUE
    /\ pending_irq' = None
    /\ frames' = <<Frame("int", None, flag)>>
    /\ UNCHANGED in_service

(* The flags the BIOS sees on its stack carry the virtual flag.            *)
SavedFlag == virtual_if

(* reflect_irq: a return frame, the virtual flag clear, the real one set.  *)
reflect_irq(irq) ==
    /\ frames' = Append(frames, Frame("irq", irq, SavedFlag))
    /\ virtual_if' = FALSE /\ real_if' = TRUE

(* deliver_pending_irq, once the virtual flag is f and the stack is s.     *)
deliver_pending_irq(f, s) ==
    IF f /\ pending_irq # None
    THEN /\ frames' = Append(s, Frame("irq", pending_irq, f))
         /\ virtual_if' = FALSE /\ real_if' = TRUE
         /\ pending_irq' = None
    ELSE /\ frames' = s
         /\ virtual_if' = f /\ real_if' = TRUE
         /\ UNCHANGED pending_irq

-----------------------------------------------------------------------------
(* v86_gp_dispatch, one action per emulated instruction.                   *)
Running == in_call /\ frames # <<>>

Cli ==
    /\ Running
    /\ virtual_if' = FALSE
    /\ UNCHANGED <<in_call, initial_if, real_if, pending_irq, frames, in_service, calls>>

Sti ==
    /\ Running
    /\ deliver_pending_irq(TRUE, frames)
    /\ UNCHANGED <<in_call, initial_if, in_service, calls>>

Pushf ==
    /\ Running /\ Len(frames) < MaxFrames
    /\ frames' = Append(frames, Frame("flags", None, SavedFlag))
    /\ UNCHANGED <<in_call, initial_if, virtual_if, real_if, pending_irq, in_service, calls>>

Popf ==
    /\ Running /\ Top.kind = "flags"
    /\ deliver_pending_irq(Top.flag, Front(frames))
    /\ UNCHANGED <<in_call, initial_if, in_service, calls>>

IntN ==
    /\ Running /\ Len(frames) < MaxFrames
    /\ frames' = Append(frames, Frame("int", None, SavedFlag))
    /\ virtual_if' = FALSE
    /\ UNCHANGED <<in_call, initial_if, real_if, pending_irq, in_service, calls>>

ReturnedFlag(f) == f

Iret ==
    /\ Running /\ Top.kind \in {"int", "irq"}
    /\ Top.kind = "irq" => Top.told
    /\ deliver_pending_irq(ReturnedFlag(Top.flag), Front(frames))
    /\ UNCHANGED <<in_call, initial_if, in_service, calls>>

(* The handler's OUT to the controller ends the service of its line.       *)
EndOfInterrupt ==
    /\ Running /\ Top.kind = "irq" /\ ~Top.told
    /\ frames' = [frames EXCEPT ![Len(frames)].told = TRUE]
    /\ in_service' = in_service \ {Top.line}
    /\ UNCHANGED <<in_call, initial_if, virtual_if, real_if, pending_irq, calls>>

HeldForHalt == pending_irq # None

(* HLT: the held interrupt first, its IRET comes back here ...             *)
HltReflects ==
    /\ in_call /\ frames = <<>> /\ HeldForHalt
    /\ reflect_irq(pending_irq)
    /\ pending_irq' = None
    /\ UNCHANGED <<in_call, initial_if, in_service, calls>>

(* ... then complete_v86_session.                                          *)
HltCompletes ==
    /\ in_call /\ frames = <<>> /\ ~HeldForHalt
    /\ in_call' = FALSE
    /\ pending_irq' = None /\ real_if' = FALSE /\ virtual_if' = FALSE /\ initial_if' = FALSE
    /\ UNCHANGED <<frames, in_service, calls>>

-----------------------------------------------------------------------------
(* Faulty variant: the interrupt goes to the BIOS whatever its flag says.  *)
MayReflectAlways == TRUE

MayReflect == virtual_if

(* The second controller hangs on input 2 of the first (remap_pic).        *)
Input(l) == IF l >= 8 THEN 2 ELSE l

(* v86_irq_dispatch: the controller raises a line and the stub enters.     *)
TakeIrq(irq) ==
    /\ in_call /\ real_if /\ Len(frames) < MaxFrames
    /\ \A l \in in_service : Input(irq) < Input(l)
    /\ in_service' = in_service \union {irq}
    /\ IF MayReflect
       THEN reflect_irq(irq) /\ UNCHANGED pending_irq
       ELSE /\ pending_irq' = irq /\ real_if' = FALSE
            /\ UNCHANGED <<frames, virtual_if>>
    /\ UNCHANGED <<in_call, initial_if, calls>>

V86Next ==
    \/ \E f \in BOOLEAN : ExecBiosInt(f)
    \/ Cli \/ Sti \/ Pushf \/ Popf \/ IntN \/ Iret \/ EndOfInterrupt
    \/ HltReflects \/ HltCompletes
    \/ \E l \in Line : TakeIrq(l)

V86Spec == V86Init /\ [][V86Next]_v86Vars

-----------------------------------------------------------------------------
(* When a call returns, every interrupt raised during it was handled by    *)
(* the BIOS: no line is left in service, which would keep it and the lower *)
(* ones silent for the kernel (the HLT case of v86_gp_dispatch).           *)
NothingLeftInService == ~in_call => in_service = {}

(* The BIOS is interrupted only where its own flag allows it, or when the  *)
(* routine is over and only the HLT is left (v86_irq_dispatch,             *)
(* deliver_pending_irq).                                                   *)
InterruptedOnlyWhenAllowed ==
    \A l \in Line :
          Len(frames') > 0 /\ frames' # frames /\ Last(frames') = Frame("irq", l, Last(frames').flag)
            => Last(frames').flag \/ Len(frames') = 1

(* The routine ends with the interrupt flag it was called with, whatever   *)
(* was nested in it (INT, IRET, reflect_irq): the virtual flag never mixes *)
(* with the real one, which the monitor keeps set.                         *)
FlagComesBack == in_call /\ frames = <<>> => virtual_if = initial_if

(* An interrupt the monitor holds for the BIOS is kept until the BIOS      *)
(* handles it: another one does not take its place.                        *)
HeldInterruptKept ==
    [][pending_irq # None /\ pending_irq' # None => pending_irq' = pending_irq]_v86Vars

-----------------------------------------------------------------------------
(***************************************************************************)
(* Reading the boot disk through BIOS interrupt 13h (bootdev.cpp): probe   *)
(* for extensions or a geometry, then read in pieces through a scratch     *)
(* buffer, by block address or by cylinder, head and sector.               *)
(*                                                                         *)
(* The content of a sector is its number.  The BIOS is external: it reads  *)
(* the registers back into a place on the disk, may fail any call, and     *)
(* cannot read across the end of a track.                                  *)
(***************************************************************************)
CONSTANTS
    Geometry,            \* drives: cylinders, heads, sectors per track
    Request,             \* what is asked: first sector, count, buffer size
    kMaxSectorsPerCall,
    MaxLba               \* UINT32_MAX, scaled

VARIABLES
    drive,      \* the drive's geometry, and whether it has extensions
    request,
    reading,    \* "idle", "probed", "reading", "true" or "false"
    got,        \* the caller's buffer, one entry per sector
    scratch     \* the transfer buffer after the last call

diskVars == <<drive, request, reading, got, scratch>>

DiskInit ==
    /\ drive \in [g : Geometry, edd : BOOLEAN]
    /\ request \in Request
    /\ reading = "idle" /\ got = <<>> /\ scratch = <<>>

-----------------------------------------------------------------------------
(* Cylinder, head and sector as they travel in CX and DX: ten bits of      *)
(* cylinder, the upper two above the six of the sector.                    *)
Chs(cylinder, head, sector) ==
    [cx |-> (cylinder % 256) * 256 + (((cylinder \div 4) % 256) \div 64) * 64 + sector,
     dx |-> head * 256 + 128]

(* The drive's own reading of the registers (external).                    *)
Place(g, regs) ==
    LET cl == regs.cx % 256
        cylinder == (regs.cx \div 256) + (cl \div 64) * 256
    IN  (cylinder * g.heads + regs.dx \div 256) * g.sectors + (cl % 64) - 1

(* The answer to AH=08h: last cylinder and last head, sectors per track.   *)
Answer(g) ==
    [cx |-> ((g.cylinders - 1) % 256) * 256 + ((g.cylinders - 1) \div 256) * 64 + g.sectors,
     dx |-> (g.heads - 1) * 256]

(* probe_geometry.                                                         *)
probe_geometry(answer) ==
    LET cl == answer.cx % 256
    IN  [cylinders |-> (answer.cx \div 256) + (cl \div 64) * 256 + 1,
         heads |-> answer.dx \div 256 + 1,
         sectors |-> cl % 64]

Probed == probe_geometry(Answer(drive.g))
Size(g) == g.cylinders * g.heads * g.sectors
LastLba == request.lba + request.count - 1

FitsCapacity(end, capacity) == end < capacity

(* HAL_BOOTDEV_ReadSectors up to the loop.                                 *)
ReadSectors ==
    /\ reading = "idle"
    /\ reading' = IF request.count = 0 THEN "true"
                  ELSE IF \/ request.room < request.count
                          \/ LastLba > MaxLba
                          \/ ~drive.edd /\ Probed.sectors = 0
                          \/ ~drive.edd /\ ~FitsCapacity(LastLba, Size(Probed))
                       THEN "false" ELSE "reading"
    /\ UNCHANGED <<drive, request, got, scratch>>

ProbeFails ==
    /\ reading = "idle" /\ ~drive.edd /\ request.count > 0
    /\ reading' = "false"
    /\ UNCHANGED <<drive, request, got, scratch>>

Remaining == request.count - Len(got)
Current == request.lba + Len(got)
Least(a, b) == IF a < b THEN a ELSE b

(* The size of the next piece: one call's worth, and by geometry no        *)
(* further than the track.                                                 *)
Chunk ==
    LET most == Least(Remaining, kMaxSectorsPerCall)
    IN  IF drive.edd THEN most
        ELSE Least(most, Probed.sectors - (Current % Probed.sectors))

(* read_chs_chunk: where the head goes for the current sector.             *)
Registers ==
    Chs(Current \div (Probed.sectors * Probed.heads),
        (Current \div Probed.sectors) % Probed.heads,
        (Current % Probed.sectors) + 1)

Refused ==
    LET sector == (Current % Probed.sectors) + 1
    IN  ~drive.edd /\ (\/ Current \div (Probed.sectors * Probed.heads) >= Probed.cylinders
                       \/ Chunk > Probed.sectors - sector + 1)

(* What a successful call leaves in the scratch buffer.  By geometry the   *)
(* drive stops at the end of the track; the rest is what was there before. *)
Transferred ==
    LET first == IF drive.edd THEN Current ELSE Place(drive.g, Registers)
        whole == [i \in 1 .. Chunk |-> first + i - 1]
        ofTrack == drive.g.sectors - (first % drive.g.sectors)
    IN  IF drive.edd \/ Chunk <= ofTrack THEN whole
        ELSE [i \in 1 .. Chunk |-> IF i <= ofTrack THEN whole[i]
                                   ELSE IF i \in DOMAIN scratch THEN scratch[i] ELSE -1]

ReadChunk ==
    /\ reading = "reading" /\ Remaining > 0
    /\ \/ Refused /\ reading' = "false" /\ UNCHANGED <<got, scratch>>
       \/ ~Refused /\ scratch' = Transferred /\ got' = got \o Transferred
          /\ UNCHANGED reading
       \/ ~Refused /\ reading' = "false" /\ UNCHANGED <<got, scratch>>
    /\ UNCHANGED <<drive, request>>

ReadEnds ==
    /\ reading = "reading" /\ Remaining = 0
    /\ reading' = "true"
    /\ UNCHANGED <<drive, request, got, scratch>>

DiskNext == ReadSectors \/ ProbeFails \/ ReadChunk \/ ReadEnds

DiskSpec == DiskInit /\ [][DiskNext]_diskVars

-----------------------------------------------------------------------------
(* A read that succeeds delivers exactly the sectors asked for, in order,  *)
(* across tracks, cylinders beyond 255 and call limits                     *)
(* (HAL_BOOTDEV_ReadSectors, read_chs_chunk).                              *)
SectorsInOrder ==
    reading = "true" => got = [i \in 1 .. request.count |-> request.lba + i - 1]

(* A whole request is refused up front, or every piece of it is accepted   *)
(* by read_chs_chunk's own checks.                                         *)
PiecesAreLegal == reading = "reading" /\ Remaining > 0 => ~Refused

(* A BIOS disk read returns the sectors that were asked for in order, and  *)
(* the monitor below it leaves interrupts as it found them.                *)
BiosServicesExact ==
    /\ SectorsInOrder /\ PiecesAreLegal /\ NothingLeftInService
    /\ FlagComesBack
=============================================================================
