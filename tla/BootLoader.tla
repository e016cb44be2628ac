----------------------------- MODULE BootLoader -----------------------------
(***************************************************************************)
(* The direct loader's memory: GRUB's raw memory map is turned into one    *)
(* map of whole pages, a place for the payload is searched in it, and the  *)
(* page tables for the handoff are built behind the payload.               *)
(*                                                                         *)
(* An address of the raw map counts units of a fraction of a page (Page    *)
(* units to a page); page tables count pages.  GRUB's relocator may refuse *)
(* any place it is asked for.                                              *)
(***************************************************************************)
EXTENDS Integers, FiniteSetsExt, SequencesExt

CONSTANTS Page,           \* units of a page
          LowLimit,       \* 1 MiB: never given away
          ManagedLimit,   \* 512 MiB
          Preferred,      \* 16 MiB: tried first
          RawWrap,        \* raw addresses are modulo RawWrap (2^64)
          RawMaps,        \* the maps GRUB may report
          MaxRegions,     \* entries of the normalized map
          PayloadPages,
          TableEntries,   \* pages one table maps (1024)
          IdentityTables, \* tables that map low memory (4)
          BootPages,      \* pages of the bootstrap area (12)
          KernelPage      \* page number of the kernel base

VARIABLES raw, regions, target, directory, tables, bmStage

bmVars == <<raw, regions, target, directory, tables, bmStage>>

(***************************************************************************)
(* The normalized map.                                                     *)
(***************************************************************************)
round_down(a) == (a \div Page) * Page
round_up(a) == round_down(a + Page - 1)
ending(r) == (r.base + r.length) % RawWrap

rounded(r) ==
    LET end == Min({ending(r), ManagedLimit})
    IN  IF r.type = "available"
        THEN [start |-> round_up(r.base), end |-> round_down(end), type |-> r.type]
        ELSE [start |-> round_down(r.base), end |-> Min({round_up(end), ManagedLimit}),
              type |-> r.type]

Wanted(m) == {m[i] : i \in {j \in DOMAIN m : m[j].length > 0 /\ m[j].base < ManagedLimit}}
intervals(m) == {v \in {rounded(r) : r \in Wanted(m)} : v.start < v.end}
points(m) == {0, LowLimit} \cup {v.start : v \in intervals(m)} \cup {v.end : v \in intervals(m)}

interval_priority(t) ==
    CASE t = "reserved" -> 3 [] t = "acpi" -> 2 [] t = "available" -> 1 [] OTHER -> 0

\* The type of a piece between two neighbouring points.
selected(m, start, end) ==
    LET over == {v \in intervals(m) : v.start <= start /\ v.end >= end}
    IN  IF start < LowLimit THEN "reserved"
        ELSE IF over = {} THEN "none"
        ELSE (CHOOSE v \in over : \A w \in over :
                interval_priority(v.type) >= interval_priority(w.type)).type

\* A piece joins the region before it when it continues it.
add_piece(out, piece) ==
    IF piece.type = "none" THEN out
    ELSE IF out # <<>> /\ Last(out).end = piece.start /\ Last(out).type = piece.type
    THEN [out EXCEPT ![Len(out)].end = piece.end]
    ELSE Append(out, piece)

pieces(m) ==
    LET p == SetToSortSeq(points(m), LAMBDA a, b : a < b)
    IN  [i \in 1..(Len(p) - 1) |->
            [start |-> p[i], end |-> p[i + 1], type |-> selected(m, p[i], p[i + 1])]]

normalized(m) == FoldLeft(add_piece, <<>>, pieces(m))

Wraps(m) == \E i \in DOMAIN m : m[i].length > 0 /\ ending(m[i]) < m[i].base

BootMemInit ==
    /\ raw \in RawMaps
    /\ regions = <<>> /\ target = 0
    /\ directory = <<>> /\ tables = <<>>
    /\ bmStage = "normalize"

Normalize ==
    /\ bmStage = "normalize"
    /\ IF Wraps(raw) \/ Len(normalized(raw)) > MaxRegions
       THEN bmStage' = "failed" /\ UNCHANGED regions
       ELSE regions' = normalized(raw) /\ bmStage' = "allocate"
    /\ UNCHANGED <<raw, target, directory, tables>>

(***************************************************************************)
(* The payload and the bootstrap area behind it.                           *)
(***************************************************************************)
TotalSpan == (PayloadPages + BootPages) * Page
Available == {regions[i] : i \in {j \in DOMAIN regions : regions[j].type = "available"}}

\* udl_choose_physical_base: the preferred place, else the end of the last region.
preferred_base == IF \E v \in Available : v.start <= Preferred /\ v.end >= Preferred + TotalSpan
                  THEN {Preferred} ELSE {}

\* udl_allocate_payload: from the end of each region down, page by page.
search_bases ==
    {a \in 0..ManagedLimit :
        /\ a % Page = 0
        /\ \E v \in Available : a >= Max({v.start, LowLimit}) /\ a + TotalSpan <= v.end}

AllocatePayload(refused) ==
    /\ bmStage = "allocate"
    /\ LET open == (preferred_base \cup search_bases) \ refused
       IN  IF open = {}
           THEN bmStage' = "failed" /\ UNCHANGED target
           ELSE /\ target' = IF preferred_base \ refused # {} THEN Preferred ELSE Max(open)
                /\ bmStage' = "tables"
    /\ UNCHANGED <<raw, regions, directory, tables>>

(***************************************************************************)
(* The page tables of the handoff.                                         *)
(***************************************************************************)
PayloadPage == target \div Page
BootstrapPage == PayloadPage + PayloadPages
Bootstrap == BootstrapPage..(BootstrapPage + BootPages - 1)
IdentityFrame(k) == BootstrapPage + 1 + k
HighFrame(k) == BootstrapPage + 1 + IdentityTables + k
ExtraFrame(k) == BootstrapPage + 3 + IdentityTables + k

pde(page) == page \div TableEntries
HighTables == {pde(KernelPage + v) : v \in 0..(PayloadPages - 1)}

extra_pdes == {pde(p) : p \in Bootstrap} \ (0..(IdentityTables - 1))

BuildPageTables ==
    /\ bmStage = "tables"
    /\ LET extra == SetToSortSeq(extra_pdes, LAMBDA a, b : a < b)
           frames == {IdentityFrame(k) : k \in 0..(IdentityTables - 1)}
                     \cup {HighFrame(k) : k \in 0..1} \cup {ExtraFrame(k) : k \in 0..1}
           fits == /\ \A d \in HighTables : d - pde(KernelPage) \in 0..1
                   /\ Len(extra) <= 2
                   /\ IdentityTables + 6 + Len(extra) <= BootPages
       IN  IF ~fits
           THEN bmStage' = "failed" /\ UNCHANGED <<directory, tables>>
           ELSE /\ directory' = [d \in (0..(IdentityTables - 1)) \cup HighTables \cup extra_pdes |->
                        IF d < IdentityTables THEN IdentityFrame(d)
                        ELSE IF d \in HighTables THEN HighFrame(d - pde(KernelPage))
                        ELSE ExtraFrame(CHOOSE k \in 0..1 : extra[k + 1] = d)]
                /\ tables' = [f \in frames |-> [e \in 0..(TableEntries - 1) |->
                        LET d == CHOOSE k \in DOMAIN directory' \cup {-1} :
                                    IF f \in {directory'[x] : x \in DOMAIN directory'}
                                    THEN k # -1 /\ directory'[k] = f ELSE k = -1
                            page == d * TableEntries + e
                        IN  CASE d = -1 -> 0
                              [] d >= 0 /\ d < IdentityTables -> page
                              [] d \in HighTables ->
                                    IF page \in KernelPage..(KernelPage + PayloadPages - 1)
                                    THEN PayloadPage + page - KernelPage ELSE 0
                              [] OTHER -> IF page \in Bootstrap THEN page ELSE 0]]
                /\ bmStage' = "ready"
    /\ UNCHANGED <<raw, regions, target>>

BootMemNext ==
    \/ Normalize
    \/ \E refused \in {{}, {Preferred}, preferred_base \cup {Max(search_bases \cup {0})}} :
          AllocatePayload(refused)
    \/ BuildPageTables

BootMemSpec == BootMemInit /\ [][BootMemNext]_bmVars

(***************************************************************************)
(* Properties.                                                             *)
(***************************************************************************)
\* What a page is, straight from the raw map: reserved or ACPI memory anywhere in
\* it makes it so, and it is available only when one raw region has all of it.
RawRegions == {raw[i] : i \in DOMAIN raw}
PageUnits(u) == round_down(u)..(round_down(u) + Page - 1)
Covers(r, u) == u >= r.base /\ u < ending(r)
PageType(u) ==
    LET touched(t) == \E r \in RawRegions : r.type = t /\ \E x \in PageUnits(u) : Covers(r, x)
    IN  CASE u < LowLimit \/ touched("reserved") -> "reserved"
          [] touched("acpi") -> "acpi"
          [] \E r \in RawRegions : r.type = "available" /\ \A x \in PageUnits(u) : Covers(r, x)
                -> "available"
          [] OTHER -> "none"

\* The normalized map says of every page what the raw map says of it, however the
\* raw regions overlap, and its regions are sorted, apart and as long as possible.
MapIsExact ==
    regions # <<>> =>
        /\ \A u \in 0..(ManagedLimit - 1) :
              LET here == {i \in DOMAIN regions : regions[i].start <= u /\ u < regions[i].end}
              IN  /\ Cardinality(here) <= 1
                  /\ PageType(u) = IF here = {} THEN "none" ELSE regions[Max(here)].type
        /\ \A i \in 1..(Len(regions) - 1) :
              /\ regions[i].end <= regions[i + 1].start
              /\ regions[i].end = regions[i + 1].start => regions[i].type # regions[i + 1].type

\* The payload and the page tables lie in memory no firmware claims.
PayloadInUsableMemory ==
    bmStage \in {"tables", "ready"} =>
        \A u \in target..(target + TotalSpan - 1) : PageType(u) = "available"

Walk(page) == IF pde(page) \in DOMAIN directory
              THEN tables[directory[pde(page)]][page % TableEntries] ELSE 0

\* When paging is turned on, the code that turns it on and its tables stay where
\* they are, low memory too, and the kernel base leads to the payload.
HandoffMapped ==
    bmStage = "ready" =>
        /\ \A p \in Bootstrap \cup (1..(IdentityTables * TableEntries - 1)) : Walk(p) = p
        /\ \A v \in 0..(PayloadPages - 1) : Walk(KernelPage + v) = PayloadPage + v

-----------------------------------------------------------------------------
(***************************************************************************)
(* The direct loader as a GRUB module: the command prepares a context and  *)
(* registers it with GRUB, `boot' hands over to it, another loader command *)
(* unloads it; the transition code turns paging on and jumps.  What the    *)
(* preparation computes is in BootLinker and BootMemory; here every step of *)
(* it succeeds or fails.                                                   *)
(***************************************************************************)
CONSTANTS Stops,       \* diagnostic stops asked for: 0 is none, 13 the kernel
          MaxCommands  \* bound on commands

VARIABLES command,    \* step of the command, 0 when none runs
          stop,       \* the stop of the context in preparation or active
          held,       \* files and buffers the command holds
          context,    \* "none", "preparing", "active"
          relocator,  \* the context has a relocator
          moduleRefs,
          registered, \* GRUB has the callbacks
          bootFailed,
          mask,       \* cleanup mask of the context
          cpu,        \* paging features the processor has now
          cr4,
          paging,
          phase,      \* "grub", a stage of the transition, "kernel"
          stopped,    \* stage at which the machine was held, -1 while it runs
          commands

bootVars == <<command, stop, held, context, relocator, moduleRefs, registered, bootFailed,
              mask, cpu, cr4, paging, phase, stopped, commands>>

Feature == {"PSE", "PAE"}

\* The preparation, in the code's order.
Work == <<"line", "kernelFile", "kernelBytes", "halFile", "halBytes", "kernelClose", "halClose",
          "sections", "images", "exports", "writes", "map", "relocator", "payload", "link",
          "tables", "env">>

CmdInit ==
    /\ command = 0 /\ stop = 0 /\ held = {} /\ context = "none" /\ relocator = FALSE
    /\ moduleRefs = 0 /\ registered = FALSE /\ bootFailed = FALSE
    /\ mask = {} /\ cpu \in SUBSET Feature /\ cr4 = {} /\ paging = FALSE
    /\ phase = "grub" /\ stopped = -1 /\ commands = 0

AtPrompt == command = 0 /\ phase = "grub" /\ stopped = -1

(***************************************************************************)
(* Releasing.                                                              *)
(***************************************************************************)
\* udl_release_context
ReleaseContext ==
    /\ context' = "none" /\ relocator' = FALSE
    /\ moduleRefs' = moduleRefs - 1

FailedRelease == ReleaseContext

\* grub_loader_unset: GRUB calls the unload callback of what is registered.
Unload ==
    /\ AtPrompt /\ registered
    /\ registered' = FALSE
    /\ ReleaseContext
    /\ UNCHANGED <<command, stop, held, bootFailed, mask, cpu, cr4, paging, phase, stopped, commands>>

(***************************************************************************)
(* The command.                                                            *)
(***************************************************************************)
\* udl_diag_confirm_video: a diagnostic needs its banner seen.
VideoConfirmed(s, confirmed) == s # 0 => confirmed

\* The checks before anything is taken, then the old loader is unloaded and the
\* context allocated (`memory').
StartCommand(s, confirmed, supported, memory) ==
    /\ AtPrompt /\ commands < MaxCommands
    /\ VideoConfirmed(s, confirmed)
    /\ commands' = commands + 1
    /\ IF s = 1
       THEN stopped' = 1 /\ stop' = s
            /\ UNCHANGED <<command, held, context, relocator, moduleRefs, registered, bootFailed, mask>>
       ELSE /\ supported
            /\ registered' = FALSE /\ relocator' = FALSE
            /\ bootFailed' = FALSE
            /\ LET others == moduleRefs - (IF registered THEN 1 ELSE 0)
               IN  moduleRefs' = IF memory THEN others + 1 ELSE others
            /\ context' = IF memory THEN "preparing" ELSE "none"
            /\ command' = IF memory THEN 1 ELSE 0
            /\ mask' = cpu /\ stop' = s
            /\ UNCHANGED <<held, stopped>>
    /\ UNCHANGED <<cpu, cr4, paging, phase>>

\* What a completed step leaves held; a file counts as closed even when closing it
\* fails, and the buffers are freed before the last step.
HeldAfter(step) ==
    CASE step = "kernelClose" -> held \ {"kernelFile"}
      [] step = "halClose" -> held \ {"halFile"}
      [] step \in {"images", "map", "relocator", "payload", "link"} -> held
      [] step = "tables" -> {}
      [] step = "env" -> held
      [] OTHER -> held \cup {step}

\* What the failure path gives back.
Freed == {"kernelFile", "halFile", "kernelBytes", "halBytes", "sections", "exports", "writes", "line"}

StepCommand(ok) ==
    /\ command > 0
    /\ LET step == Work[command]
           done == ok \/ (step = "env" /\ stop < 3)
       IN  IF done
           THEN /\ held' = HeldAfter(step)
                /\ relocator' = (relocator \/ step = "relocator")
                /\ UNCHANGED moduleRefs
                /\ IF step = "env"
                   THEN /\ command' = 0 /\ context' = "active" /\ registered' = TRUE
                        /\ stopped' = IF stop = 2 THEN 2 ELSE stopped
                   ELSE command' = command + 1 /\ UNCHANGED <<context, registered, stopped>>
           ELSE /\ held' = held \ Freed /\ command' = 0
                /\ FailedRelease
                /\ UNCHANGED <<registered, stopped>>
    /\ UNCHANGED <<stop, bootFailed, mask, cpu, cr4, paging, phase, commands>>

(***************************************************************************)
(* The handoff.                                                            *)
(***************************************************************************)
ProfileHolds(now) == now = mask

MayHandOff == registered /\ ~bootFailed

Entry == IF stop = 6 THEN "rawGate" ELSE "parameters"

\* udl_boot_callback.  `now' is what the processor reports, `inCr4' what GRUB left.
BootCallback(supported, now, inCr4, prepared) ==
    /\ AtPrompt /\ MayHandOff
    /\ IF stop = 3
       THEN stopped' = 3 /\ UNCHANGED <<bootFailed, cpu, cr4, phase>>
       ELSE /\ cpu' = now /\ cr4' = inCr4
            /\ IF ~supported \/ ~ProfileHolds(now)
               THEN bootFailed' = TRUE /\ UNCHANGED <<phase, stopped>>
               ELSE IF stop = 4
               THEN stopped' = 4 /\ UNCHANGED <<bootFailed, phase>>
               ELSE IF ~prepared
               THEN bootFailed' = TRUE /\ UNCHANGED <<phase, stopped>>
               ELSE IF stop = 5
               THEN stopped' = 5 /\ UNCHANGED <<bootFailed, phase>>
               ELSE phase' = Entry /\ UNCHANGED <<bootFailed, stopped>>
    /\ UNCHANGED <<command, stop, held, context, relocator, moduleRefs, registered, mask,
                   paging, commands>>

Stages == <<"parameters", "segments", "cleanup", "paging", "frame", "jump", "kernel">>
Number(stage) == 6 + (CHOOSE i \in DOMAIN Stages : Stages[i] = stage)

\* One stage of the transition, and the check for a stop at its end.
Transition ==
    /\ phase \in {Stages[i] : i \in 1..6} /\ stopped = -1
    /\ cr4' = IF phase = "cleanup" THEN cr4 \ mask ELSE cr4
    /\ paging' = (paging \/ phase = "paging")
    /\ IF stop = Number(phase)
       THEN stopped' = stop /\ UNCHANGED phase
       ELSE phase' = Stages[Number(phase) - 5] /\ UNCHANGED stopped
    /\ UNCHANGED <<command, stop, held, context, relocator, moduleRefs, registered, bootFailed,
                   mask, cpu, commands>>

RawGate ==
    /\ phase = "rawGate" /\ stopped = -1
    /\ stopped' = 6
    /\ UNCHANGED <<command, stop, held, context, relocator, moduleRefs, registered, bootFailed,
                   mask, cpu, cr4, paging, phase, commands>>

CmdNext ==
    \/ Unload
    \/ \E s \in Stops, confirmed, supported, memory \in BOOLEAN :
          StartCommand(s, confirmed, supported, memory)
    \/ \E ok \in BOOLEAN : StepCommand(ok)
    \/ \E now \in SUBSET Feature : \E inCr4 \in SUBSET now, supported, prepared \in BOOLEAN :
          BootCallback(supported, now, inCr4, prepared)
    \/ Transition \/ RawGate

CmdSpec == CmdInit /\ [][CmdNext]_bootVars

(***************************************************************************)
(* Properties.                                                             *)
(***************************************************************************)
\* Back at the prompt, whatever failed on the way, no file or buffer is left, and
\* the module is referenced exactly while a context is registered with GRUB.
NothingLeftBehind ==
    AtPrompt =>
        /\ held = {}
        /\ context = IF registered THEN "active" ELSE "none"
        /\ moduleRefs = IF registered THEN 1 ELSE 0
        /\ relocator = registered

\* Paging starts with plain page tables: no feature the processor has leaves its
\* bit in CR4 when the tables are turned on.
PlainPagingOnly == paging => cr4 = {}

\* The machine halts at the stop that was asked for and at no other, and the
\* kernel runs only when none was asked for on the way to it.
StopsWhereAsked ==
    /\ stopped # -1 => stopped = stop
    /\ phase = "kernel" => stop \in {0, 13}

\* A context whose handoff failed never gets to run.
FailedHandoffIsFinal == phase # "grub" => ~bootFailed

(* The kernel is entered with an exact memory map, from memory that is     *)
(* usable and mapped, or the loader command leaves no trace.               *)
HandoffSound ==
    /\ MapIsExact /\ PayloadInUsableMemory /\ HandoffMapped
    /\ NothingLeftBehind /\ PlainPagingOnly /\ StopsWhereAsked
    /\ FailedHandoffIsFinal
=============================================================================
