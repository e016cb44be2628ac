----------------------------- MODULE BootLinker -----------------------------
(***************************************************************************)
(* The direct loader's linker: it opens the kernel and the HAL (statically *)
(* linked ELF files that kept their relocations), lays them out one behind *)
(* the other at the kernel base, and moves the HAL by adjusting the words  *)
(* the static linker had already computed.                                 *)
(*                                                                         *)
(* An address counts 32-bit words.  A file is a record: `flaw' stands for  *)
(* everything that makes the tables of the file unreadable or unsupported; *)
(* segments, sections, symbols, relocations and the table of offsets (GOT) *)
(* are modelled.  A symbol's section is 0 (undefined), AbsSection or an    *)
(* index; `sym' of a relocation is 0 for the null symbol.                  *)
(***************************************************************************)
EXTENDS Integers, FiniteSetsExt, TLC, SequencesExt

CONSTANTS KernelBase, HalLinkBase, VirtualLimit,
          LinkPage,      \* words of a page
          StackWords,    \* size of the stack
          BootInfoSize,
          Wrap,          \* words are modulo Wrap (2^32)
          MaxExports,
          KernelFiles, HalFiles  \* the files, before the static linker's words

VARIABLES file,    \* "kernel", "hal" -> file
          stage,   \* how far the command came
          bias,    \* image -> run-time base minus linked base
          exports, \* name -> run-time address
          memory,  \* run-time address -> word
          writes,  \* sites this image's relocations have written
          next     \* next relocation of the image being linked

linkVars == <<file, stage, bias, exports, memory, writes, next>>

Images == {"kernel", "hal"}
AbsSection == 99
NoGot == 0
LinkedBase(i) == IF i = "kernel" THEN KernelBase ELSE HalLinkBase

(***************************************************************************)
(* Opening a file.                                                         *)
(***************************************************************************)
Segs(f) == {f.segments[k] : k \in DOMAIN f.segments}
Ends(s) == s.at + s.mem
LoadedSegs(f) == {s \in Segs(f) : s.mem > 0}
Span(f) == Max({Ends(s) : s \in LoadedSegs(f)}) - Min({s.at : s \in LoadedSegs(f)})

range_in_segment(f, at, n) == \E s \in LoadedSegs(f) : at >= s.at /\ at + n <= Ends(s)

\* The word of a segment: from the file, or zero beyond its file part.
segment_word(s, at) == IF at - s.at < Len(s.words) THEN s.words[at - s.at + 1] ELSE 0

check_segment_overlaps(f) ==
    \A a, b \in LoadedSegs(f) :
        \A at \in (a.at..(Ends(a) - 1)) \cap (b.at..(Ends(b) - 1)) :
            segment_word(a, at) = segment_word(b, at)

segments_ok(f, base) ==
    /\ \A s \in Segs(f) : Len(s.words) <= s.mem /\ Ends(s) < Wrap
    /\ LoadedSegs(f) # {}
    /\ Min({s.at : s \in LoadedSegs(f)}) = base
    /\ Max({Ends(s) : s \in LoadedSegs(f)}) <= VirtualLimit
    /\ Span(f) <= VirtualLimit - KernelBase

entry_ok(f) == \E s \in LoadedSegs(f) : s.exec /\ f.entry >= s.at /\ f.entry < Ends(s)

sections_loaded(f) ==
    \A k \in DOMAIN f.sections : LET c == f.sections[k] IN
        c.alloc /\ c.size > 0 => range_in_segment(f, c.at, c.size)

symbols_ok(f) ==
    \A k \in DOMAIN f.symbols : LET s == f.symbols[k] IN
        /\ s.section \in {0, AbsSection} \cup DOMAIN f.sections
        /\ s.section \in DOMAIN f.sections /\ f.sections[s.section].alloc /\ s.size > 0
              => range_in_segment(f, s.value, s.size)

section_contains(f, k, at, n) ==
    LET c == f.sections[k]
    IN  c.alloc /\ at >= c.at /\ at + n <= c.at + c.size

relocations_ok(f) ==
    \A k \in DOMAIN f.rels : LET r == f.rels[k] IN
        /\ r.target \in DOMAIN f.sections
        /\ r.sym \in {0} \cup DOMAIN f.symbols
        /\ f.sections[r.target].alloc =>
              section_contains(f, r.target, r.site, 1) /\ range_in_segment(f, r.site, 1)

\* _GLOBAL_OFFSET_TABLE_ lies in the section that holds the GOT.
got_ok(f) == f.got = NoGot \/ section_contains(f, f.gotSection, f.got, 1)

udl_image_open(f, i) ==
    /\ f.flaw = "none"
    /\ segments_ok(f, LinkedBase(i)) /\ check_segment_overlaps(f)
    /\ (i = "kernel" => entry_ok(f))
    /\ sections_loaded(f) /\ symbols_ok(f) /\ relocations_ok(f) /\ got_ok(f)

(***************************************************************************)
(* Layout: kernel, HAL, stack and boot information, one behind the other.  *)
(***************************************************************************)
RoundUp(n) == ((n + LinkPage - 1) \div LinkPage) * LinkPage
kernel_end == RoundUp(KernelBase + Span(file["kernel"]))
hal_end == RoundUp(kernel_end + Span(file["hal"]))
bootinfo_base == hal_end + StackWords
bootinfo_end == RoundUp(bootinfo_base + BootInfoSize)

Fits == kernel_end <= VirtualLimit /\ hal_end <= VirtualLimit /\ bootinfo_end <= VirtualLimit

RuntimeBase(i) == IF i = "kernel" THEN KernelBase ELSE kernel_end

(***************************************************************************)
(* Exports: defined global symbols of both images; the first one counts.   *)
(***************************************************************************)
Exporting(i) ==
    {k \in DOMAIN file[i].symbols :
        LET s == file[i].symbols[k]
        IN  /\ s.global /\ s.section # 0
            /\ (s.section = AbsSection \/ file[i].sections[s.section].alloc)}

NamesOf(i) == {file[i].symbols[k].name : k \in Exporting(i)}

AddressOf(i, name) ==
    LET s == file[i].symbols[Min({k \in Exporting(i) : file[i].symbols[k].name = name})]
    IN  IF s.section = AbsSection THEN s.value ELSE s.value + bias[i]

udl_collect_exports ==
    [n \in NamesOf("kernel") \cup NamesOf("hal") |->
        AddressOf(IF n \in NamesOf("kernel") THEN "kernel" ELSE "hal", n)]

(***************************************************************************)
(* Relocation.                                                             *)
(***************************************************************************)
\* What the symbol adds to a word that was computed for the linked address.
Delta(i, s) == CASE s.section = AbsSection -> 0
                 [] s.section = 0 -> exports[s.name]
                 [] OTHER -> bias[i]

\* A plausible slip: the place moved too, and the distance is not corrected.
RelativeWordUncorrected(i, word, delta) == (word + delta) % Wrap
RelativeWord(i, word, delta) == (word + delta - bias[i]) % Wrap

PatchedWord(i, r, word) ==
    LET delta == IF r.sym = 0 THEN 0 ELSE Delta(i, file[i].symbols[r.sym])
    IN  CASE r.type = "32" -> (word + delta) % Wrap
          [] r.type \in {"PC32", "PLT32", "GOTOFF"} -> RelativeWord(i, word, delta)
          [] r.type = "RELATIVE" -> (word + bias[i]) % Wrap

SymbolRuntime(i, s) == CASE s.section = AbsSection -> s.value
                         [] s.section = 0 -> exports[s.name]
                         [] OTHER -> s.value + bias[i]

\* The GOT slot a GOT32 relocation names: its word is the slot's offset.
GotSite(i, word) == (file[i].got + word) % Wrap

\* Two relocations may write one site only with the same value.
register_write(site, value) == site \in DOMAIN writes => writes[site] = value

RelocationAccepted(i, r) ==
    LET f == file[i]
        s == IF r.sym = 0 THEN [section |-> AbsSection, value |-> 0, size |-> 0, name |-> "", got |-> FALSE]
             ELSE f.symbols[r.sym]
        word == memory[r.site + bias[i]]
    IN  /\ section_contains(f, r.target, r.site, 1)
        /\ r.type = "RELATIVE" => r.sym = 0
        /\ (r.type # "RELATIVE" /\ s.section \notin {0, AbsSection}) =>
              f.sections[s.section].alloc /\ section_contains(f, s.section, s.value, s.size)
        /\ (r.type # "RELATIVE" /\ s.section = 0) => s.name \in DOMAIN exports
        /\ r.type \in {"GOT32", "GOT32X", "GOTPC"} => f.got # NoGot
        /\ r.type = "GOTPC" => r.sym # 0 /\ s.got
        /\ r.type \in {"GOT32", "GOT32X"} =>
              /\ r.sym # 0
              /\ section_contains(f, f.gotSection, GotSite(i, word), 1)
              /\ range_in_segment(f, GotSite(i, word), 1)

\* Where the relocation writes and what; GOTPC and NONE write nothing.
Write(i, r) ==
    LET word == memory[r.site + bias[i]]
    IN  IF r.type \in {"GOT32", "GOT32X"}
        THEN [site |-> GotSite(i, word) + bias[i],
              value |-> SymbolRuntime(i, file[i].symbols[r.sym]) % Wrap]
        ELSE [site |-> r.site + bias[i], value |-> PatchedWord(i, r, word)]

(***************************************************************************)
(* The command's steps.                                                    *)
(***************************************************************************)
\* The word the static linker leaves at a relocation's site: the usual formula
\* with linked addresses.  Undefined symbols count as zero.
LinkerWord(r, S, A, P, got) ==
    CASE r.type = "32" -> (S + A) % Wrap
      [] r.type \in {"PC32", "PLT32"} -> (S + A - P) % Wrap
      [] r.type = "GOTOFF" -> (S + A - got) % Wrap
      [] r.type = "GOTPC" -> (got + A - P) % Wrap
      [] r.type \in {"GOT32", "GOT32X"} -> (r.slot - got) % Wrap
      [] r.type = "RELATIVE" -> (S + A) % Wrap
      [] OTHER -> A

LinkedValue(f, k) == IF k = 0 \/ f.symbols[k].section = 0 THEN 0 ELSE f.symbols[k].value

\* The file as the static linker wrote it.
StaticallyLinked(f) ==
    [f EXCEPT !.segments = [k \in DOMAIN @ |->
        [@[k] EXCEPT !.words = [w \in DOMAIN @ |->
            LET at == f.segments[k].at + w - 1
                here == {n \in DOMAIN f.rels : f.rels[n].site = at}
                slots == {n \in DOMAIN f.rels : f.rels[n].type \in {"GOT32", "GOT32X"}
                                                /\ f.rels[n].slot = at}
            IN  IF here # {}
                THEN LET r == f.rels[Min(here)]
                         base == IF r.type = "RELATIVE" THEN f.segments[1].at
                                 ELSE LinkedValue(f, r.sym)
                     IN  LinkerWord(r, base, @[w], at, f.got)
                ELSE IF slots # {} THEN LinkedValue(f, f.rels[Min(slots)].sym)
                ELSE @[w]]]]]

\* The command starts on a kernel and a HAL file.
LinkStart(k, h) ==
    /\ file = [i \in Images |-> StaticallyLinked(IF i = "kernel" THEN k ELSE h)]
    /\ stage = "open"
    /\ bias = [i \in Images |-> 0]
    /\ exports = <<>> /\ memory = <<>> /\ writes = <<>>
    /\ next = 1

LinkInit == \E k \in KernelFiles, h \in HalFiles : LinkStart(k, h)

Fail == stage' = "failed" /\ UNCHANGED <<file, bias, exports, memory, writes, next>>

Open ==
    /\ stage = "open"
    /\ IF \A i \in Images : udl_image_open(file[i], i)
       THEN stage' = "plan" /\ UNCHANGED <<file, bias, exports, memory, writes, next>>
       ELSE Fail

PlanLayout ==
    /\ stage = "plan"
    /\ IF Fits
       THEN /\ bias' = [i \in Images |-> RuntimeBase(i) - LinkedBase(i)]
            /\ stage' = "exports"
            /\ UNCHANGED <<file, exports, memory, writes, next>>
       ELSE Fail

CollectExports ==
    /\ stage = "exports"
    /\ IF Cardinality(DOMAIN udl_collect_exports) <= MaxExports
       THEN /\ exports' = udl_collect_exports
            /\ stage' = "load"
            /\ UNCHANGED <<file, bias, memory, writes, next>>
       ELSE Fail

\* Segments are copied in file order over zeroed memory.
SegmentAt(f, at) == {s \in LoadedSegs(f) : at >= s.at /\ at < s.at + Len(s.words)}
LoadedWord(f, at) ==
    IF SegmentAt(f, at) = {} THEN 0 ELSE segment_word(CHOOSE s \in SegmentAt(f, at) : TRUE, at)

LoadImages ==
    /\ stage = "load"
    /\ memory' = [a \in UNION {RuntimeBase(i)..(RuntimeBase(i) + Span(file[i]) - 1) : i \in Images} |->
                    LET i == IF a < kernel_end THEN "kernel" ELSE "hal"
                    IN  LoadedWord(file[i], a - bias[i])]
    /\ stage' = "kernel"
    /\ UNCHANGED <<file, bias, exports, writes, next>>

LinkOne(i) ==
    /\ stage = i
    /\ IF next > Len(file[i].rels)
       THEN /\ stage' = IF i = "kernel" THEN "hal" ELSE "linked"
            /\ next' = 1 /\ writes' = <<>>
            /\ UNCHANGED <<file, bias, exports, memory>>
       ELSE LET r == file[i].rels[next]
                silent == r.type \in {"NONE", "GOTPC"} \/ ~file[i].sections[r.target].alloc
            IN  IF r.type # "NONE" /\ file[i].sections[r.target].alloc /\ ~RelocationAccepted(i, r)
                THEN Fail
                ELSE IF silent
                THEN next' = next + 1 /\ UNCHANGED <<file, stage, bias, exports, memory, writes>>
                ELSE LET w == Write(i, r)
                     IN  IF register_write(w.site, w.value)
                         THEN /\ writes' = (w.site :> w.value) @@ writes
                              /\ memory' = [memory EXCEPT ![w.site] = w.value]
                              /\ next' = next + 1
                              /\ UNCHANGED <<file, stage, bias, exports>>
                         ELSE Fail

LinkNext == Open \/ PlanLayout \/ CollectExports \/ LoadImages \/ \E i \in Images : LinkOne(i)
LinkSpec == LinkInit /\ [][LinkNext]_linkVars

(***************************************************************************)
(* Properties.                                                             *)
(***************************************************************************)
\* The formula again, now with the addresses of the running system; the addend is
\* what the file's word holds beyond its linked value.
RuntimeWord(i, r) ==
    LET f == file[i]
        linked == LoadedWord(f, r.site)
        S0 == LinkedValue(f, r.sym)
        S1 == IF r.sym = 0 THEN 0 ELSE SymbolRuntime(i, f.symbols[r.sym])
        P1 == r.site + bias[i]
        G1 == f.got + bias[i]
    IN  CASE r.type = "32" -> (S1 + (linked - S0)) % Wrap
          [] r.type \in {"PC32", "PLT32"} -> (S1 + (linked - S0 + r.site) - P1) % Wrap
          [] r.type = "GOTOFF" -> (S1 + (linked - S0 + f.got) - G1) % Wrap
          [] r.type = "GOTPC" -> (G1 + (linked - f.got + r.site) - P1) % Wrap
          [] r.type = "RELATIVE" -> (linked + bias[i]) % Wrap
          [] OTHER -> linked

\* Once the images are linked, every word is what linking them at their run-time
\* addresses from scratch would give, including the offset table, and every word
\* no relocation names is the file's.
LinkedForRunTime ==
    stage = "linked" => \A i \in Images :
        LET f == file[i]
            live == {n \in DOMAIN f.rels : f.sections[f.rels[n].target].alloc}
            gots == {n \in live : f.rels[n].type \in {"GOT32", "GOT32X"}}
        IN  /\ \A n \in live : memory[f.rels[n].site + bias[i]] = RuntimeWord(i, f.rels[n])
            /\ \A n \in gots : memory[f.rels[n].slot + bias[i]]
                                  = SymbolRuntime(i, f.symbols[f.rels[n].sym]) % Wrap
            /\ \A a \in LinkedBase(i)..(LinkedBase(i) + Span(f) - 1) :
                  (\A n \in live : f.rels[n].site # a) /\ (\A n \in gots : f.rels[n].slot # a)
                      => memory[a + bias[i]] = LoadedWord(f, a)

\* Whatever is laid out lies below the limit of the boot page tables, the stack
\* and the boot information behind the images included.
PayloadBelowLimit == stage \notin {"open", "plan", "failed"} => bootinfo_end <= VirtualLimit

-----------------------------------------------------------------------------
(***************************************************************************)
(* Stage 1.5, the multiboot program between GRUB and the kernel: it finds  *)
(* the kernel and the HAL among the boot modules, lays them out behind one *)
(* another, collects their symbols, copies and relocates them in physical  *)
(* memory, maps them, and describes the result to the kernel.              *)
(*                                                                         *)
(* Files, words and addresses are those of BootLinker; the flaw "stripped" *)
(* is a file without symbol table.  The command line of a boot module is   *)
(* the set of the words it contains.  The modules and Stage 1.5 itself lie *)
(* below the physical base; their identity mapping, its page tables and    *)
(* the serial output are left out.                                         *)
(***************************************************************************)
CONSTANTS PhysicalBase,  \* where the kernel is put
          HighPages,     \* pages the two high page tables map
          MaxSymbols,
          NamePool,      \* bytes for the names of the symbols
          NameSize,      \* name -> its bytes, the terminator included
          RegionSlots,
          ModuleLists, FirmwareMaps

VARIABLES stMods,   \* boot modules: sequence of [words, file]
          stMap,    \* the firmware's memory map: sequence of [base, type]
          stStage,
          stImage,  \* "kernel", "hal" -> file
          stLayout, \* run-time bases and ends
          stSyms,   \* the symbol registry
          stKernelSyms,
          stPhys,   \* physical address -> word
          stNext,   \* next relocation of the image being linked
          stPages,  \* virtual page -> physical page
          stInfo    \* what the kernel is told

stageVars == <<stMods, stMap, stStage, stImage, stLayout, stSyms, stKernelSyms,
               stPhys, stNext, stPages, stInfo>>

NoStageFile == [flaw |-> "none", segments |-> <<>>]
NoLayout == [kernelEnd |-> 0, halBase |-> 0, halEnd |-> 0, halPhys |-> 0]
NoInfo == [regions |-> <<>>, memory |-> <<>>, symbols |-> <<>>, kernelSymbols |-> 0, used |-> 0]

StageStart(mods, map) ==
    /\ stMods = [n \in DOMAIN mods |-> [mods[n] EXCEPT !.file = StaticallyLinked(@)]]
    /\ stMap = map
    /\ stStage = "find"
    /\ stImage = [i \in Images |-> NoStageFile]
    /\ stLayout = NoLayout
    /\ stSyms = <<>> /\ stKernelSyms = 0
    /\ stPhys = <<>> /\ stNext = 1 /\ stPages = <<>> /\ stInfo = NoInfo

StageInit == \E mods \in ModuleLists, map \in FirmwareMaps : StageStart(mods, map)

\* panic: the machine spins; nothing has been started.
StPanic ==
    /\ stStage' = "panic"
    /\ UNCHANGED <<stMods, stMap, stImage, stLayout, stSyms, stKernelSyms, stPhys, stNext, stPages, stInfo>>

(***************************************************************************)
(* Finding the modules: the last one of each kind counts.                  *)
(***************************************************************************)
IsImage(m, i) == i \in m.words /\ (i = "kernel" => "hal" \notin m.words)
ModulesOf(i) == {n \in DOMAIN stMods : IsImage(stMods[n], i)}

find_modules ==
    /\ stStage = "find"
    /\ IF Len(stMods) < 2 \/ \E i \in Images : ModulesOf(i) = {}
       THEN StPanic
       ELSE /\ stImage' = [i \in Images |-> stMods[Max(ModulesOf(i))].file]
            /\ stStage' = "layout"
            /\ UNCHANGED <<stMods, stMap, stLayout, stSyms, stKernelSyms, stPhys, stNext, stPages, stInfo>>

(***************************************************************************)
(* Layout.                                                                 *)
(***************************************************************************)
get_elf_load_vaddr(f) == f.segments[1].at
calculate_elf_virtual_end(f) == RoundUp(Max({Ends(s) : s \in Segs(f)}))

LayoutOf(k, h) ==
    LET base == calculate_elf_virtual_end(k)
        size == calculate_elf_virtual_end(h) - get_elf_load_vaddr(h)
    IN  [kernelEnd |-> base, halBase |-> base, halEnd |-> RoundUp(base + size),
         halPhys |-> PhysicalBase + (base - KernelBase)]

translate_vaddr_to_paddr(v) ==
    IF stLayout.halBase # 0 /\ v >= stLayout.halBase THEN v - stLayout.halBase + stLayout.halPhys
    ELSE IF v >= KernelBase THEN v - KernelBase + PhysicalBase
    ELSE v

\* A symbol table without _GLOBAL_OFFSET_TABLE_ is fatal; no table at all is not.
setup_got(f) == f.flaw = "stripped" \/ f.got # NoGot

calculate_stage_layout ==
    /\ stStage = "layout"
    /\ IF \A i \in Images : setup_got(stImage[i])
       THEN /\ stLayout' = LayoutOf(stImage["kernel"], stImage["hal"])
            /\ stStage' = "symbols"
            /\ UNCHANGED <<stMods, stMap, stImage, stSyms, stKernelSyms, stPhys, stNext, stPages, stInfo>>
       ELSE StPanic

(***************************************************************************)
(* Symbols, kernel first.                                                  *)
(***************************************************************************)
RuntimeOf(i) == IF i = "kernel" THEN KernelBase ELSE stLayout.halBase
load_offset(i) == RuntimeOf(i) - get_elf_load_vaddr(stImage[i])

Exported(i) ==
    LET f == stImage[i]
        visible == SelectSeq(f.symbols, LAMBDA s : s.section # 0 /\ s.global)
    IN  IF f.flaw = "stripped" THEN <<>>
        ELSE [n \in DOMAIN visible |->
                [name |-> visible[n].name, value |-> visible[n].value + load_offset(i)]]

\* The first definition of a name is kept.
register_global_symbol(all) ==
    LET first == {n \in DOMAIN all : \A m \in 1..(n - 1) : all[m].name # all[n].name}
    IN  [k \in 1..Cardinality(first) |->
            all[CHOOSE n \in first : Cardinality({m \in first : m <= n}) = k]]

collect_symbols ==
    /\ stStage = "symbols"
    /\ LET kernel == register_global_symbol(Exported("kernel"))
           all == register_global_symbol(Exported("kernel") \o Exported("hal"))
       IN  IF Len(all) > MaxSymbols
           THEN StPanic
           ELSE /\ stSyms' = all
                /\ stKernelSyms' = Len(kernel)
                /\ stStage' = "load"
                /\ UNCHANGED <<stMods, stMap, stImage, stLayout, stPhys, stNext, stPages, stInfo>>

(***************************************************************************)
(* Copying and relocating.                                                 *)
(***************************************************************************)
Copied(i) ==
    LET f == stImage[i]
        at(v) == v + load_offset(i)
        seg(n) == f.segments[n]
    IN  FoldLeft(LAMBDA m, n :
                    [a \in {translate_vaddr_to_paddr(at(v)) : v \in seg(n).at..(Ends(seg(n)) - 1)} |->
                        segment_word(seg(n), CHOOSE v \in seg(n).at..(Ends(seg(n)) - 1) :
                                                translate_vaddr_to_paddr(at(v)) = a)] @@ m,
                 <<>>, [n \in DOMAIN f.segments |-> n])

load_and_copy_segments ==
    /\ stStage = "load"
    /\ stPhys' = Copied("hal") @@ Copied("kernel")
    /\ stStage' = "kernel"
    /\ UNCHANGED <<stMods, stMap, stImage, stLayout, stSyms, stKernelSyms, stNext, stPages, stInfo>>

SymbolsNamed(name) == {n \in DOMAIN stSyms : stSyms[n].name = name}

\* The address of a relocation's symbol, or 0 where the registry lacks it.
Resolved(i, r) ==
    IF r.sym = 0 THEN 0
    ELSE LET s == stImage[i].symbols[r.sym]
         IN  IF s.section # 0 THEN s.value + load_offset(i)
             ELSE IF SymbolsNamed(s.name) = {} THEN 0
             ELSE stSyms[Min(SymbolsNamed(s.name))].value

LinkError(i, r) ==
    \/ r.sym # 0 /\ stImage[i].symbols[r.sym].section = 0
          /\ SymbolsNamed(stImage[i].symbols[r.sym].name) = {}
    \/ Resolved(i, r) = 0 /\ r.type \notin {"GOTPC", "RELATIVE"}

IsLocal(i, r) == r.sym # 0 /\ stImage[i].symbols[r.sym].section # 0

\* The site's new word; GOTOFF and GOTPC do not change when an image moves.
Patch(i, r, word) ==
    CASE r.type = "32" -> (word + IF IsLocal(i, r) THEN load_offset(i) ELSE Resolved(i, r)) % Wrap
      [] r.type \in {"PC32", "PLT32"} /\ ~IsLocal(i, r) -> (word + Resolved(i, r) - load_offset(i)) % Wrap
      [] r.type = "RELATIVE" -> (word + load_offset(i)) % Wrap
      [] OTHER -> word

process_relocation(i) ==
    /\ stStage = i
    /\ LET f == stImage[i]
           r == f.rels[stNext]
           site == translate_vaddr_to_paddr(r.site + load_offset(i))
           slot == translate_vaddr_to_paddr((f.got + load_offset(i) + stPhys[site]) % Wrap)
       IN  IF f.flaw = "stripped" \/ stNext > Len(f.rels)
           THEN /\ stStage' = IF i = "kernel" THEN "hal" ELSE "paging"
                /\ stNext' = 1
                /\ UNCHANGED <<stMods, stMap, stImage, stLayout, stSyms, stKernelSyms, stPhys, stPages, stInfo>>
           ELSE IF ~f.sections[r.target].alloc
           THEN stNext' = stNext + 1
                /\ UNCHANGED <<stMods, stMap, stStage, stImage, stLayout, stSyms, stKernelSyms, stPhys, stPages, stInfo>>
           ELSE IF LinkError(i, r) THEN StPanic
           ELSE /\ stPhys' = IF r.type \in {"GOT32", "GOT32X"}
                             THEN [stPhys EXCEPT ![slot] = Resolved(i, r) % Wrap]
                             ELSE [stPhys EXCEPT ![site] = Patch(i, r, @)]
                /\ stNext' = stNext + 1
                /\ UNCHANGED <<stMods, stMap, stStage, stImage, stLayout, stSyms, stKernelSyms, stPages, stInfo>>

(***************************************************************************)
(* Paging, the description for the kernel, and the jump.                   *)
(***************************************************************************)
stack_bottom == RoundUp(stLayout.halEnd)
stack_top == stack_bottom + StackWords
boot_info_end == stack_top + RoundUp(BootInfoSize)

map_virtual_range(v_start, v_end, p_start) ==
    [p \in (v_start \div LinkPage)..((v_end - 1) \div LinkPage) |->
        (p_start + (p * LinkPage - v_start)) \div LinkPage]

stack_phys_start == RoundUp(stLayout.halPhys + (stLayout.halEnd - stLayout.halBase))
boot_info_phys_start == RoundUp(stack_phys_start + (stack_top - stack_bottom))

StageTables ==
    map_virtual_range(stack_top, boot_info_end, boot_info_phys_start)
        @@ map_virtual_range(stack_bottom, stack_top, stack_phys_start)
        @@ map_virtual_range(stLayout.halBase, stLayout.halEnd, stLayout.halPhys)
        @@ map_virtual_range(KernelBase, stLayout.kernelEnd, PhysicalBase)

setup_paging ==
    /\ stStage = "paging"
    /\ IF \E p \in DOMAIN StageTables : p >= KernelBase \div LinkPage + HighPages
       THEN StPanic
       ELSE /\ stPages' = StageTables
            /\ stStage' = "info"
            /\ UNCHANGED <<stMods, stMap, stImage, stLayout, stSyms, stKernelSyms, stPhys, stNext, stInfo>>

Region(type, from, to) ==
    [type |-> type, virt |-> from, phys |-> translate_vaddr_to_paddr(from), length |-> to - from]
MappedMemory ==
    <<Region("KernelCore", KernelBase, stLayout.kernelEnd),
      Region("HalModule", stLayout.halBase, stLayout.halEnd),
      Region("BootStack", stack_bottom, stack_top),
      Region("BootInfo", stack_top, stack_top + BootInfoSize)>>

\* Only as many regions as mapped_memory has slots are taken over.
MemoryRegions ==
    [n \in 1..Min({Len(stMap), RegionSlots}) |->
        [base |-> stMap[n].base,
         type |-> CASE stMap[n].type = "available" -> "Available"
                    [] stMap[n].type = "acpi" -> "ACPI_Reclaim"
                    [] OTHER -> "Reserved"]]

\* Bytes the names of the first n symbols take in the pool.
NamesUsed(n) == FoldLeft(LAMBDA sum, k : sum + NameSize[stSyms[k].name], 0, [k \in 1..n |-> k])

fill_boot_info ==
    /\ stStage = "info"
    /\ IF NamesUsed(Len(stSyms)) > NamePool
       THEN StPanic
       ELSE /\ stInfo' = [regions |-> MappedMemory, memory |-> MemoryRegions,
                          symbols |-> [n \in DOMAIN stSyms |-> [offset |-> NamesUsed(n - 1),
                                                                address |-> stSyms[n].value]],
                          kernelSymbols |-> stKernelSyms, used |-> NamesUsed(Len(stSyms))]
            /\ stStage' = "enter"
            /\ UNCHANGED <<stMods, stMap, stImage, stLayout, stSyms, stKernelSyms, stPhys, stNext, stPages>>

entry_trampoline ==
    /\ stStage = "enter"
    /\ IF stImage["kernel"].entry \in KernelBase..(stLayout.kernelEnd - 1)
       THEN /\ stStage' = "running"
            /\ UNCHANGED <<stMods, stMap, stImage, stLayout, stSyms, stKernelSyms, stPhys, stNext, stPages, stInfo>>
       ELSE StPanic

StageNext ==
    \/ find_modules \/ calculate_stage_layout \/ collect_symbols \/ load_and_copy_segments
    \/ \E i \in Images : process_relocation(i)
    \/ setup_paging \/ fill_boot_info \/ entry_trampoline

StageSpec == StageInit /\ [][StageNext]_stageVars

(***************************************************************************)
(* Properties.                                                             *)
(***************************************************************************)
\* The word that linking image i at its run-time address from scratch gives.
StageRuntimeWord(i, r) ==
    LET f == stImage[i]
        linked == LoadedWord(f, r.site)
        S0 == LinkedValue(f, r.sym)
        S1 == IF r.sym = 0 THEN 0 ELSE Resolved(i, r)
        move == load_offset(i)
    IN  CASE r.type = "32" -> (linked - S0 + S1) % Wrap
          [] r.type \in {"PC32", "PLT32", "GOTOFF"} -> (linked - S0 + S1 - move) % Wrap
          [] r.type = "RELATIVE" -> (linked + move) % Wrap
          [] OTHER -> linked

\* When the kernel is entered, every word of both images that a relocation names
\* is what linking at the run-time addresses would give, the table of offsets
\* holds the run-time addresses of its symbols, and each site is reached through
\* the page tables at its run-time virtual address.
StageLinked ==
    stStage = "running" => \A i \in Images :
        LET f == stImage[i]
            live == IF f.flaw = "stripped" THEN {}
                    ELSE {n \in DOMAIN f.rels : f.sections[f.rels[n].target].alloc}
            Seen(v) == stPhys[stPages[v \div LinkPage] * LinkPage + (v % LinkPage)]
        IN  \A n \in live : LET r == f.rels[n] IN
                /\ Seen(r.site + load_offset(i)) = StageRuntimeWord(i, r)
                /\ r.type \in {"GOT32", "GOT32X"} => Seen(r.slot + load_offset(i)) = Resolved(i, r) % Wrap

\* The regions the kernel is told of are mapped where they are said to lie, page
\* for page, and no frame is mapped twice: setup_paging and fill_boot_info work
\* the same addresses out on two ways.
ReportedWhereMapped ==
    stStage = "running" =>
        /\ \A n \in DOMAIN stInfo.regions : LET g == stInfo.regions[n] IN
              \A p \in (g.virt \div LinkPage)..((g.virt + g.length - 1) \div LinkPage) :
                  p \in DOMAIN stPages /\ stPages[p] = (g.phys + p * LinkPage - g.virt) \div LinkPage
        /\ \A p, q \in DOMAIN stPages : stPages[p] = stPages[q] => p = q

\* The kernel can read the symbols back: each name stands alone in the pool, no
\* name comes twice, and the kernel's symbols are exactly the first ones.
SymbolsReadBack ==
    stStage = "running" =>
        LET end(n) == IF n = Len(stInfo.symbols) THEN stInfo.used ELSE stInfo.symbols[n + 1].offset
        IN  /\ \A n \in DOMAIN stInfo.symbols :
                  end(n) - stInfo.symbols[n].offset = NameSize[stSyms[n].name] /\ end(n) <= NamePool
            /\ \A n \in DOMAIN stInfo.symbols :
                  n <= stInfo.kernelSymbols <=> stInfo.symbols[n].address < stLayout.kernelEnd
            /\ \A n, m \in DOMAIN stSyms : stSyms[n].name = stSyms[m].name => n = m

(* Both loaders leave an image that is linked for where it runs, inside    *)
(* the memory they report to the kernel.                                   *)
ImagesLinked ==
    /\ LinkedForRunTime /\ PayloadBelowLimit /\ StageLinked
    /\ ReportedWhereMapped /\ SymbolsReadBack
=============================================================================
