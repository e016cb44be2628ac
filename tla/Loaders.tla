------------------------------ MODULE Loaders -------------------------------
(***************************************************************************)
(* Loading ELF images into the kernel: the streaming loader that drivers,  *)
(* subsystems and user processes share, the registry of module exports, and*)
(* the subsystem loader, which loads the modules an image requires.        *)
(***************************************************************************)
EXTENDS Integers, SequencesExt

CONSTANTS Image,      \* image -> [needs, imports, exports, pages]; pages of each segment
          BootModule,       \* images registered by the boot loader
          DriverModule,     \* images loaded as drivers
          Program,    \* images loaded into a process's address space
          kMaxDependencyDepth,
          MaxLoads    \* bound on loads from outside

VARIABLES mlCalls,      \* loads in progress, innermost last: [img, pc, next]
          openFiles, heap,
          region,     \* the load in progress has a kernel region
          mlFrames,     \* frames mapped for the load in progress
          segment,    \* next segment to map
          irqs, activeSpace, \* interrupts enabled; the active address space
          failing,    \* the load in progress has met an error
          mlRegistry,   \* registered modules, in order
          entered,    \* modules whose entry point ran
          loads

mlVars == <<mlCalls, openFiles, heap, region, mlFrames, segment, irqs, activeSpace, failing, mlRegistry,
            entered, loads>>

Subsystem == DOMAIN Image \ (DriverModule \cup Program)

ModInit ==
    /\ mlCalls = <<>> /\ openFiles = 0 /\ heap = {} /\ region = FALSE /\ mlFrames = 0 /\ segment = 1
    /\ irqs = TRUE /\ activeSpace = "caller" /\ failing = FALSE
    /\ mlRegistry = BootModule /\ entered = {} /\ loads = 0

Busy == mlCalls # <<>>
Call == mlCalls[Len(mlCalls)]
This == Call.img
At(pc) == Busy /\ Call.pc = pc
MlGoto(pc) == mlCalls' = [mlCalls EXCEPT ![Len(mlCalls)].pc = pc]
Return == mlCalls' = SubSeq(mlCalls, 1, Len(mlCalls) - 1)
Registered == {mlRegistry[i] : i \in DOMAIN mlRegistry}
Resolvable == UNION {Image[m].exports : m \in Registered}

\* LoadElfFromVfs from the header to closing the file.
Steps == <<"headers", "sections", "region", "read", "switch", "map", "restore", "relocate",
           "exports", "close">>
After(pc) == Steps[1 + (CHOOSE i \in DOMAIN Steps : Steps[i] = pc)]

\* Opening; nothing has been done yet when it fails.
OpenModule(img) ==
    /\ ~Busy /\ loads < MaxLoads /\ loads' = loads + 1
    /\ mlCalls' = <<[img |-> img, pc |-> "headers", next |-> 1]>>
    /\ openFiles' = openFiles + 1
    /\ region' = FALSE /\ mlFrames' = 0 /\ segment' = 1 /\ failing' = FALSE
    /\ UNCHANGED <<heap, irqs, activeSpace, mlRegistry, entered>>

\* ReadExact of the headers, CaptureSections: an early return closes the file.
Headers(ok) ==
    /\ At("headers") \/ At("sections")
    /\ IF ok THEN MlGoto(After(Call.pc)) /\ UNCHANGED <<openFiles, failing>>
       ELSE MlGoto("failed") /\ openFiles' = openFiles - 1 /\ failing' = TRUE
    /\ UNCHANGED <<heap, region, mlFrames, segment, irqs, activeSpace, mlRegistry, entered, loads>>

\* The region of a kernel image; a program is mapped where it was linked.
ReserveRegion(ok) ==
    /\ At("region")
    /\ IF This \in Program THEN MlGoto(After("region")) /\ UNCHANGED <<openFiles, region, failing>>
       ELSE IF ok THEN MlGoto(After("region")) /\ region' = TRUE /\ UNCHANGED <<openFiles, failing>>
       ELSE MlGoto("failed") /\ openFiles' = openFiles - 1 /\ failing' = TRUE /\ UNCHANGED region
    /\ UNCHANGED <<heap, mlFrames, segment, irqs, activeSpace, mlRegistry, entered, loads>>

\* Every segment's bytes; an error is kept and the way goes on to the clean-up.
ReadSegments(got) ==
    /\ At("read")
    /\ heap' = heap \cup {<<"segment", i>> : i \in 1..got}
    /\ failing' = (failing \/ got < Len(Image[This].pages))
    /\ MlGoto(After("read"))
    /\ UNCHANGED <<openFiles, region, mlFrames, segment, irqs, activeSpace, mlRegistry, entered, loads>>

Switch ==
    /\ At("switch")
    /\ IF This \in Program /\ ~failing
       THEN irqs' = FALSE /\ activeSpace' = "target" ELSE UNCHANGED <<irqs, activeSpace>>
    /\ MlGoto(After("switch"))
    /\ UNCHANGED <<openFiles, heap, region, mlFrames, segment, failing, mlRegistry, entered, loads>>

\* MapAndCopySegment: all the pages of a segment, or none of them.
MapSegment(ok) ==
    /\ At("map") /\ ~failing /\ segment <= Len(Image[This].pages)
    /\ segment' = segment + 1
    /\ mlFrames' = IF ok THEN mlFrames + Image[This].pages[segment] ELSE mlFrames
    /\ failing' = ~ok
    /\ UNCHANGED <<mlCalls, openFiles, heap, region, irqs, activeSpace, mlRegistry, entered, loads>>

Mapped ==
    /\ At("map") /\ (failing \/ segment > Len(Image[This].pages))
    /\ MlGoto(After("map"))
    /\ UNCHANGED <<openFiles, heap, region, mlFrames, segment, irqs, activeSpace, failing, mlRegistry, entered, loads>>

\* A plausible slip: the way back is taken only when mapping worked.
MustRestoreOnSuccess == activeSpace = "target" /\ ~failing
MustRestore == activeSpace = "target"

\* Back to the caller's address space, and the segment buffers are freed.
Restore ==
    /\ At("restore")
    /\ IF MustRestore THEN activeSpace' = "caller" /\ irqs' = TRUE ELSE UNCHANGED <<activeSpace, irqs>>
    /\ heap' = {}
    /\ MlGoto(After("restore"))
    /\ UNCHANGED <<openFiles, region, mlFrames, segment, failing, mlRegistry, entered, loads>>

\* ProcessRelocationsFromVfs: symbols no registered module exports are an error.
\* Tables are read and freed again inside, `read' says whether that went well.
RelocateModule(read) ==
    /\ At("relocate")
    /\ failing' = (failing \/ (This \notin Program
                               /\ ~(read /\ Image[This].imports \subseteq Resolvable)))
    /\ MlGoto(After("relocate"))
    /\ UNCHANGED <<openFiles, heap, region, mlFrames, segment, irqs, activeSpace, mlRegistry, entered, loads>>

CaptureExports(read) ==
    /\ At("exports")
    /\ failing' = (failing \/ (This \in Subsystem /\ ~read))
    /\ MlGoto(After("exports"))
    /\ UNCHANGED <<openFiles, heap, region, mlFrames, segment, irqs, activeSpace, mlRegistry, entered, loads>>

\* The result: a failed kernel image gives its frames and its region back; a failed
\* program leaves its pages to the address space its creator destroys.  An error of
\* closing alone is reported too, with the image still mapped.
CloseImage(closed) ==
    /\ At("close")
    /\ openFiles' = openFiles - 1
    /\ IF failing /\ region THEN mlFrames' = 0 /\ region' = FALSE ELSE UNCHANGED <<mlFrames, region>>
    /\ MlGoto(IF failing \/ ~closed THEN "failed" ELSE IF This \in Subsystem THEN "note" ELSE "loaded")
    /\ UNCHANGED <<heap, segment, irqs, activeSpace, failing, mlRegistry, entered, loads>>

\* A load that ended, and what its caller makes of it: a failed dependency fails
\* the image that requires it.
Ended ==
    /\ At("failed") \/ At("loaded")
    /\ IF Len(mlCalls) = 1 THEN mlCalls' = <<>>
       ELSE mlCalls' = [SubSeq(mlCalls, 1, Len(mlCalls) - 1) EXCEPT ![Len(mlCalls) - 1] =
                         [@ EXCEPT !.pc = IF At("failed") THEN "failed" ELSE "deps", !.next = @ + 1]]
    /\ UNCHANGED <<openFiles, heap, region, mlFrames, segment, irqs, activeSpace, failing, mlRegistry, entered, loads>>

\* The module note and the seal of the export table.
Note(ok) ==
    /\ At("note")
    /\ MlGoto(IF ok /\ This \notin Registered THEN "deps" ELSE "failed")
    /\ UNCHANGED <<openFiles, heap, region, mlFrames, segment, irqs, activeSpace, failing, mlRegistry, entered, loads>>

MustLoad(m) == m \notin Registered

\* EnsureRequired: the next required module, loaded by a call of the whole loader.
EnsureRequired ==
    /\ At("deps")
    /\ LET needs == Image[This].needs
           m == needs[Call.next]
       IN  IF Call.next > Len(needs)
           THEN MlGoto("register") /\ UNCHANGED <<openFiles, region, mlFrames, segment, failing>>
           ELSE IF ~MustLoad(m)
           THEN /\ mlCalls' = [mlCalls EXCEPT ![Len(mlCalls)].next = @ + 1]
                /\ UNCHANGED <<openFiles, region, mlFrames, segment, failing>>
           ELSE IF Len(mlCalls) > kMaxDependencyDepth \/ m \notin DOMAIN Image
           THEN MlGoto("failed") /\ UNCHANGED <<openFiles, region, mlFrames, segment, failing>>
           ELSE /\ mlCalls' = Append(mlCalls, [img |-> m, pc |-> "headers", next |-> 1])
                /\ openFiles' = openFiles + 1
                /\ region' = FALSE /\ mlFrames' = 0 /\ segment' = 1 /\ failing' = FALSE
    /\ UNCHANGED <<heap, irqs, activeSpace, mlRegistry, entered, loads>>

MayRegister(m) == m \notin Registered /\ Image[m].exports \cap Resolvable = {}

\* Register: into the registry, then into the object directory, out again if the
\* latter fails.
Register(inserted) ==
    /\ At("register")
    /\ IF MayRegister(This) /\ inserted
       THEN mlRegistry' = Append(mlRegistry, This) /\ MlGoto("bind")
       ELSE MlGoto("failed") /\ UNCHANGED mlRegistry
    /\ UNCHANGED <<openFiles, heap, region, mlFrames, segment, irqs, activeSpace, failing, entered, loads>>

\* BindProvider, the subsystem object, and the entry point; a failure here leaves
\* the module registered.
Bind(ok) ==
    /\ At("bind")
    /\ entered' = IF ok THEN entered \cup {This} ELSE entered
    /\ MlGoto(IF ok THEN "loaded" ELSE "failed")
    /\ UNCHANGED <<openFiles, heap, region, mlFrames, segment, irqs, activeSpace, failing, mlRegistry, loads>>

ModNext ==
    \/ \E img \in DOMAIN Image : img \notin Registered /\ OpenModule(img)
    \/ \E ok \in BOOLEAN : \/ Headers(ok) \/ ReserveRegion(ok) \/ MapSegment(ok) \/ RelocateModule(ok)
                           \/ CaptureExports(ok) \/ Note(ok) \/ Register(ok) \/ Bind(ok)
                           \/ CloseImage(ok)
    \/ \E got \in 0..3 : Busy /\ got <= Len(Image[This].pages) /\ ReadSegments(got)
    \/ Switch \/ Mapped \/ Restore \/ Ended \/ EnsureRequired

ModSpec == ModInit /\ [][ModNext]_mlVars

(***************************************************************************)
(* Properties.                                                             *)
(***************************************************************************)
\* When a load of an image has ended, well or badly, its file is closed, its buffers
\* are freed, the caller's address space is active with interrupts on, and a kernel
\* image that failed has no frame or region left.
LoadLeavesNothing ==
    (~Busy \/ Call.pc \in {"failed", "loaded", "note"}) =>
        /\ openFiles = 0 /\ heap = {} /\ irqs /\ activeSpace = "caller"
        /\ Busy /\ failing /\ This \notin Program => mlFrames = 0 /\ ~region

\* The loader waits for the disk only while interrupts can end the wait.
ReadsWithInterrupts ==
    \/ At("headers") \/ At("sections") \/ At("read")
    \/ (At("relocate") \/ At("exports")) /\ ~failing /\ This \notin Program
    => irqs

\* No symbol is exported by two registered modules, so what a name resolves to does
\* not depend on the order of loading.
ExportsUnique ==
    \A i, j \in DOMAIN mlRegistry :
        i # j => Image[mlRegistry[i]].exports \cap Image[mlRegistry[j]].exports = {}

\* A subsystem's entry point runs only when all modules it requires are registered.
EntryAfterRequired ==
    \A m \in entered : \A i \in DOMAIN Image[m].needs : Image[m].needs[i] \in Registered

\* An image is linked only after the modules it requires were loaded.
RequiredModulesFirst ==
    At("relocate") /\ This \in Subsystem /\ ~failing =>
        \A i \in DOMAIN Image[This].needs : Image[This].needs[i] \in Registered

-----------------------------------------------------------------------------
(***************************************************************************)
(* The user-space loader: it maps an executable and, breadth first, the    *)
(* shared libraries it needs, relocates them, copies the data the          *)
(* executable claims for itself, and fixes the order in which the          *)
(* libraries' constructors and destructors run.                            *)
(***************************************************************************)
CONSTANTS Worlds,      \* file systems: <<directory, name>> -> image
          MAX_OBJECTS,
          MAX_IMAGE,   \* limit on the pages of an image, and on all mapped
          SlotBase, SlotSize,
          LoaderPages, \* pages of the loader itself
          UserMax      \* last page of user space

VARIABLES world,
          ldStage,  \* "load", "discover", "relocate", "copy", "order", "run", "exit", "failed"
          loaded,   \* loaded objects: [path, image, bias, deps]
          at,       \* the object the running pass is at, and its next dependency
          words,    \* memory: address -> word
          initialization_order,
          initialized_count,
          ran       \* constructors and destructors that ran, in order

ldVars == <<world, ldStage, loaded, at, words, initialization_order, initialized_count, ran>>

LoadInit ==
    /\ world \in Worlds
    /\ ldStage = "load" /\ loaded = <<>> /\ at = <<1, 1>> /\ words = <<>>
    /\ initialization_order = <<>> /\ initialized_count = 0 /\ ran = <<>>

GiveUp ==
    /\ ldStage' = "failed"
    /\ UNCHANGED <<world, loaded, at, words, initialization_order, initialized_count, ran>>

(***************************************************************************)
(* One image: [type, low, words, needed, syms, rels].  `words' is what its *)
(* segments hold from `low' on; one word stands for a page.                *)
(***************************************************************************)
ImagePages(low, im) == low .. low + Len(im.words) - 1

\* calculate_bounds_and_bias, for the object that becomes number n.
SlotOf(n) == SlotBase + (n - 1) * SlotSize
BiasFor(im, n) == IF im.type = "dyn" THEN SlotOf(n) - im.low ELSE 0
BoundsOk(im, n) ==
    /\ Len(im.words) \in 1..MAX_IMAGE
    /\ im.type = "dyn" => /\ im.low <= SlotOf(n)
                          /\ im.low + Len(im.words) <= SlotOf(n) + SlotSize

\* map_and_load_segments: reserved memory, the limit, and the kernel refusing a
\* page that is mapped already.
Mappable(im, bias) ==
    LET pages == ImagePages(im.low + bias, im)
    IN  /\ pages \cap (LoaderPages \cup DOMAIN words) = {}
        /\ pages \subseteq 1..UserMax
        /\ Cardinality(DOMAIN words) + Len(im.words) <= MAX_IMAGE

\* load_object, what must hold and what it does.
LdLoadable(path, type) ==
    /\ path \in DOMAIN world
    /\ LET im == world[path]  n == Len(loaded) + 1
       IN  im.type = type /\ BoundsOk(im, n) /\ Mappable(im, BiasFor(im, n))

LoadObject(path, objs) ==
    LET im == world[path]
        bias == BiasFor(im, Len(loaded) + 1)
        pages == ImagePages(im.low + bias, im)
    IN  /\ loaded' = Append(objs, [path |-> path, image |-> im, bias |-> bias, deps |-> <<>>])
        /\ words' = [a \in DOMAIN words \cup pages |->
                        IF a \in pages THEN im.words[a - im.low - bias + 1] ELSE words[a]]

LoadExecutable ==
    /\ ldStage = "load"
    /\ LET path == <<"bin", "exe">>
       IN  IF LdLoadable(path, "exec")
           THEN /\ LoadObject(path, loaded) /\ ldStage' = "discover"
                /\ UNCHANGED <<world, at, initialization_order, initialized_count, ran>>
           ELSE GiveUp

(***************************************************************************)
(* Dependencies: find_and_load_dependency for every needed name.           *)
(***************************************************************************)
\* The executable's directory first, then the system's.
PathOf(name) == IF <<"bin", name>> \in DOMAIN world THEN <<"bin", name>> ELSE <<"System", name>>
Depends(d) == [loaded EXCEPT ![at[1]].deps = Append(@, d)]

LoadDependency ==
    /\ ldStage = "discover" /\ at[1] <= Len(loaded)
    /\ at[2] <= Len(loaded[at[1]].image.needed)
    /\ LET path == PathOf(loaded[at[1]].image.needed[at[2]])
           same == {i \in DOMAIN loaded : loaded[i].path = path}
       IN  IF same # {}
           THEN /\ loaded' = Depends(CHOOSE i \in same : TRUE)
                /\ at' = [at EXCEPT ![2] = @ + 1]
                /\ UNCHANGED <<world, ldStage, words, initialization_order, initialized_count, ran>>
           ELSE IF Len(loaded) < MAX_OBJECTS /\ LdLoadable(path, "dyn")
           THEN /\ LoadObject(path, Depends(Len(loaded) + 1))
                /\ at' = [at EXCEPT ![2] = @ + 1]
                /\ UNCHANGED <<world, ldStage, initialization_order, initialized_count, ran>>
           ELSE GiveUp

NextObject ==
    /\ ldStage = "discover" /\ at[1] <= Len(loaded)
    /\ at[2] > Len(loaded[at[1]].image.needed)
    /\ IF at[1] < Len(loaded)
       THEN at' = <<at[1] + 1, 1>> /\ UNCHANGED ldStage
       ELSE at' = <<1, 1>> /\ ldStage' = "relocate"
    /\ UNCHANGED <<world, loaded, words, initialization_order, initialized_count, ran>>

(***************************************************************************)
(* Symbols.  A symbol is [name, bind, def, value, size].                   *)
(***************************************************************************)
Sym(d) == loaded[d[1]].image.syms[d[2]]
Defines(name, least) ==
    {d \in UNION {{i} \X DOMAIN loaded[i].image.syms : i \in least..Len(loaded)} :
        Sym(d).def /\ Sym(d).bind # "local" /\ Sym(d).name = name}
Before(d, e) == d[1] < e[1] \/ (d[1] = e[1] /\ d[2] <= e[2])
FirstOf(D) == CHOOSE d \in D : \A e \in D : Before(d, e)

\* The first strong definition in the order of loading, or the first weak one; a copy
\* relocation looks past the executable.
resolve_symbol(name, i, copy) ==
    LET D == Defines(name, IF copy THEN 2 ELSE 1)
        strong == {d \in D : Sym(d).bind # "weak"}
    IN  IF strong # {} THEN {FirstOf(strong)} ELSE IF D # {} THEN {FirstOf(D)} ELSE {}

Address(d) == Sym(d).value + loaded[d[1]].bias

(***************************************************************************)
(* Relocations: [kind, at, sym].                                           *)
(***************************************************************************)
CopyWords(m, to, from, size) ==
    [a \in DOMAIN m |-> IF a \in to .. to + size - 1 THEN m[a - to + from] ELSE m[a]]

\* apply_single_relocation on memory m: the memory after it, and whether it worked.
apply_single_relocation(m, i, r, copy_only) ==
    LET target == r.at + loaded[i].bias
        sym == loaded[i].image.syms[r.sym]
        own == sym.bind = "local" /\ sym.def
        found == resolve_symbol(sym.name, i, r.kind = "copy")
        def == CHOOSE d \in found : TRUE
        value == IF own THEN sym.value + loaded[i].bias ELSE IF found = {} THEN 0 ELSE Address(def)
        put(v) == [ok |-> TRUE, m |-> [m EXCEPT ![target] = v]]
        bad == [ok |-> FALSE, m |-> m]
    IN  IF target \notin DOMAIN m THEN bad
        ELSE IF r.kind = "none" \/ (r.kind = "copy") # copy_only THEN [ok |-> TRUE, m |-> m]
        ELSE IF r.kind = "relative" THEN put(m[target] + loaded[i].bias)
        ELSE IF ~own /\ found = {} /\ sym.bind # "weak" THEN bad
        ELSE CASE r.kind = "32" -> put(m[target] + value)
               [] r.kind = "pc32" -> put(m[target] + value - target)
               [] r.kind = "slot" -> put(value)
               [] r.kind = "copy" ->
                    IF value = 0 \/ sym.size > Sym(def).size THEN bad
                    ELSE [ok |-> TRUE, m |-> CopyWords(m, target, value, sym.size)]

\* relocate_table
relocate_table(i, copy_only) ==
    FoldLeft(LAMBDA acc, r : IF acc.ok THEN apply_single_relocation(acc.m, i, r, copy_only) ELSE acc,
             [ok |-> TRUE, m |-> words], loaded[i].image.rels)

\* The k-th step of the two passes: object after object, then the copies into the
\* executable.
Pass(k) == IF k <= Len(loaded) THEN <<k, FALSE>> ELSE <<1, TRUE>>

Relocate ==
    /\ ldStage = "relocate"
    /\ LET done == relocate_table(Pass(at[1])[1], Pass(at[1])[2])
       IN  IF ~done.ok THEN GiveUp
           ELSE /\ words' = done.m
                /\ at' = <<at[1] + 1, 1>>
                /\ ldStage' = IF at[1] > Len(loaded) THEN "order" ELSE ldStage
                /\ UNCHANGED <<world, loaded, initialization_order, initialized_count, ran>>

(***************************************************************************)
(* Constructors and destructors.                                           *)
(***************************************************************************)
\* visit_dependencies: depth first, an object after all it depends on.
RECURSIVE visit(_, _)
visit(i, v) ==
    IF ~v.ok \/ v.state[i] = 2 THEN v
    ELSE IF v.state[i] = 1 THEN [v EXCEPT !.ok = FALSE]
    ELSE LET below == FoldLeft(LAMBDA acc, d : visit(d, acc), [v EXCEPT !.state[i] = 1], loaded[i].deps)
         IN  IF ~below.ok THEN below
             ELSE [below EXCEPT !.state[i] = 2,
                                !.order = IF i = 1 THEN @ ELSE Append(@, i)]

visit_dependencies(i, v) == visit(i, v)

\* Ordering, then the launch is reported and the program entered.
Order(reported) ==
    /\ ldStage = "order"
    /\ LET v == visit_dependencies(1, [ok |-> TRUE, state |-> [i \in DOMAIN loaded |-> 0], order |-> <<>>])
       IN  IF ~v.ok \/ ~reported THEN GiveUp
           ELSE /\ initialization_order' = v.order /\ ldStage' = "run" /\ at' = <<1, 1>>
                /\ UNCHANGED <<world, loaded, words, initialized_count, ran>>

\* initialize_shared, one library; a constructor may exit before the rest is done.
Initialize ==
    /\ ldStage = "run" /\ initialized_count < Len(initialization_order)
    /\ initialized_count' = initialized_count + 1
    /\ ran' = Append(ran, <<"init", initialization_order[initialized_count + 1]>>)
    /\ UNCHANGED <<world, ldStage, loaded, at, words, initialization_order>>

Exit ==
    /\ ldStage = "run" /\ ldStage' = "exit"
    /\ UNCHANGED <<world, loaded, at, words, initialization_order, initialized_count, ran>>

\* finalize_shared, one library.
Finalize ==
    /\ ldStage = "exit" /\ initialized_count > 0
    /\ initialized_count' = initialized_count - 1
    /\ ran' = Append(ran, <<"fini", initialization_order[initialized_count]>>)
    /\ UNCHANGED <<world, ldStage, loaded, at, words, initialization_order>>

LoadNext ==
    \/ LoadExecutable \/ LoadDependency \/ NextObject \/ Relocate
    \/ \E reported \in BOOLEAN : Order(reported)
    \/ Initialize \/ Exit \/ Finalize

LoadSpec == LoadInit /\ [][LoadNext]_ldVars

(***************************************************************************)
(* Properties.                                                             *)
(***************************************************************************)
LdRunning == ldStage \in {"run", "exit"}
Slots ==
    {s \in UNION {{i} \X DOMAIN loaded[i].image.rels : i \in DOMAIN loaded} :
        loaded[s[1]].image.rels[s[2]].kind = "slot"}
RelOf(s) == loaded[s[1]].image.rels[s[2]]
SymOf(s) == loaded[s[1]].image.syms[RelOf(s).sym]

\* In a running program all slots for one global name hold one address: the
\* executable and every library agree on which definition they use.
OneAddressPerName ==
    LdRunning => \A s, t \in Slots :
        (SymOf(s).name = SymOf(t).name /\ SymOf(s).bind # "local" /\ SymOf(t).bind # "local") =>
            words[RelOf(s).at + loaded[s[1]].bias] = words[RelOf(t).at + loaded[t[1]].bias]

\* What the executable copied is the library's data as relocated, not as it was
\* on disk.
CopiesAreRelocated ==
    LdRunning => \A k \in DOMAIN loaded[1].image.rels :
        LET r == loaded[1].image.rels[k]
            sym == loaded[1].image.syms[r.sym]
        IN  r.kind = "copy" =>
              \E d \in Defines(sym.name, 2) :
                 \A n \in 0 .. sym.size - 1 : words[r.at + n] = words[Address(d) + n]

\* A library's constructor runs after those of all the libraries it depends on, and
\* its destructor before theirs, also when the program exits half-way.
InitAfterDependencies ==
    \A k \in DOMAIN ran :
        LET i == ran[k][2]
        IN  IF ran[k][1] = "init"
            THEN \A d \in Range(loaded[i].deps) : \E j \in 1 .. k - 1 : ran[j] = <<"init", d>>
            ELSE \A c \in 2..Len(loaded) :
                    (i \in Range(loaded[c].deps) /\ \E j \in 1..k : ran[j] = <<"init", c>>)
                        => \E j \in 1 .. k - 1 : ran[j] = <<"fini", c>>

(* A module or program that runs has all it needs, resolved once and       *)
(* started in order; one that failed to load has left nothing.             *)
LoadsSound ==
    /\ LoadLeavesNothing /\ ReadsWithInterrupts /\ ExportsUnique
    /\ EntryAfterRequired /\ OneAddressPerName /\ CopiesAreRelocated
    /\ InitAfterDependencies
=============================================================================
