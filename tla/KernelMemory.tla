---------------------------- MODULE KernelMemory ----------------------------
(***************************************************************************)
(* Physical frames and address spaces: the frame bitmap (pmm.cpp), page    *)
(* directories and tables (HAL vmm.cpp), and the regions of the portable   *)
(* memory manager (vmm.cpp) with the kernel's large allocations and slabs. *)
(* The kernel half of every directory shares its tables.  Addresses are    *)
(* page numbers; a table spans TableSpan of them.                          *)
(***************************************************************************)
EXTENDS Integers, SequencesExt

CONSTANTS
    UserSpace, kernelSpace,
    FrameCount, DmaFrames,      \* frames 1..FrameCount, the first DmaFrames below 16 MB
    TableSpan, UserTables, KernelTables,
    UserBase,                   \* first page the allocator hands out; below it images
    MAX_ADDRESS_SPACES

VARIABLES
    mem,      \* used frames, directories (space -> table slot -> frame), tables
    vads,     \* space -> regions
    base,     \* space -> current_base
    root,     \* space -> frame of its directory, 0 when it does not exist
    g_roots,  \* the directories new kernel tables are copied to
    borrows   \* user pages mapped into the kernel for a system call

vmVars == <<mem, vads, base, root, g_roots, borrows>>

Space == UserSpace \cup {kernelSpace}
PageFrame == 1..FrameCount
Tables == 0..(UserTables + KernelTables - 1)
KernelHalf == {i \in Tables : i >= UserTables}
UserLimit == UserTables * TableSpan
KernelStart == UserLimit
LimitOf(s) == IF s = kernelSpace THEN (UserTables + KernelTables) * TableSpan ELSE UserLimit
NoTables == [i \in Tables |-> 0]
EmptyTable == [i \in 0..(TableSpan - 1) |-> 0]

VmInit ==
    /\ mem = [used |-> {1}, pd |-> [s \in Space |-> NoTables], pt |-> [f \in PageFrame |-> EmptyTable]]
    /\ vads = [s \in Space |-> {}]
    /\ base = [s \in Space |-> IF s = kernelSpace THEN KernelStart ELSE UserBase]
    /\ root = [s \in Space |-> IF s = kernelSpace THEN 1 ELSE 0]
    /\ g_roots = <<kernelSpace>>
    /\ borrows = {}

-----------------------------------------------------------------------------
(* HAL_PMM_AllocateFrames: the first run above the DMA zone, else in it; 0 *)
(* when there is none.  HAL_PMM_AllocateFramesDMA looks in the zone only.  *)
FirstRun(used, n, zone) ==
    LET starts == {f \in zone : f..(f + n - 1) \subseteq zone \ used}
    IN  IF starts = {} THEN 0 ELSE CHOOSE f \in starts : \A g \in starts : f <= g
AllocateFramesDMA(used, n) == FirstRun(used, n, 1..DmaFrames)
AllocateFrames(used, n) ==
    LET high == FirstRun(used, n, (DmaFrames + 1)..FrameCount)
    IN  IF high # 0 THEN high ELSE AllocateFramesDMA(used, n)

Slot(v) == v \div TableSpan
PtEntry(v) == v % TableSpan
GetPhysicalAddress(m, s, v) == IF m.pd[s][Slot(v)] = 0 THEN 0 ELSE m.pt[m.pd[s][Slot(v)]][PtEntry(v)]

(* Faulty variant: a new kernel table goes into the active directory only. *)
propagate_none(pd, s, i, t) == [pd EXCEPT ![s][i] = t]
(* A new table in the kernel half goes into every registered directory.    *)
propagate_kernel_pde(pd, s, i, t) ==
    [x \in Space |-> IF x = s \/ (i \in KernelHalf /\ x \in ToSet(g_roots))
                     THEN [pd[x] EXCEPT ![i] = t] ELSE pd[x]]

(* HAL_VMM_MapPage in the active directory s; ok is FALSE when no table    *)
(* can be had, or the page is mapped already.                              *)
MapPage(m, s, v, f) ==
    LET fresh == AllocateFrames(m.used, 1)
        with == IF m.pd[s][Slot(v)] # 0 THEN m
                ELSE [m EXCEPT !.used = @ \cup {fresh}, !.pt[fresh] = EmptyTable,
                               !.pd = propagate_kernel_pde(@, s, Slot(v), fresh)]
        t == with.pd[s][Slot(v)]
    IN  IF m.pd[s][Slot(v)] = 0 /\ fresh = 0 THEN [m EXCEPT !.ok = FALSE]
        ELSE IF with.pt[t][PtEntry(v)] # 0 THEN [with EXCEPT !.ok = FALSE]
        ELSE [with EXCEPT !.pt[t][PtEntry(v)] = f]

(* Only the user half gives its empty tables back.                         *)
TableGoes(i, table) == table = EmptyTable /\ i \notin KernelHalf

UnmapPage(m, s, v) ==
    LET t == m.pd[s][Slot(v)]  table == [m.pt[t] EXCEPT ![PtEntry(v)] = 0]
    IN  IF t = 0 THEN m
        ELSE IF TableGoes(Slot(v), table)
        THEN [m EXCEPT !.pt[t] = EmptyTable, !.pd[s][Slot(v)] = 0, !.used = @ \ {t}]
        ELSE [m EXCEPT !.pt[t] = table]

Try(m) == [ok |-> TRUE, used |-> m.used, pd |-> m.pd, pt |-> m.pt]
Done(m) == [used |-> m.used, pd |-> m.pd, pt |-> m.pt]
Range0(first, n) == [i \in 1..n |-> first + i - 1]
MapRun(m, s, v, f, n) ==
    FoldLeft(LAMBDA x, i : IF x.ok THEN MapPage(x, s, v + i - 1, f + i - 1) ELSE x, m, Range0(1, n))
UnmapRun(m, s, v, n) == FoldLeft(LAMBDA x, p : UnmapPage(x, s, p), m, Range0(v, n))

-----------------------------------------------------------------------------
(* reserve_vad: the space's addresses are handed out in order, once.       *)
Reserves(s, n) == base[s] + n <= LimitOf(s)
VmRegion(start, n, kind) == [start |-> start, size |-> n, kind |-> kind]
Pages(r) == r.start..(r.start + r.size - 1)

GiveBack(used, f, n) == used \ (f..(f + n - 1))

(* vmm::allocate_memory, in the space s, with the directory active that    *)
(* the pages are mapped in: s itself, or for the kernel any directory.     *)
allocate_memory(s, active, n) ==
    LET f == AllocateFrames(mem.used, n)
        mapped == MapRun([Try(mem) EXCEPT !.used = @ \cup (f..(f + n - 1))], active, base[s], f, n)
        present == Cardinality({p \in base[s]..(base[s] + n - 1) :
                                 GetPhysicalAddress(mapped, active, p) \in f..(f + n - 1)})
        undone == UnmapRun(mapped, active, base[s], present)
    IN  /\ root[s] # 0 /\ root[active] # 0 /\ f # 0 /\ Reserves(s, n)
        /\ s # kernelSpace => active = s
        /\ base' = [base EXCEPT ![s] = @ + n]
        /\ IF mapped.ok
           THEN /\ mem' = Done(mapped)
                /\ vads' = [vads EXCEPT ![s] = @ \cup {VmRegion(base[s], n, "memory")}]
           ELSE /\ mem' = [Done(undone) EXCEPT !.used = GiveBack(@, f, n)]
                /\ UNCHANGED vads
        /\ UNCHANGED <<root, g_roots, borrows>>

(* vmm::map_fixed_memory of one page of an image: refused over a region    *)
(* or a mapped page.                                                       *)
map_fixed_memory(s, v) ==
    LET f == AllocateFrames(mem.used, 1)
        mapped == MapPage([Try(mem) EXCEPT !.used = @ \cup {f}], s, v, f)
    IN  /\ root[s] # 0 /\ f # 0 /\ v < UserBase
        /\ \A r \in vads[s] : v \notin Pages(r)
        /\ GetPhysicalAddress(mem, s, v) = 0
        /\ IF mapped.ok
           THEN mem' = Done(mapped) /\ vads' = [vads EXCEPT ![s] = @ \cup {VmRegion(v, 1, "memory")}]
           ELSE mem' = [Done(mapped) EXCEPT !.used = GiveBack(@, f, 1)] /\ UNCHANGED vads
        /\ UNCHANGED <<base, root, g_roots, borrows>>

(* KE_VMM_AllocateUserData, KE_VMM_AllocateRegion: a region whose pages    *)
(* come with the faults.                                                   *)
AllocateRegion(s, n) ==
    /\ root[s] # 0 /\ Reserves(s, n)
    /\ vads' = [vads EXCEPT ![s] = @ \cup {VmRegion(base[s], n, "anonymous")}]
    /\ base' = [base EXCEPT ![s] = @ + n]
    /\ UNCHANGED <<mem, root, g_roots, borrows>>

(* KE_VMM_HandlePagefault of a permitted access: a frame is mapped; a      *)
(* failure stops the system.                                               *)
HandlePagefault(s, v) ==
    LET f == AllocateFrames(mem.used, 1)
        mapped == MapPage([Try(mem) EXCEPT !.used = @ \cup {f}], s, v, f)
    IN  /\ root[s] # 0 /\ f # 0 /\ GetPhysicalAddress(mem, s, v) = 0
        /\ \E r \in vads[s] : v \in Pages(r)
        /\ mapped.ok
        /\ mem' = Done(mapped)
        /\ UNCHANGED <<vads, base, root, g_roots, borrows>>

(* handle_FreePages and free_large: a whole region whose pages are all     *)
(* there and that no system call has borrowed.                             *)
FreePages(s, r) ==
    LET frames == {GetPhysicalAddress(mem, s, v) : v \in Pages(r)}
    IN  /\ root[s] # 0 /\ r.kind = "memory" /\ 0 \notin frames
        /\ \A b \in borrows : b.space # s \/ b.page \notin Pages(r)
        /\ mem' = [UnmapRun(mem, s, r.start, r.size) EXCEPT !.used = @ \ frames]
        /\ vads' = [vads EXCEPT ![s] = @ \ {r}]
        /\ UNCHANGED <<base, root, g_roots, borrows>>

(* Allocator::allocate_slab and free_slab: a kernel page after a guard     *)
(* page, without a region.  A failing MapPage is not checked: the slab is  *)
(* then built on an unmapped page, which faults and stops the kernel, so   *)
(* only the mapped case goes on.                                           *)
allocate_slab(active) ==
    LET f == AllocateFrames(mem.used, 1)  v == base[kernelSpace] + 1
        mapped == MapPage([Try(mem) EXCEPT !.used = @ \cup {f}], active, v, f)
    IN  /\ root[active] # 0 /\ f # 0 /\ v < LimitOf(kernelSpace) /\ mapped.ok
        /\ mem' = Done(mapped) /\ base' = [base EXCEPT ![kernelSpace] = v + 1]
        /\ vads' = [vads EXCEPT ![kernelSpace] = @ \cup {VmRegion(v, 1, "slab")}]
        /\ UNCHANGED <<root, g_roots, borrows>>
free_slab(r) ==
    LET f == GetPhysicalAddress(mem, kernelSpace, r.start)
    IN  /\ r.kind = "slab"
        /\ mem' = [UnmapPage(mem, kernelSpace, r.start) EXCEPT !.used = @ \ {f}]
        /\ vads' = [vads EXCEPT ![kernelSpace] = @ \ {r}]
        /\ UNCHANGED <<base, root, g_roots, borrows>>

(* KE_VMM_MapBorrowed of a page and KE_VMM_UnmapBorrowed.                  *)
MapBorrowed(s, v) ==
    LET f == GetPhysicalAddress(mem, s, v)  k == base[kernelSpace]
        mapped == MapPage(Try(mem), s, k, f)
    IN  /\ root[s] # 0 /\ f # 0 /\ Reserves(kernelSpace, 1) /\ borrows = {}
        /\ base' = [base EXCEPT ![kernelSpace] = @ + 1]
        /\ mem' = Done(mapped)
        /\ IF mapped.ok THEN /\ borrows' = borrows \cup {[space |-> s, page |-> v, at |-> k]}
                             /\ vads' = [vads EXCEPT ![kernelSpace] = @ \cup {VmRegion(k, 1, "borrow")}]
                        ELSE UNCHANGED <<borrows, vads>>
        /\ UNCHANGED <<root, g_roots>>
UnmapBorrowed(b) ==
    /\ mem' = UnmapPage(mem, b.space, b.at)
    /\ vads' = [vads EXCEPT ![kernelSpace] = @ \ {VmRegion(b.at, 1, "borrow")}]
    /\ borrows' = borrows \ {b}
    /\ UNCHANGED <<base, root, g_roots>>

-----------------------------------------------------------------------------
(* create_user_address_space: a directory with the kernel half of the      *)
(* active one.                                                             *)
CreateAddressSpace(s, active) ==
    LET f == AllocateFrames(mem.used, 1)
    IN  /\ s # kernelSpace /\ root[s] = 0 /\ root[active] # 0 /\ f # 0
        /\ root' = [root EXCEPT ![s] = f]
        /\ mem' = [mem EXCEPT !.used = @ \cup {f},
                     !.pd[s] = [i \in Tables |-> IF i \in KernelHalf THEN mem.pd[active][i] ELSE 0]]
        /\ g_roots' = IF Len(g_roots) < MAX_ADDRESS_SPACES THEN Append(g_roots, s) ELSE g_roots
        /\ vads' = [vads EXCEPT ![s] = {}] /\ base' = [base EXCEPT ![s] = UserBase]
        /\ UNCHANGED borrows

unregister_root(roots, s) ==
    LET i == SelectInSeq(roots, LAMBDA x : x = s)
    IN  IF i = 0 THEN roots ELSE Front([roots EXCEPT ![i] = Last(roots)])

Reclaimed(s) == {GetPhysicalAddress(mem, s, v) : v \in UNION {Pages(r) : r \in vads[s]}}
(* destroy_user_address_space, of a space no system call is in.            *)
DestroyAddressSpace(s) ==
    LET tables == {mem.pd[s][i] : i \in Tables \ KernelHalf}
    IN  /\ s # kernelSpace /\ root[s] # 0 /\ \A b \in borrows : b.space # s
        /\ mem' = [used |-> mem.used \ (Reclaimed(s) \cup tables \cup {root[s]}),
                   pt |-> [f \in PageFrame |-> IF f \in tables THEN EmptyTable ELSE mem.pt[f]],
                   pd |-> [mem.pd EXCEPT ![s] = NoTables]]
        /\ g_roots' = unregister_root(g_roots, s)
        /\ root' = [root EXCEPT ![s] = 0] /\ vads' = [vads EXCEPT ![s] = {}]
        /\ UNCHANGED <<base, borrows>>

VmNext ==
    \/ \E s, active \in Space :
         \/ CreateAddressSpace(s, active)
         \/ \E n \in 1..2 : allocate_memory(s, active, n)
    \/ \E s \in UserSpace :
         \/ AllocateRegion(s, 1) \/ DestroyAddressSpace(s)
         \/ \E v \in 0..(UserLimit - 1) : map_fixed_memory(s, v) \/ HandlePagefault(s, v) \/ MapBorrowed(s, v)
    \/ \E s \in Space : \E r \in vads[s] : FreePages(s, r)
    \/ \E active \in Space : allocate_slab(active)
    \/ \E r \in vads[kernelSpace] : free_slab(r)
    \/ \E b \in borrows : UnmapBorrowed(b)

VmSpec == VmInit /\ [][VmNext]_vmVars

-----------------------------------------------------------------------------
(* A kernel page mapped while any directory was active is mapped in all:   *)
(* every live directory has the same kernel tables.                        *)
KernelHalfShared ==
    \A s \in Space : root[s] # 0 =>
        \A i \in KernelHalf : mem.pd[s][i] = mem.pd[kernelSpace][i]

(* Every used frame has exactly one use - a directory, a table, or a page  *)
(* of a region - and every free frame has none: nothing leaks on an error  *)
(* path and nothing is freed while it is mapped.                           *)
OwnPages == {p \in Space \X (0..(LimitOf(kernelSpace) - 1)) : \E r \in vads[p[1]] :
                p[2] \in Pages(r) /\ r.kind # "borrow" /\ GetPhysicalAddress(mem, p[1], p[2]) # 0}
FramesUsedOnce ==
    LET roots == {root[s] : s \in Space} \ {0}
        tables == {mem.pd[s][i] : s \in Space, i \in Tables} \ {0}
        pages == {GetPhysicalAddress(mem, p[1], p[2]) : p \in OwnPages}
    IN  /\ mem.used = roots \cup tables \cup pages
        /\ Cardinality(mem.used) = Cardinality({s \in Space : root[s] # 0}) + Cardinality(OwnPages)
             + Cardinality({x \in UserSpace \X (Tables \ KernelHalf) : mem.pd[x[1]][x[2]] # 0})
             + Cardinality({i \in KernelHalf : mem.pd[kernelSpace][i] # 0})

(* A mapped user page lies in a region of its space, or destroying the     *)
(* space would lose its frame; a borrowed page is still what it was.       *)
MappedInRegions ==
    /\ \A s \in UserSpace, v \in 0..(UserLimit - 1) :
         root[s] # 0 /\ GetPhysicalAddress(mem, s, v) # 0 => \E r \in vads[s] : v \in Pages(r)
    /\ \A b \in borrows :
         GetPhysicalAddress(mem, kernelSpace, b.at) = GetPhysicalAddress(mem, b.space, b.page)

-----------------------------------------------------------------------------
(***************************************************************************)
(* One cache of the kernel heap (memory/): slabs of one page, each with    *)
(* its objects in front, its control block behind them, and a list of its  *)
(* free objects; the cache keeps every slab in one of three lists.  Threads*)
(* allocate, free (find_slab under the registry's lock, then the cache's   *)
(* lock) and reclaim.  Object sizes are chosen at the start.               *)
(***************************************************************************)
CONSTANTS HeapThread, MaxSlabs, page_size, sizeofSlab, sizeofStorage, ObjectSize, Alignment

VARIABLES
    layout,    \* calculate_layout of the cache
    slab,      \* slab -> <<-1>> (not there) or the sequence of its free objects' indices
    lists,     \* free_slabs_, partial_slabs_, full_slabs_
    owned,     \* addresses handed out and not freed
    freeing    \* thread -> the pointer and slab it has looked up, or NoFree

heapVars == <<layout, slab, lists, owned, freeing>>

Slabs == 1..MaxSlabs
NoFree == [ptr |-> -1, slab |-> 0]
AlignUp(n, a) == ((n + a - 1) \div a) * a

(* The most objects that fit with their storage nodes and the control      *)
(* block at a multiple of 8, starting from the estimate without rounding.  *)
Objects(size) ==
    LET estimate == (page_size - sizeofSlab) \div (size + sizeofStorage)
        fits(n) == AlignUp(n * size, 8) + sizeofSlab + n * sizeofStorage <= page_size
        ok == {n \in 1..estimate : fits(n)}
    IN  IF page_size <= sizeofSlab \/ ok = {} THEN 0 ELSE CHOOSE n \in ok : \A m \in ok : m <= n

calculate_layout(object_size, alignment) ==
    LET size == AlignUp(object_size, alignment)  n == Objects(size)
    IN  [object_size |-> size, objects |-> n, control_offset |-> AlignUp(n * size, 8)]

HeapInit ==
    /\ layout \in {calculate_layout(s, a) : s \in ObjectSize, a \in Alignment}
    /\ slab = [s \in Slabs |-> <<-1>>]
    /\ lists = [free |-> <<>>, partial |-> <<>>, full |-> <<>>]
    /\ owned = {}
    /\ freeing = [t \in HeapThread |-> NoFree]

Exists(s) == slab[s] # <<-1>>
Fresh == [i \in 1..layout.objects |-> i - 1]
Allocated(free) == layout.objects - Len(free)
PointerTo(s, i) == (s - 1) * page_size + i * layout.object_size
(* The AVL registry of slabs, keyed by address range.                      *)
find_slab(p) == LET s == p \div page_size + 1 IN IF s \in Slabs /\ Exists(s) THEN s ELSE 0

-----------------------------------------------------------------------------
AfterAllocate(L, s, was_empty, full) ==
    IF was_empty
    THEN IF full THEN [L EXCEPT !.free = Remove(@, s), !.full = Append(@, s)]
                 ELSE [L EXCEPT !.free = Remove(@, s), !.partial = Append(@, s)]
    ELSE IF full THEN [L EXCEPT !.partial = Remove(@, s), !.full = Append(@, s)]
    ELSE L

(* get_available_slab: partial before free before a new one.               *)
SlabAvailable(s) ==
    IF lists.partial # <<>> THEN s = Head(lists.partial)
    ELSE IF lists.free # <<>> THEN s = Head(lists.free)
    ELSE ~Exists(s) /\ \A x \in Slabs : x < s => Exists(x)
allocate(t, s) ==
    LET free == IF Exists(s) THEN slab[s] ELSE Fresh
        before == IF Exists(s) THEN lists ELSE [lists EXCEPT !.free = Append(@, s)]
    IN  /\ freeing[t] = NoFree /\ SlabAvailable(s) /\ free # <<>>
        /\ slab' = [slab EXCEPT ![s] = Tail(free)]
        /\ owned' = owned \cup {PointerTo(s, Head(free))}
        /\ lists' = AfterAllocate(before, s, Allocated(free) = 0, Tail(free) = <<>>)
        /\ UNCHANGED <<layout, freeing>>

(* KE_Free: the registry's lock is released before the cache's is taken.   *)
KE_Free(t, p) ==
    /\ freeing[t] = NoFree /\ p \in owned /\ \A u \in HeapThread : freeing[u].ptr # p
    /\ freeing' = [freeing EXCEPT ![t] = [ptr |-> p, slab |-> find_slab(p)]]
    /\ UNCHANGED <<layout, slab, lists, owned>>

AfterFree(L, s, was_full, empty) ==
    IF empty
    THEN IF was_full THEN [L EXCEPT !.full = Remove(@, s), !.free = Append(@, s)]
                     ELSE [L EXCEPT !.partial = Remove(@, s), !.free = Append(@, s)]
    ELSE IF was_full THEN [L EXCEPT !.full = Remove(@, s), !.partial = Append(@, s)]
    ELSE L
Index(p) == (p % page_size) \div layout.object_size
free_locked(t) ==
    LET f == freeing[t]
        free == Append(slab[f.slab], Index(f.ptr))
    IN  /\ f # NoFree
        /\ slab' = [slab EXCEPT ![f.slab] = free]
        /\ lists' = AfterFree(lists, f.slab, slab[f.slab] = <<>>, Allocated(free) = 0)
        /\ owned' = owned \ {f.ptr}
        /\ freeing' = [freeing EXCEPT ![t] = NoFree]
        /\ UNCHANGED layout

(* Cache::reclaim: every slab without objects goes.                        *)
reclaim ==
    /\ lists.free # <<>>
    /\ slab' = [s \in Slabs |-> IF s \in ToSet(lists.free) THEN <<-1>> ELSE slab[s]]
    /\ lists' = [lists EXCEPT !.free = <<>>]
    /\ UNCHANGED <<layout, owned, freeing>>

HeapNext ==
    \/ \E t \in HeapThread : (\E s \in Slabs : allocate(t, s)) \/ (\E p \in owned : KE_Free(t, p)) \/ free_locked(t)
    \/ reclaim

HeapSpec == HeapInit /\ [][HeapNext]_heapVars

-----------------------------------------------------------------------------
(* The objects of a slab end before its control block and the block's      *)
(* storage nodes end within the page, and no larger number of objects      *)
(* would fit: rounding loses no room and overruns none.                    *)
LayoutFits ==
    LET n == layout.objects  size == layout.object_size
        total(m) == AlignUp(m * size, 8) + sizeofSlab + m * sizeofStorage
    IN  /\ n * size <= layout.control_offset
        /\ n > 0 => total(n) <= page_size
        /\ total(n + 1) > page_size

(* Every slab is in exactly the list its occupancy says, once: the next    *)
(* allocation finds room where it looks, and reclaim frees only what no    *)
(* object is in.                                                           *)
ListsMatchOccupancy ==
    /\ \A s \in Slabs : Exists(s) =>
         LET used == {p \in owned : p \div page_size + 1 = s}
             where == [l \in DOMAIN lists |-> Cardinality({i \in DOMAIN lists[l] : lists[l][i] = s})]
         IN  where = [free |-> IF used = {} THEN 1 ELSE 0,
                      full |-> IF Cardinality(used) = layout.objects /\ used # {} THEN 1 ELSE 0,
                      partial |-> IF used # {} /\ Cardinality(used) < layout.objects THEN 1 ELSE 0]
    /\ \A l \in DOMAIN lists : \A s \in ToSet(lists[l]) : Exists(s)

(* No object is handed out twice: an address is either owned or in the     *)
(* free list of its slab, never in both and never twice in the list.       *)
ObjectsDisjoint ==
    /\ \A p \in owned : p \div page_size + 1 \in Slabs /\ Exists(p \div page_size + 1)
    /\ \A s \in Slabs : Exists(s) =>
         /\ Len(slab[s]) = Cardinality(ToSet(slab[s]))
         /\ ToSet(slab[s]) = {i \in 0..(layout.objects - 1) : PointerTo(s, i) \notin owned}

(* No page frame and no byte of a slab has two users, and what the page    *)
(* tables map is what the regions and the slab lists say.                  *)
MemoryUsedOnce ==
    /\ KernelHalfShared /\ FramesUsedOnce /\ MappedInRegions /\ LayoutFits
    /\ ListsMatchOccupancy /\ ObjectsDisjoint
=============================================================================
