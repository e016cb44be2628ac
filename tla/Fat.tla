-------------------------------- MODULE Fat ---------------------------------
(***************************************************************************)
(* The file operations of the FAT driver on a FAT32 volume, write by write.*)
(* All operations run under the volume lock, so what an operation will     *)
(* write follows from the disk it finds; the model computes that plan when *)
(* the operation starts and performs one device write per step.  A read or *)
(* a write may fail, and the power may go, between any two writes.         *)
(*                                                                         *)
(* A cluster holds SlotsPerCluster units: directory slots or data.  The    *)
(* fixed root of FAT12/16 is a directory that cannot grow.                 *)
(***************************************************************************)
EXTENDS Integers, SequencesExt

CONSTANTS
  LastCluster,      \* clusters are 2..LastCluster, 2 is the root directory
  SlotsPerCluster,
  FileName,         \* names an operation may create
  MaxFileOps,       \* bound on the operations of a behaviour
  Ordinal,          \* positions the directory is read at
  numFATs           \* copies of the allocation table

VARIABLES
  fat,              \* [1..numFATs -> [Cluster -> next cluster, 0 free, EOC]]
  content,          \* [Cluster -> [Slot -> slot]]
  fsInfo,           \* cached number of free clusters on disk, -1 unknown
  fsInfoInvalidated, writable, traversalGeneration,
  plan,             \* writes still to do
  fileOp,           \* the operation in progress, or how the last one ended
  node,             \* the open root directory's traversal cache
  opsDone

fatVars == <<fat, content, fsInfo, fsInfoInvalidated, writable, traversalGeneration,
             plan, fileOp, node, opsDone>>

Cluster == 2..LastCluster
Slot == 1..SlotsPerCluster
EOC == 99
Root == 2

(* kind: "end", "deleted", "dot", "file", "dir", or "data" for file contents;
   a data unit names the body it is part of and its position. *)
Unit(kind, name, first, size) == [kind |-> kind, name |-> name, first |-> first, size |-> size]
End == Unit("end", "", 0, 0)
Deleted == Unit("deleted", "", 0, 0)
Zeroed == [s \in Slot |-> End]
DataOf(body, n) == [s \in Slot |-> Unit("data", body, n, 0)]
Dots == [s \in Slot |-> IF s <= 2 THEN Unit("dot", "", 0, 0) ELSE End]

NoNode == [valid |-> FALSE, gen |-> 0, ordinal |-> 0, index |-> 0, cluster |-> 0, eof |-> -1]

-----------------------------------------------------------------------------
(* Reading the volume *)

(* The clusters a walk from c visits, stopping at the end of the chain, at a
   free or invalid cluster, or after as many steps as there are clusters. *)
Chain(table, c) ==
  LET walk[n \in 0..LastCluster] ==
        IF n = 0 THEN IF c \in Cluster THEN <<c>> ELSE <<>>
        ELSE LET before == walk[n - 1]
             IN  IF before = <<>> \/ Len(before) < n \/ table[Last(before)] \notin Cluster
                 THEN before ELSE Append(before, table[Last(before)])
  IN  walk[LastCluster - 1]

Terminated(table, c) ==
  LET chain == Chain(table, c)
  IN  chain # <<>> /\ table[Last(chain)] = EOC /\ IsInjective(chain)

(* The slots of a directory, from cluster c of its chain onwards. *)
SlotsFrom(c) ==
  LET chain == Chain(fat[1], c)
  IN  [i \in 1..(Len(chain) * SlotsPerCluster) |->
         <<chain[((i - 1) \div SlotsPerCluster) + 1], ((i - 1) % SlotsPerCluster) + 1>>]

UnitAt(place) == content[place[1]][place[2]]

(* FAT_FindEntry: nothing behind the end marker counts, deleted and dot
   entries are passed over. *)
Listed(slots) ==
  LET ended(i) == \E j \in 1..i : UnitAt(slots[j]).kind = "end"
  IN  SelectSeq(slots, LAMBDA p : /\ UnitAt(p).kind \in {"file", "dir"}
                                  /\ ~ended(CHOOSE i \in 1..Len(slots) : slots[i] = p))

Find(dir, name) ==
  LET hits == SelectSeq(Listed(SlotsFrom(dir)), LAMBDA p : UnitAt(p).name = name)
  IN  IF hits = <<>> THEN <<>> ELSE hits[1]

Directories == {Root} \union {UnitAt(p).first : p \in
                 {q \in ToSet(Listed(SlotsFrom(Root))) : UnitAt(q).kind = "dir"}}

Entries == {<<d, p>> : d \in Directories, p \in UNION {ToSet(Listed(SlotsFrom(e))) : e \in Directories}}
Reachable == {e \in Entries : e[2] \in ToSet(Listed(SlotsFrom(e[1])))}

-----------------------------------------------------------------------------
(* Planning writes.  "undo" is a cluster to give back and "head" a chain to
   free when the write fails; 0 means none. *)

FatWrite(copy, c, value, undo, head) ==
  [kind |-> "fat", copy |-> copy, at |-> c, slot |-> 0, value |-> value, undo |-> undo, head |-> head]
ClusterWrite(c, value, undo, head) ==
  [kind |-> "cluster", copy |-> 0, at |-> c, slot |-> 0, value |-> value, undo |-> undo, head |-> head]
EntryWrite(place, value) ==
  [kind |-> "entry", copy |-> 0, at |-> place[1], slot |-> place[2], value |-> value, undo |-> 0, head |-> 0]

SetCluster(c, value, undo, head) ==
  [copy \in 1..numFATs |-> FatWrite(copy, c, value, undo, head)]

FreeAll(chain) == FlattenSeq([i \in 1..Len(chain) |-> SetCluster(chain[i], 0, 0, 0)])

(* The chain is validated as a whole before any of it is freed. *)
FreeChain(table, head) ==
  IF Terminated(table, head) THEN FreeAll(Chain(table, head)) ELSE <<>>

FreeClusters == SetToSortSeq({c \in Cluster : fat[1][c] = 0}, <)

AllocateCluster(c, head) ==
  SetCluster(c, EOC, 0, head) \o <<ClusterWrite(c, Zeroed, c, head)>>

(* A reused deleted slot, the end marker (the next slot is terminated first),
   or a fresh cluster linked behind the directory. *)
FreeSlot(dir) ==
  LET slots == SlotsFrom(dir)
      unused == SelectInSeq(slots, LAMBDA p : UnitAt(p).kind \in {"end", "deleted"})
      tail == Last(Chain(fat[1], dir))
  IN  IF unused # 0
      THEN [ok |-> TRUE, place |-> slots[unused], fresh |-> 0,
            writes |-> IF UnitAt(slots[unused]).kind = "end" /\ unused < Len(slots)
                       THEN <<EntryWrite(slots[unused + 1], End)>> ELSE <<>>]
      ELSE IF FreeClusters = <<>>
      THEN [ok |-> FALSE, writes |-> <<>>, place |-> <<0, 0>>, fresh |-> 0]
      ELSE [ok |-> TRUE, place |-> <<FreeClusters[1], 1>>, fresh |-> 1,
            writes |-> AllocateCluster(FreeClusters[1], 0)
                       \o SetCluster(tail, FreeClusters[1], 0, 0)]

(* The chain of a new file or directory: cluster k is allocated and zeroed,
   linked behind cluster k - 1, then filled.  A failed link leaves everything;
   other failures free what was linked so far. *)
BuildChain(fresh, bodies) ==
  FlattenSeq([k \in 1..Len(bodies) |->
    AllocateCluster(fresh[k], IF k = 1 THEN 0 ELSE fresh[1])
    \o (IF k = 1 THEN <<>> ELSE SetCluster(fresh[k - 1], fresh[k], 0, 0))
    \o <<ClusterWrite(fresh[k], bodies[k], 0, fresh[1])>>])

(* Build and publish, or, when the volume runs full, build and free again. *)
BuildAndPublish(slot, bodies, unit) ==
  LET fresh == SubSeq(FreeClusters, slot.fresh + 1, Len(FreeClusters))
      fits == Len(bodies) <= Len(fresh)
      first == IF bodies = <<>> THEN 0 ELSE fresh[1]
  IN  slot.writes
      \o (IF fits
          THEN BuildChain(fresh, bodies) \o <<EntryWrite(slot.place, [unit EXCEPT !.first = first])>>
          ELSE BuildChain(fresh, SubSeq(bodies, 1, Len(fresh))) \o FreeAll(fresh))

-----------------------------------------------------------------------------
(* FAT_OperateFile *)

MayOperate == writable /\ plan = <<>> /\ opsDone < MaxFileOps

Begin(op, writes) ==
  /\ plan' = writes
  /\ fileOp' = op
  /\ opsDone' = opsDone + 1
  /\ UNCHANGED <<fat, content, fsInfo, fsInfoInvalidated, writable, traversalGeneration, node>>

CreateDirectory(dir, name) ==
  /\ MayOperate /\ dir = Root /\ Find(dir, name) = <<>>
  /\ FreeSlot(dir).ok
  /\ Begin("create", BuildAndPublish(FreeSlot(dir), <<Dots>>, Unit("dir", name, 0, 0)))

DeleteWritesFreeFirst(place) ==
  FreeChain(fat[1], UnitAt(place).first) \o <<EntryWrite(place, Deleted)>>

(* The entry is gone from the directory before its clusters are freed. *)
DeleteWrites(place) ==
  <<EntryWrite(place, Deleted)>> \o FreeChain(fat[1], UnitAt(place).first)

Delete(dir, name) ==
  /\ MayOperate /\ Find(dir, name) # <<>>
  /\ LET place == Find(dir, name)
     IN  /\ UnitAt(place).kind = "dir" => Listed(SlotsFrom(UnitAt(place).first)) = <<>>
         /\ Begin("delete", DeleteWrites(place))

(* The new entry is written first: an interrupted move leaves both. *)
MoveWrites(source, slot, unit) ==
  slot.writes \o <<EntryWrite(slot.place, unit), EntryWrite(source, Deleted)>>

Move(dir, name, target, newName) ==
  /\ MayOperate /\ Find(dir, name) # <<>> /\ Find(target, newName) = <<>>
  /\ LET source == Find(dir, name)
         moved == [UnitAt(source) EXCEPT !.name = newName]
     IN  IF dir = target
         THEN Begin("rename", <<EntryWrite(source, moved)>>)
         ELSE /\ moved.kind = "file" /\ FreeSlot(target).ok
              /\ Begin("move", MoveWrites(source, FreeSlot(target), moved))

Copy(dir, name, target, newName) ==
  /\ MayOperate /\ Find(dir, name) # <<>> /\ Find(target, newName) = <<>>
  /\ LET unit == UnitAt(Find(dir, name))
         chain == Chain(fat[1], unit.first)
     IN  /\ unit.kind = "file" /\ FreeSlot(target).ok
         /\ Begin("copy", BuildAndPublish(FreeSlot(target),
                            [k \in 1..unit.size |-> content[chain[k]]],
                            [unit EXCEPT !.name = newName]))

-----------------------------------------------------------------------------
(* Performing the writes *)

ApplyTo(w) ==
  /\ fat' = IF w.kind = "fat" THEN [fat EXCEPT ![w.copy][w.at] = w.value] ELSE fat
  /\ content' = CASE w.kind = "fat" -> content
                  [] w.kind = "cluster" -> [content EXCEPT ![w.at] = w.value]
                  [] w.kind = "entry" -> [content EXCEPT ![w.at][w.slot] = w.value]

(* FAT_InvalidateTraversal: before every device write. *)
InvalidateTraversal == traversalGeneration' = traversalGeneration + 1

(* The FSInfo sector is blanked before the first change of the table. *)
InfoFirst(w) == w.kind = "fat" /\ ~fsInfoInvalidated

InvalidateFsInfo ==
  /\ plan # <<>> /\ InfoFirst(plan[1])
  /\ fsInfo' = -1 /\ fsInfoInvalidated' = TRUE
  /\ InvalidateTraversal
  /\ UNCHANGED <<fat, content, writable, plan, fileOp, node, opsDone>>

WriteBytes ==
  /\ plan # <<>> /\ ~InfoFirst(plan[1])
  /\ ApplyTo(plan[1])
  /\ InvalidateTraversal
  /\ plan' = Tail(plan)
  /\ UNCHANGED <<fsInfo, fsInfoInvalidated, writable, fileOp, node, opsDone>>

(* What the failing operation still does: give the cluster back and free the
   unpublished chain. *)
AfterFailure(w, table) ==
  (IF w.undo = 0 THEN <<>> ELSE SetCluster(w.undo, 0, 0, w.head))
  \o (IF w.head = 0 THEN <<>> ELSE FreeChain(table, w.head))

(* The device reports an error although the bytes may have arrived; the volume
   takes no new operation until it is mounted again. *)
WriteFails ==
  /\ plan # <<>>
  /\ writable' = FALSE
  /\ InvalidateTraversal
  /\ \/ ~InfoFirst(plan[1]) /\ ApplyTo(plan[1])
     \/ UNCHANGED <<fat, content>>
  /\ plan' = AfterFailure(plan[1], fat'[1])
  /\ UNCHANGED <<fsInfo, fsInfoInvalidated, fileOp, node, opsDone>>

(* The entry cannot be read before it is rewritten: the operation fails and
   the volume stays writable. *)
ReadFails ==
  /\ plan # <<>> /\ plan[1].kind = "fat"
  /\ plan' = AfterFailure(plan[1], fat[1])
  /\ UNCHANGED <<fat, content, fsInfo, fsInfoInvalidated, writable, traversalGeneration,
                 fileOp, node, opsDone>>

(* Power fails: what is on disk stays as it is until the disk is checked. *)
PowerLoss ==
  /\ plan # <<>> /\ plan' = <<>> /\ writable' = FALSE
  /\ UNCHANGED <<fat, content, fsInfo, fsInfoInvalidated, traversalGeneration,
                 fileOp, node, opsDone>>

-----------------------------------------------------------------------------
(* Enumeration of the open root directory with its traversal cache *)

Fresh(n) == n.valid /\ n.gen = traversalGeneration

(* The n-th listed slot, resuming at the checkpoint when it is of the present
   generation and not past n. *)
ReadFrom(n, ordinal) ==
  LET resume == Fresh(n) /\ n.eof = -1 /\ n.ordinal <= ordinal
      slots == IF resume THEN SlotsFrom(n.cluster) ELSE SlotsFrom(Root)
      listed == Listed(SubSeq(slots, IF resume THEN n.index ELSE 1, Len(slots)))
      wanted == ordinal - (IF resume THEN n.ordinal ELSE 0) + 1
  IN  IF (Fresh(n) /\ n.eof # -1 /\ ordinal >= n.eof) \/ wanted > Len(listed)
      THEN <<>> ELSE listed[wanted]

ReadDirectory(ordinal) ==
  /\ plan = <<>>
  /\ LET place == ReadFrom(node, ordinal)
     IN  node' = IF place = <<>>
                 THEN [NoNode EXCEPT !.valid = TRUE, !.gen = traversalGeneration,
                                     !.eof = Len(Listed(SlotsFrom(Root)))]
                 ELSE [valid |-> TRUE, gen |-> traversalGeneration, ordinal |-> ordinal,
                       index |-> place[2], cluster |-> place[1], eof |-> -1]
  /\ UNCHANGED <<fat, content, fsInfo, fsInfoInvalidated, writable, traversalGeneration,
                 plan, fileOp, opsDone>>

-----------------------------------------------------------------------------
FreeCount(table) == Cardinality({c \in Cluster : table[c] = 0})

(* A volume with a two-cluster file "A", an empty directory "D", an end marker
   and a stale entry behind it. *)
FatInit ==
  /\ fat = [copy \in 1..numFATs |->
              [c \in Cluster |-> CASE c = 3 -> 4 [] c \in {2, 4, 5} -> EOC [] OTHER -> 0]]
  /\ content = [c \in Cluster |->
       CASE c = 2 -> [s \in Slot |-> CASE s = 1 -> Unit("file", "A", 3, 2)
                                       [] s = 2 -> Unit("dir", "D", 5, 0)
                                       [] s = 3 -> End
                                       [] OTHER -> Unit("file", "stale", 6, 1)]
         [] c \in {3, 4} -> DataOf("A", c - 2)
         [] c = 5 -> Dots
         [] OTHER -> Zeroed]
  /\ fsInfo = FreeCount(fat[1])
  /\ fsInfoInvalidated = FALSE /\ writable = TRUE /\ traversalGeneration = 1
  /\ plan = <<>> /\ fileOp = "none" /\ node = NoNode /\ opsDone = 0

FatNext ==
  \/ \E d \in Directories, name \in FileName : CreateDirectory(d, name) \/ Delete(d, name)
  \/ \E d, t \in Directories, name, new \in FileName :
       Move(d, name, t, new) \/ Copy(d, name, t, new)
  \/ InvalidateFsInfo \/ WriteBytes \/ WriteFails \/ ReadFails \/ PowerLoss
  \/ \E ordinal \in Ordinal : ReadDirectory(ordinal)

FatSpec == FatInit /\ [][FatNext]_fatVars

-----------------------------------------------------------------------------
(* Whatever has been written when the device fails or the power goes, every
   entry in the tree leads to a terminated chain of allocated clusters, and a
   file's chain holds its whole contents; an entry left behind the end marker
   never comes to life. *)
PublishedChainsSound ==
  \A e \in Reachable :
    LET unit == UnitAt(e[2])
        chain == Chain(fat[1], unit.first)
    IN  /\ Terminated(fat[1], unit.first)
        /\ unit.kind = "file" =>
             /\ Len(chain) = unit.size
             /\ \A k \in 1..unit.size : content[chain[k]] = DataOf("A", k)

(* No cluster belongs to two entries, except to the two entries of a move that
   has not been completed. *)
NoCrossLinks ==
  \A e, f \in Reachable :
    (e # f /\ ~(fileOp = "move" /\ (plan # <<>> \/ ~writable)))
      => ToSet(Chain(fat[1], UnitAt(e[2]).first))
         \intersect ToSet(Chain(fat[1], UnitAt(f[2]).first)) = {}

(* The free count a later mount may read from disk is right or marked unknown,
   even after a crash. *)
FsInfoHonest == fsInfo # -1 => fsInfo = FreeCount(fat[1])

(* Enumerating through the checkpoint gives the same entries as enumerating
   from the start. *)
CacheTransparent ==
  plan = <<>> => \A ordinal \in 0..3 : ReadFrom(node, ordinal) = ReadFrom(NoNode, ordinal)

-----------------------------------------------------------------------------
(***************************************************************************)
(* Reading file data from a FAT volume, twice: FAT_ReadHandle of the       *)
(* mounted driver, which keeps a checkpoint of the cluster chain and one   *)
(* cached cluster for an open file, and ReadFile of mini_fat16, which the  *)
(* boot volume uses before the driver runs.  The VFS holds the volume's    *)
(* mutex around every driver call, so a read is one step; other files'     *)
(* operations (module Fat) change the table and raise the traversal        *)
(* generation between reads.  A byte is named by its cluster, the version  *)
(* of the cluster's contents and its place.                                *)
(***************************************************************************)
CONSTANTS
    ClusterSize,    \* bytes of a cluster
    LastReadCluster,    \* clusters are 2 .. LastReadCluster; 0 and 1 are table entries only
    Directory,      \* Directory[d]: the entries of the directory at cluster d
                    \* (0: the fixed root), as [name, kind, start, size]
    BootPath,       \* the paths read at boot: sequences of names
    OpenFile,       \* the entry of the file the handle is open on
    InitialFat,     \* the tables a volume may be mounted with
    Rewire,         \* <<cluster, entry>> changes other operations make
    MaxGeneration,  \* bound on those changes
    ReadOffset, ReadLength,
    FailAt,         \* which device read of a call fails; -1: none
    MaxWalk         \* iterations the boot reader allows itself

VARIABLES table,    \* the file allocation table
          version,  \* the version of each cluster's contents
          generation,
          chain,    \* fatNode->fileChain
          cache,    \* the cached cluster of the node, with its contents
          lastRead, \* outcome of the last FAT_ReadHandle, and what it should be
          bootNode  \* the boot volume's node: the file loaded by CreateHandle

readVars == <<table, version, generation, chain, cache, lastRead, bootNode>>

EndOfChain == LastReadCluster + 1
IsValid(c) == c \in 2.. LastReadCluster
Bytes(c) == [i \in 1..ClusterSize |-> [cluster |-> c, version |-> version[c], at |-> i]]

Mounted == bootNode.state = "unmounted"

Least(a, b) == IF a < b THEN a ELSE b

-----------------------------------------------------------------------------
(* FAT_ReadHandle.  left counts the device reads before one fails; -1 means *)
(* that none fails.  The disk drivers succeed only with complete reads.     *)

Fails(left) == left = 0
Used(left) == IF left < 0 THEN left ELSE left - 1

Reusable(start, index) ==
    /\ chain.valid /\ chain.generation = generation
    /\ chain.start = start /\ IsValid(chain.cluster)
    /\ chain.index <= index

\* Walk from a cluster to the wanted index.
RECURSIVE Walk(_, _, _, _)
Walk(c, i, index, left) ==
    IF i >= index THEN [ok |-> TRUE, cluster |-> c, index |-> i, left |-> left]
    ELSE IF Fails(left) \/ table[c] = EndOfChain
         THEN [ok |-> FALSE, cluster |-> c, index |-> i, left |-> left]
         ELSE Walk(table[c], i + 1, index, Used(left))

Cached(k, start, c, i) ==
    /\ k.valid /\ k.generation = generation
    /\ k.start = start /\ k.index = i /\ k.cluster = c

\* The copying loop: st holds the position, what was read and the node's cache.
RECURSIVE Fill(_, _, _)
Fill(st, start, size) ==
    LET hit == st.fresh \/ Cached(st.cache, start, st.cluster, st.index)
        data == IF hit THEN st.cache.data ELSE Bytes(st.cluster)
        chunk == Least(ClusterSize - st.skip, size - Len(st.read))
        got == [st EXCEPT !.read = @ \o SubSeq(data, st.skip + 1, st.skip + chunk),
                          !.skip = 0, !.fresh = FALSE,
                          !.lastCluster = st.cluster, !.lastIndex = st.index]
    IN CASE ~hit /\ Fails(st.left) ->
              [st EXCEPT !.cache.valid = FALSE]
         [] ~hit /\ ~Fails(st.left) ->
              Fill([st EXCEPT !.left = Used(@), !.fresh = TRUE,
                              !.cache = [valid |-> TRUE, generation |-> generation,
                                         start |-> start, index |-> st.index,
                                         cluster |-> st.cluster,
                                         data |-> Bytes(st.cluster)]], start, size)
         [] hit -> IF \/ Len(got.read) = size
                      \/ Fails(got.left)
                      \/ table[st.cluster] = EndOfChain
                   THEN got
                   ELSE Fill([got EXCEPT !.cluster = table[st.cluster],
                                         !.index = @ + 1, !.left = Used(@)], start, size)

\* What the file holds at an offset: the chain followed from its first cluster.
RECURSIVE ChainBytes(_, _)
ChainBytes(c, n) ==
    IF n = 0 \/ c = EndOfChain THEN << >>
    ELSE Bytes(c) \o ChainBytes(table[c], n - 1)

FileBytes(f) ==
    LET all == ChainBytes(f.start, (f.size + ClusterSize - 1) \div ClusterSize)
    IN SubSeq(all, 1, Least(f.size, Len(all)))

Slice(s, off, len) == SubSeq(s, off + 1, Least(Len(s), off + len))

\* One FAT_ReadHandle on the open file, the left-th device read failing.
ReadHandle(off, len, left) ==
    LET f == OpenFile
        size == Least(len, f.size - off)
        want == off \div ClusterSize
        reuse == Reusable(f.start, want)
        walk == Walk(IF reuse THEN chain.cluster ELSE f.start,
                     IF reuse THEN chain.index ELSE 0, want, left)
        done == Fill([cluster |-> walk.cluster, index |-> walk.index,
                      skip |-> off % ClusterSize, read |-> << >>, left |-> walk.left,
                      cache |-> cache, fresh |-> FALSE,
                      lastCluster |-> walk.cluster, lastIndex |-> walk.index],
                     f.start, size)
        stale == chain.generation # generation
    IN /\ Mounted /\ off < f.size /\ len > 0
       /\ IF ~walk.ok
          THEN /\ chain' = IF stale THEN [chain EXCEPT !.valid = FALSE] ELSE chain
               /\ lastRead' = [ok |-> FALSE, data |-> << >>, want |-> << >>, short |-> TRUE]
               /\ UNCHANGED cache
          ELSE /\ cache' = done.cache
               /\ chain' = IF done.read = << >>
                           THEN IF stale THEN [chain EXCEPT !.valid = FALSE] ELSE chain
                           ELSE [valid |-> IsValid(done.lastCluster),
                                 generation |-> generation, start |-> f.start,
                                 index |-> done.lastIndex, cluster |-> done.lastCluster]
               /\ lastRead' = [ok |-> done.read # << >>, data |-> done.read,
                               want |-> Slice(FileBytes(f), off, len), short |-> left >= 0]
       /\ UNCHANGED <<table, version, generation, bootNode>>

\* FAT_SeekHandle and FAT_CloseHandle drop the cached cluster.
SeekHandle ==
    /\ cache.valid
    /\ cache' = [cache EXCEPT !.valid = FALSE]
    /\ UNCHANGED <<table, version, generation, chain, lastRead, bootNode>>

\* An operation on the volume: it raises the generation before it writes, and
\* may give a cluster new contents and a new successor.
VolumeChange(c, entry) ==
    /\ Mounted
    /\ generation < MaxGeneration
    /\ generation' = generation + 1
    /\ table' = [table EXCEPT ![c] = entry]
    /\ version' = [version EXCEPT ![c] = 1 - @]
    /\ UNCHANGED <<chain, cache, lastRead, bootNode>>

-----------------------------------------------------------------------------
(* mini_fat16::ReadFile and the boot volume's node *)

NotFound == [name |-> "", kind |-> "none", start |-> 0, size |-> 0]

\* find_in_dir_bytes: the first live entry of that name and kind.
FindInDir(entries, name, kind) ==
    LET end == {i \in DOMAIN entries : entries[i].kind = "end"}
        live == {i \in DOMAIN entries : /\ \A e \in end : i < e
                                        /\ entries[i].name = name
                                        /\ entries[i].kind = kind}
    IN IF live = {} THEN NotFound
       ELSE entries[CHOOSE i \in live : \A j \in live : i <= j]

\* load_cluster_chain_dir: a directory whose chain cannot be followed is refused.
RECURSIVE DirLoads(_, _)
DirLoads(c, n) == /\ n > 0 /\ IsValid(c)
                  /\ table[c] = EndOfChain \/ DirLoads(table[c], n - 1)

RECURSIVE Resolve(_, _)
Resolve(path, dir) ==
    IF Len(path) = 1 THEN FindInDir(Directory[dir], path[1], "file")
    ELSE LET d == FindInDir(Directory[dir], path[1], "dir")
         IN IF d = NotFound \/ ~DirLoads(d.start, MaxWalk) THEN NotFound
            ELSE Resolve(Tail(path), d.start)

\* The loop without its check for the end of the chain.
RECURSIVE ReadClustersPast(_, _, _)
ReadClustersPast(c, remaining, n) ==
    IF remaining = 0 THEN << >>
    ELSE IF n = 0 \/ ~IsValid(c) THEN << >>
    ELSE SubSeq(Bytes(c), 1, Least(remaining, ClusterSize))
           \o ReadClustersPast(table[c], remaining - Least(remaining, ClusterSize), n - 1)

\* read_file_clusters: all of the file or, after any error, nothing.
ReadFileClusters(f) ==
    LET data == ReadClustersPast(f.start, f.size, MaxWalk)
    IN IF Len(data) = f.size THEN [ok |-> TRUE, data |-> data]
       ELSE [ok |-> FALSE, data |-> << >>]

NoReadFile(state) == [state |-> state, data |-> << >>, want |-> << >>, size |-> 0]

\* BootDeviceVFS_Lookup builds the path, CreateHandle loads the file once.
BootCreateHandle(path) ==
    LET f == Resolve(path, 0)
        r == ReadFileClusters(f)
    IN /\ bootNode.state \in {"none", "failed"}
       /\ bootNode' = IF f = NotFound \/ ~r.ok THEN NoReadFile("failed")
                      ELSE [state |-> "loaded", data |-> r.data,
                            want |-> FileBytes(f), size |-> f.size]
       /\ UNCHANGED <<table, version, generation, chain, cache, lastRead>>

\* The boot volume is unmounted before the driver's volume becomes the root.
BootUnmount ==
    /\ ~Mounted
    /\ bootNode' = NoReadFile("unmounted")
    /\ UNCHANGED <<table, version, generation, chain, cache, lastRead>>

-----------------------------------------------------------------------------
ReadInit ==
    /\ table \in InitialFat
    /\ version = [c \in 0.. LastReadCluster |-> 0]
    /\ generation = 1
    /\ chain = [valid |-> FALSE, generation |-> 0, start |-> 0, index |-> 0, cluster |-> 0]
    /\ cache = [valid |-> FALSE, generation |-> 0, start |-> 0, index |-> 0, cluster |-> 0,
                data |-> << >>]
    /\ lastRead = [ok |-> FALSE, data |-> << >>, want |-> << >>, short |-> FALSE]
    /\ bootNode = NoReadFile("none")

ReadNext ==
    \/ \E off \in ReadOffset, len \in ReadLength, left \in FailAt : ReadHandle(off, len, left)
    \/ SeekHandle
    \/ \E r \in Rewire : VolumeChange(r[1], r[2])
    \/ \E p \in BootPath : BootCreateHandle(p)
    \/ BootUnmount

ReadSpec == ReadInit /\ [][ReadNext]_readVars

-----------------------------------------------------------------------------
\* A successful read through the handle returns bytes the file holds at that
\* offset at that moment, found by following the chain from its start: the
\* checkpoint and the cached cluster never show in what is read.  Without a
\* device error it returns all of them; with one, a non-empty beginning.
ReadsFileBytes ==
    lastRead.ok =>
        /\ lastRead.data # << >>
        /\ IsPrefix(lastRead.data, lastRead.want)
        /\ ~lastRead.short => lastRead.data = lastRead.want

\* A checkpoint that FAT_ReadHandle would use names the cluster at its index of
\* the chain as it is on the disk now.
CheckpointOnChain ==
    chain.valid /\ chain.generation = generation =>
        LET w == Walk(chain.start, 0, chain.index, -1)
        IN w.ok /\ w.cluster = chain.cluster

\* A file the boot volume opened was loaded completely, with the contents the
\* FAT driver would read; a broken chain or a missing name loads nothing.
BootLoadsWholeFile ==
    bootNode.state = "loaded" => /\ bootNode.data = bootNode.want
                       /\ Len(bootNode.data) = bootNode.size

(* The volume is consistent at every write, and readers get the bytes of   *)
(* the file they opened.                                                   *)
FatConsistent ==
    /\ PublishedChainsSound /\ NoCrossLinks /\ FsInfoHonest
    /\ CacheTransparent /\ ReadsFileBytes /\ CheckpointOnChain
    /\ BootLoadsWholeFile
=============================================================================
