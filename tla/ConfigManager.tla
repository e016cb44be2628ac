--------------------------- MODULE ConfigManager ---------------------------
(***************************************************************************)
(* The configuration manager: the LocalMachine hive, its on-disk index and *)
(* the switch from the boot volume to the root volume.                     *)
(*                                                                         *)
(* A hive file is a row of cells.  Cell 0 is the header; a block pair is   *)
(* one cell for nextBlockOffset, one per index entry and one per name      *)
(* entry, followed by its data region.  A key is known by the hash of its  *)
(* short name and the hash of its parent's; "0" is the hash of the root.   *)
(* The ghost field `path' is the full path a key was created under.        *)
(*                                                                         *)
(* KE_CM_OpenRoot, OpenKey, CreateKey and DeleteKey take the hive's mutex  *)
(* three times (open and reference, work, release), so another thread can  *)
(* act in between.                                                         *)
(***************************************************************************)
EXTENDS Integers, Sequences, FiniteSets, SequencesExt, FiniteSetsExt

CONSTANTS CmThread,       \* threads using the configuration manager
          KeyName,        \* short names of keys (their hashes)
          MaxDepth,       \* longest path used
          SlotsPerBlock,  \* ENTRIES_PER_INDEX_BLOCK
          NamesPerBlock,  \* ENTRIES_PER_NAME_BLOCK
          HiveCells,      \* the largest hive the file system can hold
          ValueCells,     \* value type -> size of such a value
          MaxRefs,        \* largest value of configptr_references
          WriteFault,     \* which write of a call fails (0: none)
          MaxCmOps        \* bound: operations begun

VARIABLES files,     \* volume -> the cells of its hive file
          hive,      \* KConfigurationRoot
          rootOf,    \* the volume mounted at "/", or "none"
          boot,      \* the boot thread: [pc, selected]
          cmOp,      \* thread -> the call it is in
          handle,    \* thread -> the KConfigurationKey it holds
          taint,     \* ghost: what has gone wrong with the loaded index
          cmOps      \* calls begun

cmVars == <<files, hive, rootOf, boot, cmOp, handle, taint, cmOps>>

Hash(path) == IF path = <<>> THEN "0" ELSE path[Len(path)]

Zero == [tag |-> "zero", hash |-> "", parent |-> "", name |-> -1,
         type |-> "Invalid", off |-> 0, len |-> 0, path |-> <<>>]
PointerCell(o) == [Zero EXCEPT !.tag = "pointer", !.off = o]
NameCell(h) == [Zero EXCEPT !.tag = "name", !.hash = h]
IndexCell(e) == [tag |-> "index", hash |-> e.hash, parent |-> e.parent,
                 name |-> e.name, type |-> e.type, off |-> e.off,
                 len |-> e.len, path |-> e.path]
ByteCell(e, type) == [Zero EXCEPT !.tag = "byte", !.hash = e.hash,
                                  !.parent = e.parent, !.type = type]

BlockPairCells == 1 + SlotsPerBlock + NamesPerBlock
FirstBlock == 1
SlotCell(block, i) == block + 1 + i
PairedNameBlockOffset(block) == block + 1 + SlotsPerBlock
EmptyPair == <<PointerCell(0)>> \o [i \in 1..(BlockPairCells - 1) |-> Zero]

FormatEmptyConfigurationFile ==
    [c \in 0..(HiveCells - 1) |->
        IF c = 0 THEN [Zero EXCEPT !.tag = "header"]
        ELSE IF c = FirstBlock THEN PointerCell(0) ELSE Zero]

(***************************************************************************)
(* Writing.  A run of writes is [f, n, bad, ok]: the file, how many writes *)
(* were tried, which one the device refuses, and whether the last one      *)
(* succeeded.  A write past the largest hive is refused as well.           *)
(***************************************************************************)
Device(f, bad) == [f |-> f, n |-> 0, bad |-> bad, ok |-> TRUE]

WriteRawAt(s, at, cells) ==
    IF s.n + 1 = s.bad \/ at + Len(cells) > HiveCells
    THEN [s EXCEPT !.n = @ + 1, !.ok = FALSE]
    ELSE [s EXCEPT !.n = @ + 1, !.ok = TRUE,
                   !.f = [c \in DOMAIN @ |->
                            IF c \in at..(at + Len(cells) - 1)
                            THEN cells[c - at + 1] ELSE @[c]]]

PersistIndexEntry(s, e) == WriteRawAt(s, e.slot, <<IndexCell(e)>>)

\* A plausible slip: the entries of another block pair are the ones looked at.
DataRegionEndOfOthers(roots, block) ==
    Max({block + BlockPairCells} \cup
        {e.off + e.len : e \in {x \in ToSet(roots) : x.block # block}})

ComputeDataRegionEnd(roots, block) ==
    Max({block + BlockPairCells} \cup
        {e.off + e.len : e \in {x \in ToSet(roots) : x.block = block}})

\* FindOrAllocateFreeSlot: the number of live entries of a block is taken for
\* the first free slot; a full last block gets a new pair behind its data.
RECURSIVE FindOrAllocateFreeSlot(_, _, _)
FindOrAllocateFreeSlot(roots, s, block) ==
    LET occupied == Cardinality({i \in DOMAIN roots : roots[i].block = block})
        next == s.f[block]
        new == ComputeDataRegionEnd(roots, block)
        fresh == WriteRawAt(s, new, SubSeq(EmptyPair, 1, 1 + SlotsPerBlock))
        named == WriteRawAt(fresh, PairedNameBlockOffset(new),
                            SubSeq(EmptyPair, 2 + SlotsPerBlock, BlockPairCells))
        linked == WriteRawAt(named, block, <<PointerCell(new)>>)
    IN  IF occupied < SlotsPerBlock
        THEN [s |-> s, ok |-> TRUE, block |-> block, slot |-> SlotCell(block, occupied)]
        ELSE IF next.tag # "pointer"
        THEN [s |-> s, ok |-> FALSE, block |-> 0, slot |-> 0]
        ELSE IF next.off # 0
        THEN FindOrAllocateFreeSlot(roots, s, next.off)
        ELSE IF ~(fresh.ok /\ named.ok /\ linked.ok)
        THEN [s |-> IF ~fresh.ok THEN fresh ELSE IF ~named.ok THEN named ELSE linked,
              ok |-> FALSE, block |-> 0, slot |-> 0]
        ELSE FindOrAllocateFreeSlot(roots, linked, new)

FindOrAllocateNameSlot(s, block, hash) ==
    LET slots == PairedNameBlockOffset(block)..(block + BlockPairCells - 1)
        empty == {c \in slots : s.f[c].tag = "zero"}
    IN  IF empty = {}
        THEN [s |-> s, name |-> -1]
        ELSE LET at == Min(empty)
                 w == WriteRawAt(s, at, <<NameCell(hash)>>)
             IN  [s |-> w, name |-> IF w.ok THEN at - PairedNameBlockOffset(block) ELSE -1]

(***************************************************************************)
(* Loading the index: every non-empty slot along the chain, in order.      *)
(***************************************************************************)
EntryIn(f, block, i) ==
    LET c == f[SlotCell(block, i)]
    IN  [hash |-> c.hash, parent |-> c.parent, name |-> c.name, type |-> c.type,
         off |-> c.off, len |-> c.len, path |-> c.path,
         slot |-> SlotCell(block, i), block |-> block]

RECURSIVE ChainFrom(_, _)
ChainFrom(f, block) ==
    IF f[block].tag # "pointer" THEN <<>>
    ELSE IF f[block].off = 0 THEN <<block>>
    ELSE <<block>> \o ChainFrom(f, f[block].off)

Loadable(f) == f[0].tag = "header" /\ Len(ChainFrom(f, FirstBlock)) > 0
               /\ f[Last(ChainFrom(f, FirstBlock))].off = 0

LoadConfigurationIndex(f) ==
    FlattenSeq([b \in 1..Len(ChainFrom(f, FirstBlock)) |->
        LET block == ChainFrom(f, FirstBlock)[b]
            used == {i \in 0..(SlotsPerBlock - 1) :
                        f[SlotCell(block, i)].tag # "zero" /\ f[SlotCell(block, i)].hash # ""}
            order == SetToSortSeq(used, <)
        IN  [k \in 1..Len(order) |-> EntryIn(f, block, order[k])]])

(***************************************************************************)
(* The hive object.                                                        *)
(***************************************************************************)
ClosedHive == [file |-> "none", loaded |-> FALSE, volume |-> "none",
               roots |-> <<>>, refs |-> 1]
Idle0 == [pc |-> "idle", kind |-> "none", name |-> "none", new |-> FALSE,
          path |-> <<>>]
NoHandle == [open |-> FALSE, path |-> <<>>]

\* A hive holding one key with a value, as the installer leaves it on the
\* boot volume.
InstalledHive ==
    LET k == CHOOSE n \in KeyName : TRUE
        type == CHOOSE v \in DOMAIN ValueCells : ValueCells[v] = 1
        data == FirstBlock + BlockPairCells
        e == [hash |-> k, parent |-> "0", name |-> 0, type |-> type, off |-> data,
              len |-> 1, path |-> <<k>>, slot |-> SlotCell(FirstBlock, 0),
              block |-> FirstBlock]
    IN  [FormatEmptyConfigurationFile EXCEPT
            ![SlotCell(FirstBlock, 0)] = IndexCell(e),
            ![PairedNameBlockOffset(FirstBlock)] = NameCell(k),
            ![data] = ByteCell(e, type)]

CmInit ==
    /\ files \in {[bootvol |-> InstalledHive, rootvol |-> r] :
                    r \in {FormatEmptyConfigurationFile,
                           [FormatEmptyConfigurationFile EXCEPT ![0] = Zero]}}
    /\ hive = ClosedHive
    /\ rootOf = "bootvol"
    /\ boot \in [pc : {"prepare"}, selected : {"bootvol", "rootvol"}]
    /\ cmOp = [t \in CmThread |-> Idle0]
    /\ handle = [t \in CmThread |-> NoHandle]
    /\ taint = {}
    /\ cmOps = 0

IsRootReady == hive.file # "none" /\ hive.loaded

EnsureRootIsOpened ==
    LET file == IF hive.file = "none" THEN rootOf ELSE hive.file
    IN  IF file = "none"
        THEN [ok |-> FALSE, hive |-> hive, reload |-> FALSE]
        ELSE IF hive.loaded /\ hive.volume = file
        THEN [ok |-> TRUE, hive |-> [hive EXCEPT !.file = file], reload |-> FALSE]
        ELSE IF ~Loadable(files[file])
        THEN [ok |-> FALSE, hive |-> [ClosedHive EXCEPT !.refs = hive.refs], reload |-> TRUE]
        ELSE [ok |-> TRUE, reload |-> TRUE,
              hive |-> [file |-> file, loaded |-> TRUE, volume |-> file,
                        roots |-> LoadConfigurationIndex(files[file]), refs |-> hive.refs]]

Released(h, n) == [h EXCEPT !.refs = IF @ > n THEN @ - n ELSE 1]

(***************************************************************************)
(* First section of OpenRoot, OpenKey, CreateKey and DeleteKey.            *)
(***************************************************************************)
OpenAndReferenceConfigRoot(t, kind, name) ==
    /\ boot.pc # "panic"
    /\ cmOp[t].pc = "idle"
    /\ cmOps < MaxCmOps
    /\ kind = "root" => name = "none"
    /\ kind # "root" => name \in KeyName /\ Len(handle[t].path) < MaxDepth
    /\ LET opened == EnsureRootIsOpened
           ok == opened.ok /\ hive.refs < MaxRefs
       IN  /\ hive' = IF ok THEN [opened.hive EXCEPT !.refs = @ + 1] ELSE opened.hive
           /\ taint' = IF opened.reload THEN {} ELSE taint
           /\ cmOp' = IF ok THEN [cmOp EXCEPT ![t] =
                                    [Idle0 EXCEPT !.pc = "work", !.kind = kind, !.name = name]]
                      ELSE cmOp
    /\ cmOps' = cmOps + 1
    /\ UNCHANGED <<files, rootOf, boot, handle>>

\* The path a call names: below its parent handle, or below the root.
Named(t) == IF handle[t].open THEN Append(handle[t].path, cmOp[t].name)
            ELSE <<cmOp[t].name>>
ParentHash(t) == IF handle[t].open THEN Hash(handle[t].path) ELSE "0"

Matches(t) == {i \in DOMAIN hive.roots : /\ hive.roots[i].hash = cmOp[t].name
                                         /\ hive.roots[i].parent = ParentHash(t)}

\* A new KConfigurationKey, which takes a reference of its own.
Obtained(t, h, path, memory) ==
    IF memory /\ h.refs < MaxRefs
    THEN /\ hive' = [h EXCEPT !.refs = @ + 1]
         /\ cmOp' = [cmOp EXCEPT ![t].pc = "release", ![t].new = TRUE, ![t].path = path]
    ELSE /\ hive' = h
         /\ cmOp' = [cmOp EXCEPT ![t].pc = "release"]

OpenRoot(t, memory) ==
    /\ cmOp[t].pc = "work" /\ cmOp[t].kind = "root" /\ boot.pc # "panic"
    /\ Obtained(t, hive, <<>>, memory)
    /\ UNCHANGED <<files, rootOf, boot, handle, taint, cmOps>>

OpenKey(t, memory) ==
    /\ cmOp[t].pc = "work" /\ cmOp[t].kind = "open" /\ boot.pc # "panic"
    /\ IF Matches(t) = {}
       THEN /\ cmOp' = [cmOp EXCEPT ![t].pc = "release"]
            /\ hive' = hive
       ELSE Obtained(t, hive, Named(t), memory)
    /\ UNCHANGED <<files, rootOf, boot, handle, taint, cmOps>>

\* A second live entry in the slot of another is remembered as a clash.
Clash(roots, e) == \E x \in ToSet(roots) : x.slot = e.slot

CreateKey(t, exclusive, memory, bad) ==
    /\ cmOp[t].pc = "work" /\ cmOp[t].kind = "create" /\ boot.pc # "panic"
    /\ IF Matches(t) # {}
       THEN /\ IF exclusive
               THEN cmOp' = [cmOp EXCEPT ![t].pc = "release"] /\ hive' = hive
               ELSE Obtained(t, hive, Named(t), memory)
            /\ UNCHANGED <<files, taint>>
       ELSE LET slot == FindOrAllocateFreeSlot(hive.roots, Device(files[hive.file], bad),
                                               FirstBlock)
                named == FindOrAllocateNameSlot(slot.s, slot.block, cmOp[t].name)
                e == [hash |-> cmOp[t].name, parent |-> ParentHash(t), name |-> named.name,
                      type |-> "Invalid", off |-> 0, len |-> 0, path |-> Named(t),
                      slot |-> slot.slot, block |-> slot.block]
                kept == PersistIndexEntry(named.s, e)
            IN  IF ~slot.ok
                THEN /\ files' = [files EXCEPT ![hive.file] = slot.s.f]
                     /\ cmOp' = [cmOp EXCEPT ![t].pc = "release"]
                     /\ UNCHANGED <<hive, taint>>
                ELSE /\ files' = [files EXCEPT ![hive.file] = kept.f]
                     /\ IF kept.ok
                        THEN /\ Obtained(t, [hive EXCEPT !.roots = Append(@, e)], Named(t), memory)
                             /\ taint' = taint \cup {x \in {"clash"} : Clash(hive.roots, e)}
                        ELSE /\ cmOp' = [cmOp EXCEPT ![t].pc = "release"]
                             /\ UNCHANGED <<hive, taint>>
    /\ UNCHANGED <<rootOf, boot, handle, cmOps>>

\* Clears the index entry, then the name entry, then the entry in memory.
DeleteKey(t, bad) ==
    /\ cmOp[t].pc = "work" /\ cmOp[t].kind = "delete" /\ boot.pc # "panic"
    /\ IF Matches(t) = {}
       THEN UNCHANGED <<files, hive>>
       ELSE LET i == Min(Matches(t))
                e == hive.roots[i]
                cleared == WriteRawAt(Device(files[hive.file], bad), e.slot, <<Zero>>)
                unnamed == IF cleared.ok /\ e.name # -1
                           THEN WriteRawAt(cleared, PairedNameBlockOffset(e.block) + e.name, <<Zero>>)
                           ELSE cleared
            IN  /\ files' = [files EXCEPT ![hive.file] = unnamed.f]
                /\ hive' = IF cleared.ok THEN [hive EXCEPT !.roots = RemoveAt(@, i)] ELSE hive
    /\ cmOp' = [cmOp EXCEPT ![t].pc = "release"]
    /\ UNCHANGED <<rootOf, boot, handle, taint, cmOps>>

\* Third section; the caller's handle becomes the new one, if there is one.
ReleaseConfigRootReference(t) ==
    /\ cmOp[t].pc = "release" /\ boot.pc # "panic"
    /\ LET o == cmOp[t]
           replaced == o.new /\ handle[t].open
       IN  /\ hive' = Released(hive, IF replaced THEN 2 ELSE 1)
           /\ handle' = IF o.new THEN [handle EXCEPT ![t] = [open |-> TRUE, path |-> o.path]]
                        ELSE handle
    /\ cmOp' = [cmOp EXCEPT ![t] = Idle0]
    /\ UNCHANGED <<files, rootOf, boot, taint, cmOps>>

DecrementConfigRootReferenceCount(t) ==
    /\ handle[t].open /\ cmOp[t].pc = "idle" /\ boot.pc # "panic"
    /\ hive' = Released(hive, 1)
    /\ handle' = [handle EXCEPT ![t] = NoHandle]
    /\ UNCHANGED <<files, rootOf, boot, cmOp, taint, cmOps>>

(***************************************************************************)
(* Values.                                                                 *)
(***************************************************************************)
Own(t) == {i \in DOMAIN hive.roots : /\ hive.roots[i].hash = Hash(handle[t].path)
                                     /\ hive.roots[i].parent = Hash(Front(handle[t].path))}

SetKeyValue(t, type, bad) ==
    /\ handle[t].open /\ handle[t].path # <<>> /\ cmOp[t].pc = "idle"
    /\ boot.pc # "panic" /\ cmOps < MaxCmOps /\ cmOps' = cmOps + 1
    /\ IF ~IsRootReady \/ Own(t) = {}
       THEN UNCHANGED <<files, hive, taint>>
       ELSE LET i == Min(Own(t))
                e == hive.roots[i]
                size == ValueCells[type]
                at == IF size > e.len THEN ComputeDataRegionEnd(hive.roots, e.block) ELSE e.off
                wrote == WriteRawAt(Device(files[hive.file], bad), at,
                                    [c \in 1..size |-> ByteCell(e, type)])
                new == [e EXCEPT !.off = at, !.len = size, !.type = type]
                kept == PersistIndexEntry(wrote, new)
            IN  IF ~wrote.ok
                THEN UNCHANGED <<files, hive, taint>>
                ELSE /\ files' = [files EXCEPT ![hive.file] = kept.f]
                     /\ hive' = [hive EXCEPT !.roots[i] = new]
                     /\ taint' = taint \cup {x \in {"torn"} : ~kept.ok}
    /\ UNCHANGED <<rootOf, boot, cmOp, handle>>

\* The entry in memory is cleared before the one on disk.
DeleteValue(t, name, bad) ==
    /\ handle[t].open /\ cmOp[t].pc = "idle" /\ boot.pc # "panic"
    /\ cmOps < MaxCmOps /\ cmOps' = cmOps + 1
    /\ LET child == {i \in DOMAIN hive.roots : /\ hive.roots[i].hash = name
                                               /\ hive.roots[i].parent = Hash(handle[t].path)}
       IN  IF ~IsRootReady \/ child = {} \/ hive.roots[Min(child)].type = "Invalid"
           THEN UNCHANGED <<files, hive, taint>>
           ELSE LET i == Min(child)
                    new == [hive.roots[i] EXCEPT !.type = "Invalid", !.off = 0, !.len = 0]
                    kept == PersistIndexEntry(Device(files[hive.file], bad), new)
                IN  /\ files' = [files EXCEPT ![hive.file] = kept.f]
                    /\ hive' = [hive EXCEPT !.roots[i] = new]
                    /\ taint' = taint \cup {x \in {"torn"} : ~kept.ok}
    /\ UNCHANGED <<rootOf, boot, cmOp, handle>>

(***************************************************************************)
(* The boot thread changes "/" from the boot volume to the selected one.   *)
(***************************************************************************)
PrepareRootVolumeSwitch ==
    /\ boot.pc = "prepare"
    /\ IF hive.refs > 1
       THEN boot' = [boot EXCEPT !.pc = "panic"] /\ hive' = hive
       ELSE /\ hive' = [hive EXCEPT !.file = "none"]
            /\ boot' = [boot EXCEPT !.pc = "mount"]
    /\ UNCHANGED <<files, rootOf, cmOp, handle, taint, cmOps>>

\* KE_VFS_Unmount refuses while a file is open; then the root is mounted.
RemountRoot ==
    \/ /\ boot.pc = "mount"
       /\ IF hive.file # "none"
          THEN boot' = [boot EXCEPT !.pc = "panic"] /\ rootOf' = rootOf
          ELSE boot' = [boot EXCEPT !.pc = "mounting"] /\ rootOf' = "none"
       /\ UNCHANGED <<files, hive, cmOp, handle, taint, cmOps>>
    \/ /\ boot.pc = "mounting"
       /\ boot' = [boot EXCEPT !.pc = "promote"]
       /\ rootOf' = boot.selected
       /\ UNCHANGED <<files, hive, cmOp, handle, taint, cmOps>>

PromoteBootHive ==
    /\ boot.pc = "promote"
    /\ IF hive.refs > 1
       THEN /\ boot' = [boot EXCEPT !.pc = "panic"]
            /\ UNCHANGED <<hive, taint>>
       ELSE IF hive.loaded /\ hive.volume = boot.selected
       THEN /\ boot' = [boot EXCEPT !.pc = "done"]
            /\ hive' = [hive EXCEPT !.file = boot.selected]
            /\ taint' = taint
       ELSE IF ~Loadable(files[boot.selected])
       THEN /\ boot' = [boot EXCEPT !.pc = "panic"]
            /\ hive' = [ClosedHive EXCEPT !.refs = hive.refs]
            /\ taint' = {}
       ELSE /\ boot' = [boot EXCEPT !.pc = "done"]
            /\ hive' = [file |-> boot.selected, loaded |-> TRUE, volume |-> boot.selected,
                        roots |-> LoadConfigurationIndex(files[boot.selected]),
                        refs |-> hive.refs]
            /\ taint' = {}
    /\ UNCHANGED <<files, rootOf, cmOp, handle, cmOps>>

CmNext ==
    \/ \E t \in CmThread :
        \/ \E kind \in {"root", "open", "create", "delete"}, name \in KeyName \cup {"none"} :
              OpenAndReferenceConfigRoot(t, kind, name)
        \/ \E memory \in BOOLEAN : OpenRoot(t, memory) \/ OpenKey(t, memory)
        \/ \E exclusive, memory \in BOOLEAN, bad \in WriteFault :
              CreateKey(t, exclusive, memory, bad)
        \/ \E bad \in WriteFault : DeleteKey(t, bad)
        \/ ReleaseConfigRootReference(t)
        \/ DecrementConfigRootReferenceCount(t)
        \/ \E type \in DOMAIN ValueCells, bad \in WriteFault : SetKeyValue(t, type, bad)
        \/ \E name \in KeyName, bad \in WriteFault : DeleteValue(t, name, bad)
    \/ PrepareRootVolumeSwitch
    \/ RemountRoot
    \/ PromoteBootHive

CmSpec == CmInit /\ [][CmNext]_cmVars

(***************************************************************************)
(* Properties.                                                             *)
(***************************************************************************)
InUse == {t \in CmThread : cmOp[t].pc # "idle" \/ handle[t].open}

\* While a call is between its lock sections or a handle is open, the hive
\* stays open on the volume its index was loaded from: the root switch of the
\* boot path refuses as long as configptr_references counts a user.
UsersPinTheHive ==
    InUse # {} => IsRootReady /\ hive.volume = hive.file /\ hive.refs > 1

\* The index in memory is the one on disk, in the same order, also after a
\* refused write at any point of a call, until a failed update of a value
\* tears an entry, two entries share a slot, or a second block pair exists.
IndexMirrorsFile ==
    hive.file # "none" /\ hive.loaded /\ taint = {} /\ files[hive.file][FirstBlock].off = 0
        => hive.roots = LoadConfigurationIndex(files[hive.file])

\* In a hive of one block pair, every value in the index reads back the bytes
\* last written for that key, whatever values were relocated or deleted.
ValuesIntact ==
    hive.file # "none" /\ hive.loaded /\ "torn" \notin taint
        /\ files[hive.file][FirstBlock].off = 0
        => \A e \in ToSet(hive.roots) : \A c \in e.off..(e.off + e.len - 1) :
              files[hive.file][c] = ByteCell(e, e.type)

\* A slot freed by KE_CM_DeleteKey is left unused, and no key is ever given
\* the slot of another live key.
SlotsNeverShared ==
    \A i, j \in DOMAIN hive.roots : i # j => hive.roots[i].slot # hive.roots[j].slot

\* Values stay within data regions: the growth of one block pair's data never
\* overwrites the block pair that follows it.
BlocksNeverOverwritten ==
    \A v \in DOMAIN files : \A e \in {x \in ToSet(hive.roots) : hive.volume = v} :
        \A c \in (e.block)..(e.block + BlockPairCells - 1) : files[v][c].tag # "byte"

\* A key found under a parent was created under that parent.
KeysBelongToTheirParent ==
    \A t \in CmThread : handle[t].open /\ handle[t].path # <<>> =>
        \A i \in Own(t) : hive.roots[i].path = handle[t].path

(* The hive in memory, its file and the keys in use agree.                 *)
HiveConsistent == UsersPinTheHive /\ IndexMirrorsFile /\ ValuesIntact
=============================================================================
