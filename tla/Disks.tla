------------------------------- MODULE Disks --------------------------------
(***************************************************************************)
(* From a partition table to a mounted root: the volume manager parses the *)
(* table of a disk and forwards volume requests to it, the FAT driver      *)
(* parses a volume's boot record both to mount it and to probe its serial  *)
(* number, main.cpp selects the root volume by that number, and the early  *)
(* boot reader (mini_fat16) works out the geometry of the first partition  *)
(* by itself.  All integers are the code's: byte offsets are 64-bit words  *)
(* (here modulo Word) and sector sizes are the disk's.                     *)
(***************************************************************************)
EXTENDS Integers, SequencesExt, FiniteSetsExt, TLC

CONSTANTS
    DiskImage,      \* the disks considered: a set of records, see below
    kSectorSize,    \* bytes of a disk sector
    Word,           \* 2^64 of the code: byte offsets wrap here
    LbaWord,        \* 2^32 of the code: the boot reader's sector numbers
    kMaxVolumes,    \* volumes per disk
    EntryBuffer,    \* bytes kept of a GPT entry array
    VolumeId,       \* serial numbers asked for with root=UUID=
    Offset          \* request offsets and lengths

VARIABLES disk,     \* the disk's contents
          vols,     \* the windows of the volume devices, in creation order
          root,     \* outcome of the root selection
          mount,    \* what FAT_MountVolume made of the selected volume
          boot,     \* the geometry mini_fat16 computed
          io        \* the last request forwarded to the disk

layoutVars == <<disk, vols, root, mount, boot, io>>

\* disk.sig, disk.table (the MBR: four [type, start, sectors]), disk.lba1
\* ("bad" unreadable, "blank", "gpt"), disk.num, disk.size, disk.entries (GPT:
\* [used, first, last]), disk.sectors, and disk.record: boot records by sector.
Protective == 238

DetectScheme(sig, table, lba1) ==
    IF lba1 = "gpt" THEN "gpt"
    ELSE IF ~sig THEN "none"
    ELSE IF \E i \in DOMAIN table : table[i].type = Protective THEN "gpt"
    ELSE "mbr"

Truncated(s) == SubSeq(s, 1, IF Len(s) < kMaxVolumes THEN Len(s) ELSE kMaxVolumes)

ParseMbr(table) ==
    LET Used(e) == e.type \notin {0, Protective} /\ e.sectors # 0
        Window(e) == [base |-> (e.start * kSectorSize) % Word,
                      length |-> (e.sectors * kSectorSize) % Word]
    IN Truncated([i \in 1..Len(SelectSeq(table, Used)) |->
                    Window(SelectSeq(table, Used)[i])])

\* Only the whole entries inside the bytes that were read are looked at.
ParseGptEntries(d) ==
    LET bytes == IF d.num * d.size > EntryBuffer THEN EntryBuffer ELSE d.num * d.size
        seen == IF d.size < 128 THEN 0 ELSE bytes \div d.size
        Used(e) == e.used /\ e.last >= e.first
        Window(e) == [base |-> (e.first * kSectorSize) % Word,
                      length |-> ((e.last - e.first + 1) * kSectorSize) % Word]
        kept == SelectSeq(SubSeq(d.entries, 1,
                            IF seen < Len(d.entries) THEN seen ELSE Len(d.entries)), Used)
    IN Truncated([i \in 1..Len(kept) |-> Window(kept[i])])

Partitions(d) ==
    CASE DetectScheme(d.sig, d.table, d.lba1) = "mbr" -> ParseMbr(d.table)
      [] DetectScheme(d.sig, d.table, d.lba1) = "gpt" /\ d.lba1 = "gpt" -> ParseGptEntries(d)
      [] OTHER -> << >>

\* The request fits the window, and the window does not wrap the disk offset.
ComputeAbsoluteOffset(base, length, off, len) ==
    /\ off <= length /\ len <= length - off
    /\ off <= Word - 1 - base
    /\ len <= Word - 1 - base - off

-----------------------------------------------------------------------------
(* FAT boot records *)

IsPowerOfTwo(n) == n \in {1, 2, 4, 8, 16, 32, 64, 128, 256, 512, 1024, 2048, 4096}

CeilDiv(a, b) == (a + b - 1) \div b

NoVolume == [type |-> "none", bps |-> 0, spc |-> 0, firstFAT |-> 0, fatSize |-> 0,
             rootDir |-> 0, rootSectors |-> 0, data |-> 0, clusters |-> 0,
             total |-> 0, serial |-> -1, writable |-> FALSE, fsInfo |-> 0]

FatType(clusters) ==
    IF clusters < 4085 THEN "FAT12" ELSE IF clusters < 65525 THEN "FAT16" ELSE "FAT32"

RequiredFatBytes(type, clusters) ==
    CASE type = "FAT12" -> ((clusters + 2) * 3 + 1) \div 2
      [] type = "FAT16" -> (clusters + 2) * 2
      [] OTHER -> (clusters + 2) * 4

\* FAT_ParseVbr: NoVolume for a record it refuses.
ParseVbr(b) ==
    LET total == IF b.total16 # 0 THEN b.total16 ELSE b.total32
        fatSize == IF b.fatSize16 # 0 THEN b.fatSize16 ELSE b.fatSize32
        rootSectors == CeilDiv(b.rootEntries * 32, b.bps)
        fats == b.reserved + b.numFATs * fatSize
        clusters == (total - fats - rootSectors) \div b.spc
        type == FatType(clusters)
        info == b.fsInfo > 0 /\ b.fsInfo < b.reserved
    IN IF b.sig /\ b.exfat /\ b.bps \in 512..4096 /\ b.spc <= 128
       THEN [NoVolume EXCEPT !.type = "ExFAT"]
       ELSE IF
          \/ ~b.sig \/ b.exfat
          \/ b.bps < 512 \/ b.bps > 4096 \/ ~IsPowerOfTwo(b.bps)
          \/ ~IsPowerOfTwo(b.spc) \/ b.spc > 128
          \/ b.reserved = 0 \/ b.numFATs = 0 \/ total = 0 \/ fatSize = 0
       THEN NoVolume
       ELSE IF \/ fats >= total \/ fats + rootSectors >= total
               \/ RequiredFatBytes(type, clusters) > fatSize * b.bps
               \/ type = "FAT32" /\ b.rootCluster \notin 2..(clusters + 1)
       THEN NoVolume
       ELSE [type |-> type, bps |-> b.bps, spc |-> b.spc, firstFAT |-> b.reserved,
             fatSize |-> fatSize,
             rootDir |-> IF type = "FAT32" THEN 0 ELSE fats,
             rootSectors |-> IF type = "FAT32" THEN 0 ELSE rootSectors,
             data |-> IF type = "FAT32" THEN fats ELSE fats + rootSectors,
             clusters |-> clusters, total |-> total, serial |-> b.serial,
             writable |-> type # "FAT32" \/ (~b.mirrorOff /\ b.version = 0),
             fsInfo |-> IF type = "FAT32" /\ info THEN b.fsInfo ELSE 0]

\* The record a volume starts with; unreadable when its window leaves the disk.
Readable(d, v) == /\ ComputeAbsoluteOffset(v.base, v.length, 0, kSectorSize)
                  /\ v.base + kSectorSize <= d.sectors * kSectorSize
Record(d, v) == d.record[v.base \div kSectorSize]

\* FAT_ProbeVolumeId: the serial number, -1 when the volume has none.
ProbeVolumeId(d, v) == ParseVbr(Record(d, v)).serial

-----------------------------------------------------------------------------
(* The early boot reader *)

RootDirSectors(b) == (b.rootEntries * 32 + b.bps - 1) \div b.bps

NoBoot == [ok |-> FALSE, lba |-> 0, sectors |-> 0, spc |-> 0, rootDir |-> 0, data |-> 0]

OpenVolume(d) ==
    LET parts == ParseMbr(d.table)
        v == parts[1]
        lba == v.base \div kSectorSize
        b == d.record[lba]
        fats == b.reserved + b.numFATs * b.fatSize16
    IN IF \/ DetectScheme(d.sig, d.table, "bad") # "mbr"
          \/ parts = << >>
       THEN NoBoot
       ELSE IF \/ lba >= LbaWord \/ v.length < kSectorSize \/ lba >= d.sectors
               \/ ~b.sig \/ b.bps # 512 \/ b.spc = 0 \/ b.numFATs = 0
               \/ b.fatSize16 = 0 \/ b.rootEntries = 0
       THEN NoBoot
       ELSE [ok |-> TRUE, lba |-> lba, sectors |-> v.length \div kSectorSize,
             spc |-> b.spc, rootDir |-> fats, data |-> fats + RootDirSectors(b)]

-----------------------------------------------------------------------------
NoIo == [vol |-> 0, from |-> 0, to |-> 0]
NoRoot == [code |-> "unasked", vol |-> 0, id |-> -1]

LayoutInit ==
    /\ disk \in DiskImage
    /\ vols = << >>
    /\ root = NoRoot
    /\ mount = NoVolume
    /\ boot = NoBoot
    /\ io = NoIo

\* VolMgr_StartDevice: one volume device for each partition found.
StartDevice ==
    /\ vols = << >>
    /\ Partitions(disk) # << >>
    /\ vols' = Partitions(disk)
    /\ UNCHANGED <<disk, root, mount, boot, io>>

\* VolMgr_Read, VolMgr_Write: forward a request that fits the volume.
VolumeRequest(v, off, len) ==
    /\ ComputeAbsoluteOffset(vols[v].base, vols[v].length, off, len)
    /\ io' = [vol |-> v, from |-> (vols[v].base + off) % Word,
              to |-> (vols[v].base + off + len) % Word]
    /\ UNCHANGED <<disk, vols, root, mount, boot>>

\* FindVolumeById over the volume devices, then main.cpp's panic or mount.
FindVolumeById(id) ==
    LET bad == {v \in DOMAIN vols : ~Readable(disk, vols[v])}
        matches == {v \in DOMAIN vols : ProbeVolumeId(disk, vols[v]) = id}
    IN CASE bad # {} -> [code |-> "ProbeError", vol |-> 0, id |-> id]
         [] bad = {} /\ Cardinality(matches) = 1 ->
                [code |-> "Selected", vol |-> CHOOSE v \in matches : TRUE, id |-> id]
         [] bad = {} /\ Cardinality(matches) > 1 ->
                [code |-> "Ambiguous", vol |-> 0, id |-> id]
         [] OTHER -> [code |-> "NoMatch", vol |-> 0, id |-> id]

SelectRoot(id) ==
    /\ root = NoRoot
    /\ vols # << >>
    /\ root' = FindVolumeById(id)
    /\ UNCHANGED <<disk, vols, mount, boot, io>>

\* FAT_MountVolume of the selected root; "failed" stops the boot.
MountRoot ==
    /\ root.code = "Selected"
    /\ mount = NoVolume
    /\ mount' = IF ParseVbr(Record(disk, vols[root.vol])) = NoVolume
                THEN [NoVolume EXCEPT !.type = "failed"]
                ELSE ParseVbr(Record(disk, vols[root.vol]))
    /\ UNCHANGED <<disk, vols, root, boot, io>>

\* mini_fat16's open_volume, on the disk the BIOS booted from.
OpenBootVolume ==
    /\ ~boot.ok
    /\ OpenVolume(disk).ok
    /\ boot' = OpenVolume(disk)
    /\ UNCHANGED <<disk, vols, root, mount, io>>

\* read_part_sectors: a read of the boot partition that stays inside it and
\* inside the sector numbers the BIOS can be asked for.
MayReadPart(rel, count) ==
    /\ rel <= boot.sectors /\ count <= boot.sectors - rel
    /\ boot.lba + rel < LbaWord
    /\ count = 0 \/ count - 1 <= LbaWord - 1 - (boot.lba + rel)

ReadPartSectors(rel, count) ==
    /\ boot.ok
    /\ MayReadPart(rel, count)
    /\ io' = [vol |-> -1, from |-> boot.lba + rel, to |-> boot.lba + rel + count]
    /\ UNCHANGED <<disk, vols, root, mount, boot>>

LayoutNext ==
    \/ StartDevice
    \/ \E rel, count \in Offset : ReadPartSectors(rel, count)
    \/ \E v \in DOMAIN vols, off, len \in Offset : VolumeRequest(v, off, len)
    \/ \E id \in VolumeId : SelectRoot(id)
    \/ MountRoot
    \/ OpenBootVolume

LayoutSpec == LayoutInit /\ [][LayoutNext]_layoutVars

-----------------------------------------------------------------------------
\* A request that reaches the disk through a volume device lies inside that
\* volume's window: neither the window check nor the addition of the base wraps.
\* The same holds of the sectors the early boot reader asks the BIOS for.
RequestsInsideWindow ==
    /\ io.vol > 0 =>
        /\ io.from >= vols[io.vol].base
        /\ io.from <= io.to
        /\ io.to - vols[io.vol].base <= vols[io.vol].length
    /\ io.vol = -1 =>
        /\ io.to <= boot.lba + boot.sectors
        /\ io.to <= LbaWord

\* A root selected by serial number is a volume the FAT driver can mount, it
\* carries the number asked for, and no other volume of the disk that could be
\* mounted carries it: selection and mounting judge a boot record alike.
SelectedRootMounts ==
    root.code = "Selected" =>
        /\ mount.type # "failed"
        /\ \A v \in DOMAIN vols :
              (v = root.vol) <=>
                 LET p == ParseVbr(Record(disk, vols[v]))
                 IN p # NoVolume /\ p.serial = root.id

\* In a mounted volume the table entry of every cluster lies inside one copy of
\* the table, and the sectors of every cluster lie behind the root directory and
\* inside the volume, for each of the three table formats.
ClustersInsideVolume ==
    mount.type \in {"FAT12", "FAT16", "FAT32"} =>
        \A c \in {2, 3, mount.clusters, mount.clusters + 1} \cap 2..(mount.clusters + 1) :
            LET entryEnd == CASE mount.type = "FAT12" -> (c * 3) \div 2 + 2
                              [] mount.type = "FAT16" -> c * 2 + 2
                              [] OTHER -> c * 4 + 4
                first == mount.data + (c - 2) * mount.spc
            IN /\ entryEnd <= mount.fatSize * mount.bps
               /\ first >= mount.rootDir + mount.rootSectors
               /\ first + mount.spc <= mount.total

\* The early boot reader and the FAT driver agree on where the root directory
\* and the clusters of the same FAT16 volume are, so that what the system boots
\* from and what it mounts as root are the same files.
BootReaderAgrees ==
    boot.ok =>
        LET p == ParseVbr(disk.record[boot.lba])
        IN p.type = "FAT16" => /\ boot.rootDir = p.rootDir
                               /\ boot.data = p.data
                               /\ boot.spc = p.spc

-----------------------------------------------------------------------------
(***************************************************************************)
(* The ATA driver: identification of the two drives of a channel, and      *)
(* transfers of any offset and length, which the driver splits into        *)
(* batches of sectors, issues as polled commands under the channel's       *)
(* mutex, and recovers with a channel reset when a read ends in an         *)
(* uncertain state.  The drive is external: it answers when it likes, may  *)
(* fail or stay silent, and what it does with a command written while an   *)
(* earlier one still has data pending is undefined, so either is allowed.  *)
(* A sector has two units; a byte range is a range of units.               *)
(***************************************************************************)
CONSTANTS AtaThread,    \* callers of Ata_Read and Ata_Write: positive numbers
          Drive,        \* {"master", "slave"} or a subset
          Atapi,        \* drives that answer IDENTIFY with the packet signature
          Sectors,      \* sectors of a drive
          MaxBatch,     \* 256 in the code
          Extent,       \* <<first unit, units>> of requests
          HasControl,   \* whether the channel was granted control ports
          Jobs          \* requests made in a run: bound

VARIABLES disks,    \* drives reported to the PnP manager
          probing,  \* drives still to be probed, in order
          media,    \* the drives' contents
          dev,      \* the drive's side of the channel
          holder,   \* ctx->ioMutex
          unusable, \* ctx->unusable
          job,      \* each thread's request and how far it is
          done,     \* the last request, if a successful read, returned the right data
          acked,    \* units whose last write was acknowledged
          suspect   \* a write ended without an answer (no recovery follows)

ataVars == <<disks, probing, media, dev, holder, unusable, job, done, acked, suspect>>

DriveFree == 0
NoDev == [st |-> "idle", op |-> "none", drive |-> "", lba |-> 0, left |-> 0]
NoJob == [pc |-> "idle", op |-> "none", drive |-> "", from |-> 0, units |-> 0, val |-> 0,
          plan |-> << >>, got |-> << >>, n |-> 0]
Garbage == <<-1, -1>>

-----------------------------------------------------------------------------
(* Planning: Ata_Transfer *)

Lba(u) == u \div 2

\* Batches of whole sectors, at most MaxBatch each, covering first..last.
RECURSIVE Batches(_, _)
Batches(first, count) ==
    IF count = 0 THEN << >>
    ELSE LET n == Min({MaxBatch, count})
         IN <<[op |-> "read", lba |-> first, count |-> n]>> \o Batches(first + n, count - n)

ReadPlan(from, units) ==
    LET lead == IF from % 2 # 0 THEN Min({units, 1}) ELSE 0
        whole == (units - lead) \div 2
        first == Lba(from + lead)
        One(l) == <<[op |-> "read", lba |-> l, count |-> 1]>>
    IN (IF lead # 0 THEN One(Lba(from)) ELSE << >>)
       \o Batches(first, whole)
       \o (IF (units - lead) % 2 # 0 THEN One(first + whole) ELSE << >>)

\* Each sector is written by itself and flushed; a partial one is read first.
RECURSIVE WritePlan(_, _)
WritePlan(from, units) ==
    IF units = 0 THEN << >>
    ELSE LET n == IF from % 2 # 0 THEN 1 ELSE Min({units, 2})
             Step(o) == [op |-> o, lba |-> Lba(from), count |-> 1]
         IN (IF n < 2 THEN <<Step("read")>> ELSE << >>)
            \o <<Step("write"), Step("flush")>> \o WritePlan(from + n, units - n)

BeginJob(t, op, d, e, val) ==
    /\ probing = << >>
    /\ job[t].pc = "idle"
    /\ MapThenSumSet(LAMBDA x : job[x].n, AtaThread) < Jobs
    /\ d \in disks /\ d \notin Atapi
    /\ e[1] + e[2] <= 2 * Sectors
    /\ job' = [job EXCEPT ![t] = [pc |-> "lock", op |-> op, drive |-> d, from |-> e[1],
                                  units |-> e[2], val |-> val,
                                  plan |-> IF op = "read" THEN ReadPlan(e[1], e[2])
                                           ELSE WritePlan(e[1], e[2]),
                                  got |-> << >>, n |-> job[t].n + 1]]
    /\ UNCHANGED <<disks, probing, media, dev, holder, unusable, done, acked, suspect>>

MayLock(t) == holder = DriveFree

\* The unit range of a request; its units lose their acknowledgement when a
\* write of them starts.
UnitsOf(j) == {<<j.drive, u>> : u \in j.from..(j.from + j.units - 1)}

Lock(t) ==
    /\ job[t].pc = "lock"
    /\ MayLock(t)
    /\ IF unusable
       THEN /\ job' = [job EXCEPT ![t].pc = "idle"]
            /\ done' = TRUE
            /\ UNCHANGED <<holder, acked>>
       ELSE /\ holder' = t
            /\ job' = [job EXCEPT ![t].pc = "issue"]
            /\ acked' = IF job[t].op = "read" THEN acked
                        ELSE [x \in DOMAIN acked \ UnitsOf(job[t]) |-> acked[x]]
            /\ UNCHANGED done
    /\ UNCHANGED <<disks, probing, media, dev, unusable, suspect>>

-----------------------------------------------------------------------------
(* Commands *)

Step(t) == Head(job[t].plan)

\* Select the drive and write the command.  AtaWait before it only waits for
\* BSY, so data of an earlier command may still be pending.
Issue(t) ==
    /\ job[t].pc = "issue" /\ job[t].plan # << >>
    /\ dev.st # "busy"
    /\ \/ dev' = [st |-> "busy", op |-> Step(t).op, drive |-> job[t].drive,
                  lba |-> Step(t).lba, left |-> Step(t).count]
       \/ dev.st = "drq" /\ UNCHANGED dev
    /\ job' = [job EXCEPT ![t].pc = "wait"]
    /\ UNCHANGED <<disks, probing, media, holder, unusable, done, acked, suspect>>

\* The drive: ready with data, or with an error, or simply done.
DriveAnswers ==
    /\ dev.st = "busy"
    /\ \E s \in {"drq", "error"} : dev' = [dev EXCEPT !.st = IF dev.op = "flush" /\ s = "drq"
                                                             THEN "idle" ELSE s]
    /\ UNCHANGED <<disks, probing, media, holder, unusable, job, done, acked, suspect>>

\* The sector to write: the caller's bytes over what was read.
Merged(t) ==
    LET base == IF job[t].got = << >> THEN Garbage ELSE job[t].got[Len(job[t].got)]
        l == 2 * Step(t).lba
    IN [i \in 1..2 |-> IF l + i - 1 \in job[t].from..(job[t].from + job[t].units - 1)
                       THEN job[t].val ELSE base[i]]

\* One sector moves through the data register.
TransferSector(t) ==
    /\ job[t].pc = "wait" /\ dev.st = "drq" /\ Step(t).op # "flush"
    /\ LET more == Step(t).count > 1
           next == [job[t] EXCEPT
                      !.plan = IF more THEN <<[Step(t) EXCEPT !.count = @ - 1, !.lba = @ + 1]>>
                                            \o Tail(@)
                               ELSE @,
                      !.pc = IF more THEN "wait" ELSE "final",
                      !.got = IF Step(t).op = "read"
                              THEN Append(@, IF dev.op = "read" THEN media[dev.drive][dev.lba]
                                             ELSE Garbage)
                              ELSE @]
       IN /\ job' = [job EXCEPT ![t] = next]
          /\ media' = IF Step(t).op = "write" /\ dev.op = "write"
                      THEN [media EXCEPT ![dev.drive][dev.lba] = Merged(t)] ELSE media
          /\ dev' = [dev EXCEPT !.left = @ - 1, !.lba = @ + 1,
                                !.st = IF dev.left > 1 THEN "busy" ELSE "idle"]
    /\ UNCHANGED <<disks, probing, holder, unusable, done, acked, suspect>>

\* AtaRecoverChannel: without control ports, without two clock ticks, or when
\* the drive does not come back, the channel is poisoned.
AtaRecoverChannel(usable) ==
    /\ dev' = NoDev
    /\ unusable' = ~usable

JobEnds(t, ok) ==
    /\ job' = [job EXCEPT ![t] = [NoJob EXCEPT !.n = job[t].n]]
    /\ holder' = DriveFree
    /\ done' = (job[t].op = "read" /\ ok =>
                   LET all == [u \in job[t].from..(job[t].from + job[t].units - 1) |->
                                 media[job[t].drive][Lba(u)][(u % 2) + 1]]
                       first == Lba(job[t].from)
                   IN \A u \in DOMAIN all :
                         /\ Lba(u) - first + 1 \in DOMAIN job[t].got
                         /\ job[t].got[Lba(u) - first + 1][(u % 2) + 1] = all[u])

\* A read that times out or fails with data pending resets the channel; an error
\* without data pending, and any failure of a write or a flush, just returns.
CommandFails(t) ==
    /\ job[t].pc \in {"wait", "final"}
    /\ dev.st \in {"busy", "error", "drq"}
    /\ dev.st = "drq" => job[t].pc = "final" \/ Step(t).op = "flush"
    /\ IF Step(t).op = "read" /\ dev.st # "error"
       THEN \E usable \in (IF HasControl THEN BOOLEAN ELSE {FALSE}) : AtaRecoverChannel(usable)
       ELSE /\ dev' = IF dev.st = "error" THEN NoDev ELSE dev
            /\ UNCHANGED unusable
    /\ suspect' = (suspect \/ (Step(t).op # "read" /\ dev.st # "error"))
    /\ JobEnds(t, FALSE)
    /\ UNCHANGED <<disks, probing, media, acked>>

\* The drive is still busy with an earlier command when it is selected.
SelectFails(t) ==
    /\ job[t].pc = "issue" /\ dev.st = "busy"
    /\ JobEnds(t, FALSE)
    /\ UNCHANGED <<disks, probing, media, dev, unusable, acked, suspect>>

\* The command is over: BSY and DRQ are clear.
CommandDone(t) ==
    /\ \/ job[t].pc = "final"
       \/ job[t].pc = "wait" /\ Step(t).op = "flush"
    /\ dev.st = "idle"
    /\ IF Len(job[t].plan) > 1
       THEN /\ job' = [job EXCEPT ![t].pc = "issue", ![t].plan = Tail(@)]
            /\ UNCHANGED <<holder, done, acked>>
       ELSE /\ JobEnds(t, TRUE)
            /\ acked' = IF job[t].op = "read" THEN acked
                        ELSE [x \in UnitsOf(job[t]) |-> job[t].val] @@ acked
    /\ UNCHANGED <<disks, probing, media, dev, unusable, suspect>>

-----------------------------------------------------------------------------
(* Identification: Ata_StartDevice probes the master, then the slave *)

Probe ==
    /\ probing # << >>
    /\ probing' = Tail(probing)
    /\ \E answers \in BOOLEAN :
          disks' = IF answers THEN disks \cup {Head(probing)} ELSE disks
    /\ UNCHANGED <<media, dev, holder, unusable, job, done, acked, suspect>>

AtaInit ==
    /\ disks = {}
    /\ probing = IF "slave" \in Drive THEN <<"master", "slave">> ELSE <<"master">>
    /\ media = [d \in Drive |-> [l \in 0..(Sectors - 1) |-> <<100 + 2 * l, 101 + 2 * l>>]]
    /\ dev = NoDev
    /\ holder = DriveFree
    /\ unusable = FALSE
    /\ job = [t \in AtaThread |-> NoJob]
    /\ done = TRUE
    /\ acked = << >>
    /\ suspect = FALSE

AtaNext ==
    \/ Probe
    \/ DriveAnswers
    \/ \E t \in AtaThread :
          \/ \E op \in {"read", "write"}, d \in Drive, e \in Extent, val \in {t} :
                BeginJob(t, op, d, e, val)
          \/ Lock(t) \/ Issue(t) \/ TransferSector(t) \/ SelectFails(t)
          \/ CommandFails(t) \/ CommandDone(t)

AtaSpec == AtaInit /\ [][AtaNext]_ataVars

-----------------------------------------------------------------------------
\* A read that succeeds returned exactly the requested part of the drive, also
\* after an earlier read timed out and the drive answered late.  (A write that
\* got no answer is not followed by a reset; the claim is made while none did.)
ReadsOwnSectors == ~suspect => done

\* Data whose write was acknowledged stays on the drive until the same units
\* are written again: read-modify-write of a shared sector by two callers loses
\* neither half, and no failed command overwrites another sector.
AcknowledgedKept ==
    ~suspect => \A x \in DOMAIN acked : media[x[1]][Lba(x[2])][(x[2] % 2) + 1] = acked[x]

\* Nobody issues commands on a channel another caller is using, and a channel
\* that is given up is never used again.
ChannelOwned ==
    \A t \in AtaThread : job[t].pc \in {"issue", "wait", "final"} => holder = t /\ ~unusable

(* A request reaches the sectors of its own volume on its own drive, and   *)
(* an acknowledged write is on the disk.                                   *)
SectorsAddressed ==
    /\ RequestsInsideWindow /\ SelectedRootMounts /\ ClustersInsideVolume
    /\ BootReaderAgrees /\ ReadsOwnSectors /\ AcknowledgedKept /\ ChannelOwned
=============================================================================
