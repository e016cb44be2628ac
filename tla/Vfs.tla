-------------------------------- MODULE Vfs ---------------------------------
(***************************************************************************)
(* The virtual file system (Kernel/Source/src/vfs.cpp) with the life of a  *)
(* file object (object_manager.cpp, KE_OB_Release): mounting, opening by a *)
(* path, the operations on names (copy, move, delete, create directory),   *)
(* and closing, which the last reference besides the File directory's does *)
(* by itself.  A step ends where fileMutex is released or may be waited    *)
(* for.  Volumes are external: a tree of paths, and operations that fail   *)
(* or work.                                                                *)
(***************************************************************************)
EXTENDS Integers, SequencesExt

CONSTANTS
    VfsThread, Mounter, Operator, Opener,   \* threads, and what each of them calls
    FileOp,        \* of "copy", "move", "delete", "create"
    Volume, BootVolume,
    VfsPath,       \* the paths programs use: sequences of names, <<>> is "/"
    MountPoint,    \* the paths volumes are mounted at
    TreeOf,        \* volume -> its initial tree, a set of relative paths
    MaxFiles, MaxMounts   \* bounds: file and mount objects alive at a time

VARIABLES
    mountObj,   \* object -> name, volume, isMounted, published, openFileCount
    fileObj,    \* object -> KIOObject of an open file
    tree,       \* volume -> the relative paths that exist
    attached,   \* volumes MountVolume has taken and UnmountVolume not released
    call        \* thread -> the call it is in

vfsVars == <<mountObj, fileObj, tree, attached, call>>

MountId == 1..MaxMounts
FileId == 1..MaxFiles
NoMount == [name |-> <<"free">>, volume |-> "none", isMounted |-> FALSE, published |-> FALSE,
            openFileCount |-> 0]
NoFile == [refs |-> {}, mount |-> 0, rel |-> <<>>, isClosed |-> FALSE,
           counted |-> FALSE, inDirectory |-> FALSE]
NoCall == [pc |-> "idle", job |-> "none", path |-> <<>>, dest |-> <<>>, mount |-> 0, held |-> <<>>]

VfsInit ==
    /\ mountObj = [i \in MountId |-> IF i = 1
           THEN [NoMount EXCEPT !.name = <<>>, !.volume = BootVolume, !.isMounted = TRUE,
                                !.published = TRUE]
           ELSE NoMount]
    /\ fileObj = [f \in FileId |-> NoFile]
    /\ tree = TreeOf
    /\ attached = {BootVolume}
    /\ call = [t \in VfsThread |-> NoCall]

IsDirectory(rel) == IF rel = <<>> THEN TRUE ELSE Last(rel) # "f"
Published == {i \in MountId : mountObj[i].published}
Named(path) == {i \in Published : mountObj[i].name = path}

(* findMountPoint: the published mount with the longest name that is a     *)
(* prefix of the path, 0 for none.                                         *)
findMountPoint(path) ==
    LET over == {i \in Published : IsPrefix(mountObj[i].name, path)}
    IN  IF over = {} THEN 0
        ELSE CHOOSE i \in over : \A j \in over : Len(mountObj[j].name) <= Len(mountObj[i].name)

Relative(i, path) == SubSeq(path, Len(mountObj[i].name) + 1, Len(path))
mountPointIsSpecial(path) == path = <<>>
UnusedMounts == {i \in MountId : /\ ~mountObj[i].published
                                 /\ \A t \in VfsThread : call[t].mount # i
                                 /\ \A f \in FileId : fileObj[f].refs # {} => fileObj[f].mount # i}
Idle(t) == call[t].pc = "idle"
Become(t, c) == call' = [call EXCEPT ![t] = c]

-----------------------------------------------------------------------------
(* KE_VFS_Mount up to MountVolume: the name is checked, then the volume is *)
(* attached, which takes disk reads.                                       *)
Mount(t, path, v) ==
    /\ Idle(t) /\ v \notin attached /\ UnusedMounts # {}
    /\ LET existing == findMountPoint(path)
       IN  /\ existing # 0 => mountObj[existing].name # path
           /\ existing # 0 \/ mountPointIsSpecial(path)
    /\ LET i == CHOOSE x \in UnusedMounts : TRUE
       IN  /\ mountObj' = [mountObj EXCEPT ![i] = [NoMount EXCEPT !.name = path, !.volume = v,
                                                                 !.isMounted = TRUE]]
           /\ Become(t, [NoCall EXCEPT !.pc = "publish", !.mount = i])
    /\ attached' = attached \cup {v}
    /\ UNCHANGED <<fileObj, tree>>

(* KE_VFS_Mount from KE_OB_InsertObject on: a name taken meanwhile undoes  *)
(* the mount.                                                              *)
MountPublish(t) ==
    LET i == call[t].mount  free == Named(mountObj[i].name) = {}
    IN  /\ call[t].pc = "publish"
        /\ mountObj' = [mountObj EXCEPT ![i].published = free, ![i].isMounted = free]
        /\ attached' = IF free THEN attached ELSE attached \ {mountObj[i].volume}
        /\ Become(t, NoCall) /\ UNCHANGED <<fileObj, tree>>

(* KE_VFS_Unmount, from its lookup to its lock.                            *)
Unmount(t, path) ==
    /\ Idle(t)
    /\ \A u \in VfsThread : call[u].pc # "unmount"   \* one caller: main.cpp remounts "/"
    /\ \E i \in Named(path) : Become(t, [NoCall EXCEPT !.pc = "unmount", !.mount = i])
    /\ UNCHANGED <<mountObj, fileObj, tree, attached>>

MayUnmount(i) == mountObj[i].openFileCount = 0

UnmountLocked(t) ==
    LET i == call[t].mount
    IN  /\ call[t].pc = "unmount"
        /\ \/ /\ MayUnmount(i)
              /\ mountObj' = [mountObj EXCEPT ![i].isMounted = FALSE, ![i].published = FALSE]
              /\ attached' = attached \ {mountObj[i].volume}
           \/ UNCHANGED <<mountObj, attached>>     \* refused: busy, or by the file system
        /\ Become(t, NoCall) /\ UNCHANGED <<fileObj, tree>>

-----------------------------------------------------------------------------
(* KE_VFS_OpenFile up to its lock; held lists the files this call opened.  *)
Opening(t, job, path, dest, open, held) ==
    LET i == findMountPoint(open)
    IN  Become(t, [pc |-> IF i = 0 THEN "close" ELSE "open", job |-> job, path |-> path,
                   dest |-> dest, mount |-> i, held |-> held])

handle_Open(t, path) ==
    /\ Idle(t) /\ findMountPoint(path) # 0
    /\ Opening(t, "open", path, path, path, <<>>)
    /\ UNCHANGED <<mountObj, fileObj, tree, attached>>

(* KE_VFS_OperateFile up to the open of the first parent directory.        *)
OperateFile(t, op, src, dest) ==
    /\ Idle(t) /\ src # <<>> /\ dest # <<>> /\ findMountPoint(Front(src)) # 0
    /\ Opening(t, op, src, dest, Front(src), <<>>)
    /\ UNCHANGED <<mountObj, fileObj, tree, attached>>

HasDestination(op) == op \in {"copy", "move"}
OpenPath(c) == IF c.job = "open" THEN c.path ELSE IF c.held = <<>> THEN Front(c.path) ELSE Front(c.dest)

OpensHere(i, rel) == mountObj[i].isMounted /\ rel \in tree[mountObj[i].volume]

(* KE_VFS_OpenFile from its lock on: the walk, CreateHandle, and the entry *)
(* in the File directory and in the mount's list.                          *)
OpenLocked(t) ==
    LET c == call[t]  i == c.mount  rel == Relative(i, OpenPath(c))
    IN  /\ c.pc = "open"
        /\ \/ /\ OpensHere(i, rel)
              /\ \E f \in {x \in FileId : /\ fileObj[x].refs = {}
                                          /\ \A y \in 1..(x - 1) : fileObj[y].refs # {}} :
                   /\ fileObj' = [fileObj EXCEPT ![f] =
                          [refs |-> {"directory", t}, mount |-> i, rel |-> rel, isClosed |-> FALSE,
                           counted |-> TRUE, inDirectory |-> TRUE]]
                   /\ mountObj' = [mountObj EXCEPT ![i].openFileCount = @ + 1]
                   /\ Become(t, IF c.job = "open" THEN NoCall
                                ELSE [c EXCEPT !.mount = 0, !.held = Append(c.held, f),
                                     !.pc = IF HasDestination(c.job) /\ c.held = <<>>
                                            THEN "target" ELSE "operate"])
           \/ /\ Become(t, [c EXCEPT !.mount = 0, !.pc = "close"])   \* any of its errors
              /\ UNCHANGED <<mountObj, fileObj>>
        /\ UNCHANGED <<tree, attached>>

OpenTarget(t) ==
    /\ call[t].pc = "target"
    /\ Opening(t, call[t].job, call[t].path, call[t].dest, Front(call[t].dest), call[t].held)
    /\ UNCHANGED <<mountObj, fileObj, tree, attached>>

(* Faulty variant: only other open directories make it busy.               *)
BusyDirectories(i, src, held) ==
    \E f \in FileId \ ToSet(held) :
        fileObj[f].counted /\ fileObj[f].mount = i /\ IsDirectory(fileObj[f].rel)
(* The scan of openFiles: any other open directory, or an open file at or  *)
(* below the source, makes the operation busy.                             *)
Busy(i, src, held) ==
    \E f \in FileId \ ToSet(held) :
        /\ fileObj[f].counted /\ fileObj[f].mount = i
        /\ IsDirectory(fileObj[f].rel) \/ IsPrefix(src, fileObj[f].rel)

(* External: what a file system's OperateFile does to the tree.            *)
Operated(files, op, src, dest) ==
    CASE op = "delete" /\ src \in files /\ ~(\E p \in files : p # src /\ IsPrefix(src, p)) -> files \ {src}
      [] op = "create" -> files \cup {src}
      [] op = "copy" /\ src \in files -> files \cup {dest}
      [] op = "move" /\ src \in files /\ dest \notin files /\ ~IsPrefix(src, dest) ->
             {IF IsPrefix(src, p) THEN dest \o SubSeq(p, Len(src) + 1, Len(p)) ELSE p : p \in files}
      [] OTHER -> files

(* KE_VFS_OperateFile under the first parent's lock.                       *)
OperateLocked(t) ==
    LET c == call[t]  i == fileObj[Head(c.held)].mount  src == Relative(i, c.path)
        dest == Relative(i, c.dest)  v == mountObj[i].volume
        allowed == /\ findMountPoint(c.path) = i
                   /\ Len(c.held) = 2 => /\ fileObj[c.held[2]].mount = i
                                         /\ findMountPoint(c.dest) = i
                   /\ \A h \in ToSet(c.held) : IsDirectory(fileObj[h].rel)
                   /\ ~Busy(i, src, c.held)
    IN  /\ c.pc = "operate"
        /\ \/ allowed /\ tree' = [tree EXCEPT ![v] = Operated(@, c.job, src, dest)]
           \/ UNCHANGED tree
        /\ Become(t, [c EXCEPT !.pc = "close"])
        /\ UNCHANGED <<mountObj, fileObj, attached>>

-----------------------------------------------------------------------------
(* KE_VFS_CloseFile: the second close of a file does nothing.              *)
Closes(f) == ~f.isClosed

(* KE_VFS_CloseFile of the last file the call holds, and its release.      *)
CloseFile(t) ==
    LET c == call[t]  f == Last(c.held)  file == fileObj[f]
        refs == file.refs \ ({t} \cup (IF Closes(file) THEN {"directory"} ELSE {}))
    IN  /\ c.pc = "close" /\ c.held # <<>>
        /\ IF Closes(file)
           THEN /\ mountObj' = [mountObj EXCEPT ![file.mount].openFileCount = @ - 1]
                /\ fileObj' = [fileObj EXCEPT ![f] = IF refs = {} THEN NoFile ELSE
                       [file EXCEPT !.isClosed = TRUE, !.counted = FALSE, !.inDirectory = FALSE,
                                    !.refs = refs]]
           ELSE /\ fileObj' = [fileObj EXCEPT ![f] = IF refs = {} THEN NoFile
                                                     ELSE [file EXCEPT !.refs = refs]]
                /\ UNCHANGED mountObj
        /\ Become(t, [c EXCEPT !.held = Front(c.held)])
        /\ UNCHANGED <<tree, attached>>

CallReturns(t) ==
    /\ call[t].pc = "close" /\ call[t].held = <<>>
    /\ Become(t, NoCall) /\ UNCHANGED <<mountObj, fileObj, tree, attached>>

(* handle_Open of an existing object of the File directory.                *)
OpenObject(t, f) ==
    /\ Idle(t) /\ fileObj[f].inDirectory /\ t \notin fileObj[f].refs
    /\ fileObj' = [fileObj EXCEPT ![f].refs = @ \cup {t}]
    /\ UNCHANGED <<mountObj, tree, attached, call>>

(* KE_OB_Release: the previous count was 2 and the directory holds one.    *)
LastUser(f, refs) == fileObj[f].inDirectory /\ refs = {"directory"}

(* handle_Close: the handle's reference goes; the last one closes.         *)
handle_Close(t, f) ==
    LET refs == fileObj[f].refs \ {t}
    IN  /\ Idle(t) /\ t \in fileObj[f].refs
        /\ IF LastUser(f, refs)
           THEN /\ Become(t, [NoCall EXCEPT !.pc = "close", !.held = <<f>>])
                /\ UNCHANGED fileObj
           ELSE /\ fileObj' = [fileObj EXCEPT ![f] = IF refs = {} THEN NoFile
                                                     ELSE [@ EXCEPT !.refs = refs]]
                /\ UNCHANGED call
        /\ UNCHANGED <<mountObj, tree, attached>>

VfsNext ==
    \/ \E t \in Mounter, p \in MountPoint : Unmount(t, p) \/ (\E v \in Volume : Mount(t, p, v))
    \/ \E t \in Opener : \/ \E p \in VfsPath : handle_Open(t, p)
                         \/ \E f \in FileId : OpenObject(t, f) \/ handle_Close(t, f)
    \/ \E t \in Operator, op \in FileOp, p, q \in VfsPath :
          HasDestination(op) = (p # q) /\ OperateFile(t, op, p, q)
    \/ \E t \in VfsThread :
          \/ MountPublish(t) \/ UnmountLocked(t)
          \/ OpenLocked(t) \/ OpenTarget(t) \/ OperateLocked(t) \/ CloseFile(t) \/ CallReturns(t)

VfsSpec == VfsInit /\ [][VfsNext]_vfsVars

-----------------------------------------------------------------------------
(* The node of an open file exists, on a volume that is mounted: what      *)
(* OperateFile refuses as busy, and Unmount with open files, covers every  *)
(* file opened before, meanwhile or through another thread's handle.       *)
OpenNodesExist ==
    \A f \in FileId : fileObj[f].counted =>
        LET m == mountObj[fileObj[f].mount]
        IN  m.isMounted /\ fileObj[f].rel \in tree[m.volume]

(* A file only the File directory knows is never left behind: whoever let  *)
(* go last closed it.                                                      *)
NoForgottenFile == \A f \in FileId : fileObj[f].refs # {"directory"}

(* A volume a file system holds is one that a published mount, or a mount  *)
(* in progress, will release.                                              *)
AttachedIsMounted ==
    \A v \in attached : \E i \in MountId :
        /\ mountObj[i].volume = v /\ mountObj[i].isMounted
        /\ mountObj[i].published \/ (\E t \in VfsThread : call[t].pc = "publish" /\ call[t].mount = i)

-----------------------------------------------------------------------------
(***************************************************************************)
(* Streams over the two ends of a virtual terminal (KIOObject and the      *)
(* TtySink and TtySource operations of io.cpp): reference counted, shared  *)
(* through handles, closed explicitly or by their destructor.              *)
(***************************************************************************)
CONSTANTS
    StreamId,      \* KIOObjects
    HandleHolder   \* processes and threads that keep handles

VARIABLES
    stream,        \* each stream: its end, its count, closed, owner of the end
    using,         \* <<h, s>>: h has a handle to stream s
    ended,         \* ends of the terminal that were closed
    opened         \* ends that ever had an owning stream

ioVars == <<stream, using, ended, opened>>

NoStream == [end |-> "sink", ref |-> 0, isClosed |-> TRUE, owns |-> FALSE]

IoInit ==
    /\ stream = [s \in StreamId |-> NoStream]
    /\ using = {} /\ ended = {} /\ opened = {}

-----------------------------------------------------------------------------
(* TtySinkClose and TtySourceClose: what closing a stream closes.          *)
Ends(s) ==
    IF stream[s].isClosed \/ (stream[s].end = "sink" /\ ~stream[s].owns) THEN {}
    ELSE {stream[s].end}

(* KE_IO_CreateTtySinkStream, KE_IO_CreateTtySourceStream and              *)
(* KE_IO_FromObject; CreateProcess makes a reader that does not own the    *)
(* sink it reads.                                                          *)
OpenStream(h, s, end, owns) ==
    /\ stream[s].ref = 0 /\ (end = "source" => owns)
    /\ \A r \in StreamId : stream[r].ref = 0 => s <= r
    /\ stream' = [stream EXCEPT ![s] =
                     [end |-> end, ref |-> 1, isClosed |-> FALSE, owns |-> owns]]
    /\ using' = using \union {<<h, s>>}
    /\ opened' = IF owns THEN opened \union {end} ELSE opened
    /\ UNCHANGED ended

(* A handle is duplicated or inherited.                                    *)
ShareStream(h, s, to) ==
    /\ <<h, s>> \in using /\ <<to, s>> \notin using
    /\ using' = using \union {<<to, s>>}
    /\ stream' = [stream EXCEPT ![s].ref = @ + 1]
    /\ UNCHANGED <<ended, opened>>

(* KIOObject::Close, called while other handles may remain.                *)
CloseStream(h, s) ==
    /\ <<h, s>> \in using /\ ~stream[s].isClosed
    /\ ended' = ended \union Ends(s)
    /\ stream' = [stream EXCEPT ![s].isClosed = TRUE]
    /\ UNCHANGED <<using, opened>>

(* ~KIOObject closes a stream nobody closed.                               *)
Destroyed(s) == Ends(s)

DropStream(h, s) ==
    /\ <<h, s>> \in using
    /\ using' = using \ {<<h, s>>}
    /\ IF stream[s].ref = 1
       THEN ended' = ended \union Destroyed(s) /\ stream' = [stream EXCEPT ![s] = NoStream]
       ELSE stream' = [stream EXCEPT ![s].ref = @ - 1] /\ UNCHANGED ended
    /\ UNCHANGED opened

-----------------------------------------------------------------------------
IoNext ==
    \E h \in HandleHolder, s \in StreamId :
        \/ \E e \in {"sink", "source"}, w \in BOOLEAN : OpenStream(h, s, e, w)
        \/ CloseStream(h, s) \/ DropStream(h, s)
        \/ \E to \in HandleHolder : ShareStream(h, s, to)

IoSpec == IoInit /\ [][IoNext]_ioVars

-----------------------------------------------------------------------------
(* When the last stream over an end of a terminal goes away, closed or     *)
(* just dropped, the end is closed, so its peer sees the end of input      *)
(* (~KIOObject, TtySinkClose, TtySourceClose).                             *)
EndClosedWithLastStream ==
    \A e \in opened :
        e \in ended \/ \E s \in StreamId : stream[s].ref > 0 /\ ~stream[s].isClosed
                                            /\ stream[s].end = e /\ stream[s].owns

(* An open file pins its node and its mount, and a stream end is closed    *)
(* with its last owner.                                                    *)
FilesPinned ==
    /\ OpenNodesExist /\ NoForgottenFile /\ AttachedIsMounted
    /\ EndClosedWithLastStream
=============================================================================
