-------------------------------- MODULE Gdi ---------------------------------
(***************************************************************************)
(* Drawing objects of one process: device contexts (DCs) named by          *)
(* generation-tagged handles, bitmaps and fonts named by process handles,  *)
(* and the drawing calls.  The scene lock makes each section below atomic; *)
(* SelectFont and DrawText give it up in the middle, and other threads of  *)
(* the process run there.                                                  *)
(*                                                                         *)
(* A DC handle is <<generation, index>>.  Every DC, bitmap and font also   *)
(* has an identity that is never reused, which only the properties see.    *)
(***************************************************************************)
EXTENDS Integers, SequencesExt, FiniteSetsExt

CONSTANTS GdiThread,
          MaxIndex,       \* largest slot index (0xFFFF)
          GenerationSpan, \* generations a slot can tell apart (2^16)
          MaxRawHandle,   \* largest process handle (UINT32_MAX - 1)
          MaxGdiObjects   \* bound on the identities handed out

VARIABLES slots,    \* DeviceContextTable::chunks
          freeSlots,\* free_indices
          entries,  \* ProcessHandleTable::entries: handle -> entry
          freeRaw,  \* free_list
          gdiOp,    \* thread -> the call it is in
          lastId,   \* identities handed out
          given,    \* DC handle -> the DC it was first given out for
          drawn     \* the DC the last drawing call named, and the one it drew on

gdiVars == <<slots, freeSlots, entries, freeRaw, gdiOp, lastId, given, drawn>>

Nothing == 0
Screen == -1
NoSlot == [used |-> FALSE, gen |-> 1, memory |-> FALSE, target |-> Nothing,
           font |-> Nothing, id |-> Nothing]
NoEntry == [kind |-> "none", id |-> Nothing, owner |-> "none"]
NoOp == [pc |-> "idle", dc |-> <<0, 0>>, slot |-> 0, id |-> Nothing, font |-> Nothing,
         raw |-> 0]

Handle == 0..MaxRawHandle
Named == {<<g, i>> : g \in 0..GenerationSpan - 1, i \in 0..MaxIndex}
NextRaw == Cardinality({h \in Handle : entries[h] # NoEntry}) + Len(freeRaw)
NextIndex == Len(slots)

GdiInit ==
    /\ slots = << >>
    /\ freeSlots = << >>
    /\ entries = [h \in Handle |-> NoEntry]
    /\ freeRaw = << >>
    /\ gdiOp = [t \in GdiThread |-> NoOp]
    /\ lastId = 0
    /\ given = [dc \in Named |-> Nothing]
    /\ drawn = [asked |-> Nothing, got |-> Nothing]

Resolve(dc) == /\ dc[2] < Len(slots)
               /\ slots[dc[2] + 1].used /\ slots[dc[2] + 1].gen = dc[1]

At(dc) == slots[dc[2] + 1]

IdleThread(t) == gdiOp[t].pc = "idle"
NewId == lastId < MaxGdiObjects /\ lastId' = lastId + 1

(***************************************************************************)
(* Device contexts.                                                        *)
(***************************************************************************)
\* `attached': the desktop is on a target with a surface; `chunk': there is
\* memory when the table must grow.
CreateDC(t, memory, attached, chunk) ==
    /\ IdleThread(t) /\ NewId
    /\ memory \/ attached
    /\ freeSlots # << >> \/ (NextIndex <= MaxIndex /\ chunk)
    /\ LET index == IF freeSlots # << >> THEN Head(freeSlots) ELSE NextIndex
           gen == IF freeSlots # << >> THEN slots[index + 1].gen ELSE NoSlot.gen
           new == [used |-> TRUE, gen |-> gen, memory |-> memory,
                   target |-> IF memory THEN Nothing ELSE Screen,
                   font |-> Nothing, id |-> lastId + 1]
       IN  /\ slots' = IF freeSlots # << >> THEN [slots EXCEPT ![index + 1] = new]
                       ELSE Append(slots, new)
           /\ freeSlots' = IF freeSlots # << >> THEN Tail(freeSlots) ELSE freeSlots
           /\ given' = IF given[<<gen, index>>] # Nothing THEN given
                       ELSE [given EXCEPT ![<<gen, index>>] = lastId + 1]
    /\ UNCHANGED <<entries, freeRaw, gdiOp, drawn>>

\* A plausible slip: the generation is left as it is.
CloseSlotKeepsGeneration(s) == [NoSlot EXCEPT !.gen = s.gen]

\* Close of a resolved handle: the slot forgets what it held and moves on by
\* one generation.
CloseSlot(s) == [NoSlot EXCEPT !.gen = (s.gen + 1) % GenerationSpan]

DeleteDC(t, dc) ==
    /\ IdleThread(t) /\ Resolve(dc)
    /\ slots' = [slots EXCEPT ![dc[2] + 1] = CloseSlot(@)]
    /\ freeSlots' = Append(freeSlots, dc[2])
    /\ UNCHANGED <<entries, freeRaw, gdiOp, lastId, given, drawn>>

(***************************************************************************)
(* Bitmaps and fonts: entries of the process's handle table.               *)
(***************************************************************************)
Allocated(e) ==
    LET h == IF freeRaw # << >> THEN Head(freeRaw) ELSE NextRaw
    IN  [raw |-> h, entries |-> [entries EXCEPT ![h] = e],
         free |-> IF freeRaw # << >> THEN Tail(freeRaw) ELSE freeRaw]

CanAllocate == freeRaw # << >> \/ NextRaw <= MaxRawHandle

Create(t, kind) ==
    /\ IdleThread(t) /\ NewId /\ CanAllocate
    /\ LET a == Allocated([kind |-> kind, id |-> lastId + 1, owner |-> "none"])
       IN  entries' = a.entries /\ freeRaw' = a.free
    /\ UNCHANGED <<slots, freeSlots, gdiOp, given, drawn>>

CreateBitmap(t) == Create(t, "bitmap")
AcquireFont(t) == Create(t, "font")

CloseHandle(t, h, kind) ==
    /\ IdleThread(t) /\ entries[h].kind = kind
    /\ entries' = [entries EXCEPT ![h] = NoEntry]
    /\ freeRaw' = Append(freeRaw, h)
    /\ UNCHANGED <<slots, freeSlots, gdiOp, lastId, given, drawn>>

DeleteObject(t, h) == CloseHandle(t, h, "bitmap")
CloseFont(t, h) == CloseHandle(t, h, "font")

SelectObject(t, dc, h) ==
    /\ IdleThread(t) /\ Resolve(dc) /\ entries[h].kind = "bitmap" /\ At(dc).memory
    /\ slots' = [slots EXCEPT ![dc[2] + 1].target = entries[h].id]
    /\ UNCHANGED <<freeSlots, entries, freeRaw, gdiOp, lastId, given, drawn>>

\* SelectFont reserves a handle for the previous font before it takes the
\* scene lock.
SelectFont(t, dc, h) ==
    /\ IdleThread(t) /\ entries[h].kind = "font" /\ CanAllocate
    /\ LET a == Allocated([kind |-> "reserved", id |-> Nothing, owner |-> t])
       IN  /\ entries' = a.entries /\ freeRaw' = a.free
           /\ gdiOp' = [gdiOp EXCEPT ![t] = [NoOp EXCEPT !.pc = "select", !.dc = dc,
                                               !.font = entries[h].id, !.raw = a.raw]]
    /\ UNCHANGED <<slots, freeSlots, lastId, given, drawn>>

Cancels(resolved, previous) == ~resolved \/ previous = Nothing

SelectFontFinish(t) ==
    /\ gdiOp[t].pc = "select"
    /\ LET o == gdiOp[t]
           resolved == Resolve(o.dc)
           previous == IF resolved THEN At(o.dc).font ELSE Nothing
       IN  /\ slots' = IF resolved THEN [slots EXCEPT ![o.dc[2] + 1].font = o.font] ELSE slots
           /\ IF Cancels(resolved, previous)
              THEN /\ entries' = [entries EXCEPT ![o.raw] = NoEntry]
                   /\ freeRaw' = Append(freeRaw, o.raw)
              ELSE /\ entries' = IF previous = Nothing THEN entries
                                 ELSE [entries EXCEPT ![o.raw] = [kind |-> "font",
                                                 id |-> previous, owner |-> "none"]]
                   /\ UNCHANGED freeRaw
    /\ gdiOp' = [gdiOp EXCEPT ![t] = NoOp]
    /\ UNCHANGED <<freeSlots, lastId, given, drawn>>

(***************************************************************************)
(* Drawing.  LineTo, Rectangle, BitBlt and the rest resolve and draw in    *)
(* one section; DrawText prepares its glyphs between two.                  *)
(***************************************************************************)
Draw(t, dc) ==
    /\ IdleThread(t) /\ Resolve(dc) /\ At(dc).target # Nothing
    /\ drawn' = [asked |-> given[dc], got |-> At(dc).id]
    /\ UNCHANGED <<slots, freeSlots, entries, freeRaw, gdiOp, lastId, given>>

DrawText(t, dc) ==
    /\ IdleThread(t) /\ Resolve(dc) /\ At(dc).font # Nothing
    /\ gdiOp' = [gdiOp EXCEPT ![t] = [NoOp EXCEPT !.pc = "text", !.dc = dc, !.slot = dc[2],
                                        !.id = At(dc).id, !.font = At(dc).font]]
    /\ UNCHANGED <<slots, freeSlots, entries, freeRaw, lastId, given, drawn>>

StillThere(o) == Resolve(o.dc) /\ o.dc[2] = o.slot

DrawTextFinish(t) ==
    /\ gdiOp[t].pc = "text"
    /\ LET o == gdiOp[t]
       IN  drawn' = IF StillThere(o) /\ slots[o.slot + 1].target # Nothing
                    THEN [asked |-> o.id, got |-> slots[o.slot + 1].id]
                    ELSE drawn
    /\ gdiOp' = [gdiOp EXCEPT ![t] = NoOp]
    /\ UNCHANGED <<slots, freeSlots, entries, freeRaw, lastId, given>>

GdiNext ==
    \E t \in GdiThread :
        \/ \E memory, attached, chunk \in BOOLEAN : CreateDC(t, memory, attached, chunk)
        \/ CreateBitmap(t) \/ AcquireFont(t)
        \/ \E dc \in Named :
            \/ DeleteDC(t, dc) \/ Draw(t, dc) \/ DrawText(t, dc)
            \/ \E h \in Handle : SelectObject(t, dc, h) \/ SelectFont(t, dc, h)
        \/ \E h \in Handle : DeleteObject(t, h) \/ CloseFont(t, h)
        \/ SelectFontFinish(t) \/ DrawTextFinish(t)

GdiSpec == GdiInit /\ [][GdiNext]_gdiVars

(***************************************************************************)
(* Properties.                                                             *)
(***************************************************************************)
\* Text lands on the DC the call named, never on another one that took its slot
\* while the glyphs were prepared.
DrawsOnNamedDc == drawn.asked = drawn.got

\* A handle number kept back by SelectFont belongs to a call in progress: a DC
\* deleted under the call does not leave the reservation behind.
ReservationsOwned ==
    \A h \in Handle : entries[h].kind = "reserved" =>
        \E t \in GdiThread : gdiOp[t].pc = "select" /\ gdiOp[t].raw = h

\* Deleting a DC retires its handle: while the generations of a slot last, no
\* DC created later answers to a handle that was given out for an earlier one.
HandlesNameOneDc ==
    \A dc \in Named : given[dc] # Nothing /\ Resolve(dc) => At(dc).id = given[dc]

-----------------------------------------------------------------------------
(***************************************************************************)
(* Font resources: a process uploads a face in pieces, commits it to the   *)
(* kernel's face registry, and any process publishes a pair of faces as    *)
(* the default font.  Memory is accounted for in three budgets.            *)
(*                                                                         *)
(* A handle is <<generation, slot>>.  A face is known by an identity that  *)
(* is never reused; it lives while a registry slot, the default font or a  *)
(* publication in progress refers to it.  A publication is slow: it holds  *)
(* the publisher lock over several steps, and everything else runs between.*)
(***************************************************************************)
CONSTANTS Uploader,          \* processes
          ResourceSlots,     \* slots of a process (4)
          RegistrySlots,     \* slots of the registry (16)
          LastGeneration,    \* MaxGeneration, 2^24 - 1
          UploadSize,        \* sizes a process asks for
          MaxProcessBytes,
          MaxRegisteredBytes,
          MaxFaces,          \* bound on faces created
          MaxPublished       \* bound on publications

VARIABLES table,     \* process -> slot -> upload or face handle
          bytes,     \* process -> ResourceTable::bytes_
          uploads,   \* bytes of fontResourceBudget
          registry,  \* FaceRegistry::slots_
          faceBytes, \* bytes of the registry's budget
          sizeOf,    \* faces in the order of their creation -> size
          current,   \* DefaultFont::current_
          pub,       \* process -> its publication in progress
          retired    \* handles that were closed, for the properties

fontVars == <<table, bytes, uploads, registry, faceBytes, sizeOf, current, pub, retired>>

FreshSlot == [gen |-> 1, used |-> FALSE, committed |-> FALSE, written |-> 0,
              reserved |-> 0, face |-> <<0, 0>>]
NoPub == [pc |-> "idle", regular |-> <<0, 0>>, bold |-> <<0, 0>>, faces |-> {}, gen |-> 0]

FontInit ==
    /\ table = [p \in Uploader |-> [i \in 1..ResourceSlots |-> FreshSlot]]
    /\ bytes = [p \in Uploader |-> 0]
    /\ uploads = 0
    /\ registry = [i \in 1..RegistrySlots |-> [gen |-> 1, face |-> 0]]
    /\ faceBytes = 0
    /\ sizeOf = [f \in {} |-> 0]
    /\ current = [gen |-> 0, faces |-> {}]
    /\ pub = [p \in Uploader |-> NoPub]
    /\ retired = {}

Total(Size(_), S) == MapThenSumSet(Size, S)

\* Faces something refers to.
Held(reg, cur, pb) == ({reg[i].face : i \in DOMAIN reg} \cup cur.faces
                       \cup UNION {pb[p].faces : p \in Uploader}) \ {0}

\* The bytes of the faces whose last reference a step drops.
Dropped(reg, cur, pb) ==
    Total(LAMBDA f : sizeOf[f], Held(registry, current, pub) \ Held(reg, cur, pb))

NextGeneration(g) == IF g = LastGeneration THEN 0 ELSE g + 1

(***************************************************************************)
(* Uploads.                                                                *)
(***************************************************************************)
Begin(p, size, memory) ==
    /\ size <= MaxProcessBytes - bytes[p]
    /\ \E i \in 1..ResourceSlots :
        /\ ~table[p][i].used /\ table[p][i].gen # 0
        /\ \A j \in 1..(i - 1) : table[p][j].used \/ table[p][j].gen = 0
        /\ size <= MaxRegisteredBytes - uploads
        /\ memory
        /\ table' = [table EXCEPT ![p][i] = [FreshSlot EXCEPT !.gen = table[p][i].gen,
                                               !.used = TRUE, !.reserved = size]]
    /\ uploads' = uploads + size
    /\ bytes' = [bytes EXCEPT ![p] = @ + size]
    /\ UNCHANGED <<registry, faceBytes, sizeOf, current, pub, retired>>

\* One piece, at the offset the upload has reached.
AppendPiece(p, i, size) ==
    /\ table[p][i].used /\ ~table[p][i].committed
    /\ size <= table[p][i].reserved - table[p][i].written
    /\ table' = [table EXCEPT ![p][i].written = @ + size]
    /\ UNCHANGED <<bytes, uploads, registry, faceBytes, sizeOf, current, pub, retired>>

RegistryHandle(reg, h) == h[2] \in DOMAIN reg /\ reg[h[2]].gen = h[1] /\ reg[h[2]].face # 0

\* ResourceTable::release: the slot, its budget or its face.
Released(p, i) ==
    LET s == table[p][i]
        reg == IF s.committed /\ RegistryHandle(registry, s.face)
               THEN [registry EXCEPT ![s.face[2]] = [gen |-> NextGeneration(@.gen), face |-> 0]]
               ELSE registry
    IN  /\ table' = [table EXCEPT ![p][i] = [FreshSlot EXCEPT !.gen = NextGeneration(s.gen)]]
        /\ bytes' = [bytes EXCEPT ![p] = @ - s.reserved]
        /\ uploads' = IF s.committed THEN uploads ELSE uploads - s.reserved
        /\ registry' = reg
        /\ faceBytes' = faceBytes - Dropped(reg, current, pub)
        /\ retired' = retired \cup {<<p, s.gen, i>>}
        /\ UNCHANGED <<sizeOf, current, pub>>

CloseResource(p, i) == table[p][i].used /\ Released(p, i)

AfterCommit(s) == uploads - s.reserved

\* `valid': the bytes pass validation and there is memory for the face.
CommitUpload(p, i, valid) ==
    LET s == table[p][i]
        vacant == {r \in 1..RegistrySlots : registry[r].face = 0 /\ registry[r].gen # 0}
        f == Cardinality(DOMAIN sizeOf) + 1
        ok == /\ s.gen # LastGeneration
              /\ valid /\ s.reserved <= MaxRegisteredBytes - faceBytes
              /\ vacant # {}
    IN  /\ s.used /\ ~s.committed /\ s.written = s.reserved /\ f <= MaxFaces
        /\ IF ok
           THEN LET r == Min(vacant)
                IN  /\ registry' = [registry EXCEPT ![r].face = f]
                    /\ faceBytes' = faceBytes + s.reserved
                    /\ sizeOf' = [x \in DOMAIN sizeOf \cup {f} |->
                                    IF x = f THEN s.reserved ELSE sizeOf[x]]
                    /\ uploads' = AfterCommit(s)
                    /\ table' = [table EXCEPT ![p][i].gen = @ + 1, ![p][i].committed = TRUE,
                                              ![p][i].face = <<registry[r].gen, r>>]
                    /\ retired' = retired \cup {<<p, s.gen, i>>}
                    /\ UNCHANGED <<bytes, current, pub>>
           ELSE Released(p, i)

(***************************************************************************)
(* The default font.                                                       *)
(***************************************************************************)
MayPublish(p) == \A q \in Uploader : pub[q].pc = "idle"

FaceHandles(p) == {table[p][i].face : i \in {j \in 1..ResourceSlots : table[p][j].committed}}

PublishStart(p, regular, bold) ==
    /\ MayPublish(p) /\ current.gen < MaxPublished
    /\ pub' = [pub EXCEPT ![p] = [NoPub EXCEPT !.pc = "regular", !.regular = regular,
                                                 !.bold = bold]]
    /\ UNCHANGED <<table, bytes, uploads, registry, faceBytes, sizeOf, current, retired>>

\* The faces are acquired one after the other; a stale handle ends the call.
PublishAcquire(p) ==
    /\ pub[p].pc \in {"regular", "bold"}
    /\ LET h == IF pub[p].pc = "regular" THEN pub[p].regular ELSE pub[p].bold
           next == IF RegistryHandle(registry, h)
                   THEN [pub[p] EXCEPT !.faces = @ \cup {registry[h[2]].face},
                                       !.pc = IF @ = "regular" THEN "bold" ELSE "realize"]
                   ELSE NoPub
           pb == [pub EXCEPT ![p] = next]
       IN  /\ pub' = pb
           /\ faceBytes' = faceBytes - Dropped(registry, current, pb)
    /\ UNCHANGED <<table, bytes, uploads, registry, sizeOf, current, retired>>

\* Both realizations and all glyphs are made, or the call fails; the generation
\* follows the one in force now.
PublishRealize(p, ok) ==
    /\ pub[p].pc = "realize"
    /\ LET pb == [pub EXCEPT ![p] = IF ok THEN [@ EXCEPT !.pc = "apply", !.gen = current.gen + 1]
                                    ELSE NoPub]
       IN  pub' = pb /\ faceBytes' = faceBytes - Dropped(registry, current, pb)
    /\ UNCHANGED <<table, bytes, uploads, registry, sizeOf, current, retired>>

\* publish_builtin: no faces to acquire.
PublishBuiltin(p) ==
    /\ MayPublish(p) /\ current.gen < MaxPublished
    /\ pub' = [pub EXCEPT ![p] = [NoPub EXCEPT !.pc = "apply", !.gen = current.gen + 1]]
    /\ UNCHANGED <<table, bytes, uploads, registry, faceBytes, sizeOf, current, retired>>

\* apply_default_font commits unless a window would leave the coordinate range.
PublishApply(p, fits) ==
    /\ pub[p].pc = "apply"
    /\ LET cur == IF fits THEN [gen |-> pub[p].gen, faces |-> pub[p].faces] ELSE current
           pb == [pub EXCEPT ![p] = NoPub]
       IN  /\ current' = cur
           /\ pub' = pb
           /\ faceBytes' = faceBytes - Dropped(registry, cur, pb)
    /\ UNCHANGED <<table, bytes, uploads, registry, sizeOf, retired>>

\* The process exits: clear() releases every slot, one after the other.
FontNext ==
    \E p \in Uploader :
        \/ \E size \in UploadSize, memory \in BOOLEAN : Begin(p, size, memory)
        \/ \E i \in 1..ResourceSlots :
            \/ \E size \in UploadSize : AppendPiece(p, i, size)
            \/ \E valid \in BOOLEAN : CommitUpload(p, i, valid)
            \/ CloseResource(p, i)
        \/ \E regular, bold \in FaceHandles(p) : PublishStart(p, regular, bold)
        \/ PublishAcquire(p) \/ PublishBuiltin(p)
        \/ \E ok \in BOOLEAN : PublishRealize(p, ok) \/ PublishApply(p, ok)

FontSpec == FontInit /\ [][FontNext]_fontVars

(***************************************************************************)
(* Properties.                                                             *)
(***************************************************************************)
\* The budgets say what is really held: uploads in progress, what each process
\* has, and the faces something still refers to, through failed commits, closed
\* handles and faces that outlive their process.
BudgetsExact ==
    /\ \A p \in Uploader :
        bytes[p] = Total(LAMBDA i : table[p][i].reserved, 1..ResourceSlots)
    /\ uploads = Total(LAMBDA p : Total(LAMBDA i : IF table[p][i].committed THEN 0
                                                   ELSE table[p][i].reserved,
                                        1..ResourceSlots), Uploader)
    /\ faceBytes = Total(LAMBDA f : sizeOf[f], Held(registry, current, pub))

\* A handle that was closed, or an upload handle that became a face handle, never
\* names a resource again, even when the generations of its slot run out.
ClosedHandlesStayClosed ==
    \A p \in Uploader, i \in 1..ResourceSlots :
        table[p][i].used => <<p, table[p][i].gen, i>> \notin retired

\* Every publication has a generation of its own, above the one it replaces:
\* windows and controls see each change of the default font once.
GenerationsGrow == current' # current => current'.gen > current.gen

(* A handle of a device context or a font names one object or none, and    *)
(* budgets are what is in use.                                             *)
HandlesSound ==
    /\ DrawsOnNamedDc /\ ReservationsOwned /\ HandlesNameOneDc /\ BudgetsExact
    /\ ClosedHandlesStayClosed
=============================================================================
