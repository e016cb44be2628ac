------------------------------- MODULE Objects -------------------------------
(***************************************************************************)
(* The object manager (object_manager.cpp) and the I/O manager (io.cpp):   *)
(* a directory of reference counted objects, named and numbered devices,   *)
(* and the stacks of devices attached to one another.                      *)
(*                                                                         *)
(* An object is a member of ObjectId.  A device object is created together *)
(* with the device it names, and the two hold each other.  A name is a     *)
(* base and a number; a name given without a number may spell the same     *)
(* text as a numbered one.  Calls run to completion: system calls enter    *)
(* through an interrupt gate and the only preemptible callers, the boot    *)
(* thread and the plug and play worker, do not meet in one directory.      *)
(***************************************************************************)
EXTENDS Integers, SequencesExt, FiniteSetsExt

CONSTANTS
    ObjectId,      \* device objects, with their devices
    Holder,        \* who keeps handles: threads and processes
    BaseName,          \* device names without their number
    MaxNumber      \* numbers tried before the name gets too long

VARIABLES
    child_list,    \* the \Device directory, oldest first
    object,        \* reference_count and name of each object; 0 is freed
    kept,          \* <<h, o>>: h holds a KObjectPtr to o
    device,        \* lowerDevice and attachedDevice of each device
    attached,      \* devices that were put on a stack
    refused        \* how the last creation ended

objVars == <<child_list, object, kept, device, attached, refused>>

Numbered == BaseName \X (0 .. MaxNumber)
Nobody == 0

ObjInit ==
    /\ child_list = <<>>
    /\ object = [o \in ObjectId |-> [ref |-> 0, name |-> CHOOSE n \in Numbered : TRUE]]
    /\ kept = {}
    /\ device = [o \in ObjectId |-> [lower |-> Nobody, attached |-> Nobody]]
    /\ attached = {} /\ refused = "none"

-----------------------------------------------------------------------------
(* The directory.                                                          *)
Linked(o) == Contains(child_list, o)
NamedObject(n) == {o \in ToSet(child_list) : object[o].name = n}
FreshObject == {o \in ObjectId : object[o].ref = 0 /\ ~Linked(o)}
IsLeast(o, S) == o \in S /\ \A p \in S : o <= p

(* KE_OB_MakeUniqueName: the least number nobody uses.                     *)
MakeUniqueName(base) ==
    LET unused == {n \in 0 .. MaxNumber : NamedObject(<<base, n>>) = {}} IN
    {n \in unused : IsLeast(n, unused)}

(* KE_OB_InsertObject: the references once the directory holds the object. *)
InsertCount(o, r) == r + 1

(* setupCommonKDevice and KE_IO_CreateDevice.  The device keeps its object *)
(* (one reference), the object keeps its device, so a creation that        *)
(* collides with a name leaves the pair holding each other.                *)
CreateNamed(o, name, collision) ==
    /\ IsLeast(o, FreshObject)
    /\ device' = [device EXCEPT ![o] = [lower |-> Nobody, attached |-> Nobody]]
    /\ IF NamedObject(name) = {}
       THEN /\ child_list' = Append(child_list, o)
            /\ object' = [object EXCEPT ![o] = [ref |-> InsertCount(o, 1), name |-> name]]
            /\ refused' = "no"
       ELSE /\ object' = [object EXCEPT ![o] = [ref |-> 1, name |-> name]]
            /\ UNCHANGED child_list
            /\ refused' = collision
    /\ UNCHANGED <<kept, attached>>

CreateDevice(o, name) == CreateNamed(o, name, "name")

(* ... with CreateDeviceFlags::MultipleAllowed.                            *)
CreateMultiple(o, base) ==
    \E n \in MakeUniqueName(base) : CreateNamed(o, <<base, n>>, "number")

(* No number is left: NameTooLong.                                         *)
CreateTooLong(base) ==
    /\ MakeUniqueName(base) = {} /\ refused' = "long"
    /\ UNCHANGED <<child_list, object, kept, device, attached>>

(* KE_OB_LookupObject: the handle is a reference of its own.               *)
LookupObject(h, name) ==
    \E o \in NamedObject(name) :
        /\ <<h, o>> \notin kept
        /\ kept' = kept \union {<<h, o>>}
        /\ object' = [object EXCEPT ![o].ref = @ + 1]
        /\ UNCHANGED <<child_list, device, attached, refused>>

(* KE_OB_Release of a handle.                                              *)
ReleaseObject(h, o) ==
    /\ <<h, o>> \in kept
    /\ kept' = kept \ {<<h, o>>}
    /\ object' = [object EXCEPT ![o].ref = @ - 1]
    /\ UNCHANGED <<child_list, device, attached, refused>>

(* KE_OB_RemoveObject: refused unless the directory is the object's parent.*)
RemoveObject(h, o) ==
    /\ <<h, o>> \in kept /\ Linked(o)
    /\ child_list' = SelectSeq(child_list, LAMBDA p : p # o)
    /\ object' = [object EXCEPT ![o].ref = @ - 1]
    /\ UNCHANGED <<kept, device, attached, refused>>

-----------------------------------------------------------------------------
(* Device stacks.                                                          *)
Existing == {o \in ObjectId : object[o].ref > 0}

(* Everything above o, o included: at most one step per device.            *)
Above(o) ==
    LET up[k \in 0 .. Cardinality(ObjectId)] ==
          IF k = 0 THEN o
          ELSE IF device[up[k - 1]].attached = Nobody THEN up[k - 1]
               ELSE device[up[k - 1]].attached
    IN  {up[k] : k \in DOMAIN up}

(* Faulty variant: the new device goes on the target itself.               *)
TopOfTarget(o) == o

(* KE_IO_AttachFilterDevice: the current top of the target's stack.        *)
TopOf(o) == CHOOSE p \in Above(o) : device[p].attached = Nobody

(* A driver's AddDevice attaches the device it has just created.           *)
AttachFilterDevice(src, target) ==
    /\ {src, target} \subseteq Existing /\ src # target
    /\ src \notin attached /\ device[src] = [lower |-> Nobody, attached |-> Nobody]
    /\ target \notin Above(src)
    /\ device' = [device EXCEPT ![TopOf(target)].attached = src,
                                ![src].lower = TopOf(target)]
    /\ attached' = attached \union {src}
    /\ UNCHANGED <<child_list, object, kept, refused>>

-----------------------------------------------------------------------------
ObjNext ==
    \/ \E o \in ObjectId, n \in Numbered : CreateDevice(o, n)
    \/ \E o \in ObjectId, b \in BaseName : CreateMultiple(o, b)
    \/ \E b \in BaseName : CreateTooLong(b)
    \/ \E o, p \in ObjectId : AttachFilterDevice(o, p)
    \/ \E h \in Holder :
        \/ \E n \in Numbered : LookupObject(h, n)
        \/ \E o \in ObjectId : ReleaseObject(h, o) \/ RemoveObject(h, o)

ObjSpec == ObjInit /\ [][ObjNext]_objVars

-----------------------------------------------------------------------------
(* Reference counts are exact: an object's count is the number of handles  *)
(* to it, plus one for the directory that lists it, plus one for its own   *)
(* device.  So no listed or held object is ever freed (KE_OB_InsertObject, *)
(* KE_OB_RemoveObject, KE_OB_Release).                                     *)
ReferencesExact ==
    \A o \in ObjectId :
        object[o].ref > 0 \/ Linked(o) =>
            object[o].ref = Cardinality({h \in Holder : <<h, o>> \in kept})
                              + (IF Linked(o) THEN 1 ELSE 0) + 1

(* A stack of devices is one chain: lowerDevice and attachedDevice are     *)
(* inverse, and no device is reached twice going up, whatever the order    *)
(* filters were attached in (KE_IO_AttachFilterDevice).                    *)
StacksAreChains ==
    \A o \in Existing :
        /\ device[o].attached # Nobody => device[device[o].attached].lower = o
        /\ device[o].lower # Nobody => device[device[o].lower].attached = o
        /\ \E p \in Above(o) : device[p].attached = Nobody

(* A creation that asks for a number never fails because of a name: the    *)
(* number it is given is free, also after removals and beside devices      *)
(* whose plain name spells a number (KE_OB_MakeUniqueName).                *)
NumbersAreFree == refused # "number"

(* The object directory counts its references exactly, device stacks are   *)
(* chains and a number is given out once.                                  *)
DirectoryExact == ReferencesExact /\ StacksAreChains /\ NumbersAreFree
=============================================================================
