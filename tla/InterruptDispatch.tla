-------------------------- MODULE InterruptDispatch --------------------------
(***************************************************************************)
(* Deferred interrupt handling (Kernel/Source/src/dispatch.cpp and         *)
(* dispatch.hpp): an interrupt gate pushes a record and signals an         *)
(* auto-reset header; the dispatch thread drains the ring, copies the      *)
(* handlers registered for each record and calls them, and parks.          *)
(*                                                                         *)
(* The ring is the bounded FIFO that SpscRing implements and the header    *)
(* the atomic event that Wait implements (EventSpec), here with the        *)
(* dispatch thread as its only waiter.                                     *)
(***************************************************************************)
EXTENDS Integers, SequencesExt

CONSTANTS
    Irq, Isr,                  \* interrupt ids and service routine objects
    Bound,                     \* records the ring holds: kCapacity - 1
    kMaxHandlersPerInterrupt

ASSUME DispatchAssumption ==
    Bound \in Nat \ {0} /\ kMaxHandlersPerInterrupt \in Nat \ {0}

VARIABLES
    ring,       \* g_interruptRing: the irq of each record, oldest first
    gate,       \* the interrupt gate has pushed and not yet signalled
    signalled,  \* g_recordAvailable.signalled
    parked,     \* the dispatch thread is on g_recordAvailable's waiter list
    thread,     \* the dispatch thread: pc, the record's irq, handlers to call
    m_slots     \* g_interruptHandlers

dispatchVars == <<ring, gate, signalled, parked, thread, m_slots>>

Slot == [interruptId : Irq, active : BOOLEAN, handlers : Seq(Isr)]

DispatchInit ==
    /\ ring = <<>> /\ gate = FALSE
    /\ signalled = FALSE /\ parked = FALSE
    /\ thread \in [pc : {"drain"}, irq : Irq, todo : {<<>>}]
    /\ m_slots = <<>>

-----------------------------------------------------------------------------
(* KE_DISPATCH_EnqueueInterrupt: Push, and the signal if it succeeded.  A  *)
(* full ring drops the record and changes nothing.                         *)
EnqueueInterrupt(i) ==
    /\ ~gate /\ Len(ring) < Bound
    /\ ring' = Append(ring, i)
    /\ gate' = TRUE
    /\ UNCHANGED <<signalled, parked, thread, m_slots>>

(* Faulty variant: the signal is not remembered when nobody is parked.     *)
SignalRecordForgotten ==
    /\ gate /\ gate' = FALSE
    /\ parked' = FALSE
    /\ UNCHANGED <<ring, signalled, thread, m_slots>>

SignalRecord ==
    /\ gate /\ gate' = FALSE
    /\ parked' = FALSE
    /\ signalled' = (IF parked THEN signalled ELSE TRUE)
    /\ UNCHANGED <<ring, thread, m_slots>>

-----------------------------------------------------------------------------
(* InterruptDispatchThread: pop a record ...                               *)
PopRecord ==
    /\ thread.pc = "drain" /\ ring # <<>>
    /\ thread' = [thread EXCEPT !.pc = "copy", !.irq = Head(ring)]
    /\ ring' = Tail(ring)
    /\ UNCHANGED <<gate, signalled, parked, m_slots>>

ActiveSlots(i) ==
    {k \in DOMAIN m_slots : m_slots[k].active /\ m_slots[k].interruptId = i}

IsFirst(k, S) == k \in S /\ \A j \in S : k <= j

(* ... copy its handlers under g_handlersLock ...                          *)
CopyHandlers(i) ==
    IF ActiveSlots(i) = {} THEN <<>>
    ELSE m_slots[CHOOSE k \in ActiveSlots(i) : IsFirst(k, ActiveSlots(i))].handlers

CopyForRecord ==
    /\ thread.pc = "copy"
    /\ thread' = [thread EXCEPT !.pc = "call", !.todo = CopyHandlers(thread.irq)]
    /\ UNCHANGED <<ring, gate, signalled, parked, m_slots>>

(* Faulty variant: the loop does not move on to the next handler.          *)
CallHandlerStuck ==
    /\ thread.pc = "call"
    /\ thread' = IF thread.todo = <<>> THEN [thread EXCEPT !.pc = "drain"] ELSE thread
    /\ UNCHANGED <<ring, gate, signalled, parked, m_slots>>

(* ... call them in turn without the lock ...                              *)
CallHandler ==
    /\ thread.pc = "call"
    /\ thread' = IF thread.todo = <<>> THEN [thread EXCEPT !.pc = "drain"]
                 ELSE [thread EXCEPT !.todo = Tail(@)]
    /\ UNCHANGED <<ring, gate, signalled, parked, m_slots>>

(* ... and wait on the header once the ring was seen empty.                *)
SeeEmpty ==
    /\ thread.pc = "drain" /\ ring = <<>>
    /\ thread' = [thread EXCEPT !.pc = "wait"]
    /\ UNCHANGED <<ring, gate, signalled, parked, m_slots>>

WaitForRecord ==
    /\ thread.pc = "wait"
    /\ \/ signalled /\ thread' = [thread EXCEPT !.pc = "drain"] /\ parked' = FALSE
       \/ ~signalled /\ thread' = [thread EXCEPT !.pc = "asleep"] /\ parked' = TRUE
    /\ signalled' = FALSE
    /\ UNCHANGED <<ring, gate, m_slots>>

WakeUp ==
    /\ thread.pc = "asleep" /\ ~parked
    /\ thread' = [thread EXCEPT !.pc = "drain"]
    /\ UNCHANGED <<ring, gate, signalled, parked, m_slots>>

-----------------------------------------------------------------------------
FreeSlots == {k \in DOMAIN m_slots : ~m_slots[k].active}

(* InterruptHandlerRegistry::Register: join the active slot of the id,     *)
(* or take the first free slot, or grow the vector.                        *)
Join(k, h) ==
    m_slots' = IF Contains(m_slots[k].handlers, h)
                   \/ Len(m_slots[k].handlers) >= kMaxHandlersPerInterrupt
               THEN m_slots
               ELSE [m_slots EXCEPT ![k].handlers = Append(@, h)]

TakeSlot(i, h) ==
    LET fresh == [interruptId |-> i, active |-> TRUE, handlers |-> <<h>>] IN
    \/ FreeSlots = {} /\ m_slots' = Append(m_slots, fresh)
    \/ \E k \in FreeSlots :
          IsFirst(k, FreeSlots) /\ m_slots' = [m_slots EXCEPT ![k] = fresh]

Register(i, h) ==
    /\ \/ \E k \in ActiveSlots(i) : IsFirst(k, ActiveSlots(i)) /\ Join(k, h)
       \/ ActiveSlots(i) = {} /\ TakeSlot(i, h)
    /\ UNCHANGED <<ring, gate, signalled, parked, thread>>

(* Unregister drops every handler of the id.                               *)
Unregister(i) ==
    /\ \E k \in ActiveSlots(i) :
          /\ IsFirst(k, ActiveSlots(i))
          /\ m_slots' = [m_slots EXCEPT ![k].active = FALSE, ![k].handlers = <<>>]
    /\ UNCHANGED <<ring, gate, signalled, parked, thread>>

DispatchThread ==
    \/ PopRecord \/ CopyForRecord \/ CallHandler
    \/ SeeEmpty \/ WaitForRecord \/ WakeUp

DispatchNext ==
    \/ SignalRecord
    \/ DispatchThread
    \/ \E i \in Irq :
          \/ EnqueueInterrupt(i)
          \/ Unregister(i)
          \/ \E h \in Isr : Register(i, h)

(* The gate finishes, service routines return, and the dispatch thread,    *)
(* whose priority 10 is the highest in the system, keeps running while it  *)
(* is not parked.  Nothing is assumed of the devices.                      *)
DispatchSpec ==
    DispatchInit /\ [][DispatchNext]_dispatchVars
        /\ WF_dispatchVars(SignalRecord) /\ WF_dispatchVars(DispatchThread)

-----------------------------------------------------------------------------
DispatchTypeOK ==
    /\ ring \in Seq(Irq) /\ Len(ring) <= Bound
    /\ gate \in BOOLEAN /\ signalled \in BOOLEAN /\ parked \in BOOLEAN
    /\ thread \in [pc : {"drain", "copy", "call", "wait", "asleep"}, irq : Irq, todo : Seq(Isr)]
    /\ m_slots \in Seq(Slot)

(* "an enqueue that lands between the thread observing an empty ring and   *)
(* actually going to sleep cannot be lost": the thread is parked beside a  *)
(* record only while the gate that pushed it is about to signal.           *)
NoStrandedRecord == parked /\ ring # <<>> => gate

(* An interrupt id never owns two active slots, so that every handler      *)
(* registered for it is seen by CopyHandlers, and a slot holds each        *)
(* handler once and never more than the array behind it.                   *)
OneSlotPerInterrupt ==
    /\ \A i \in Irq, j, k \in DOMAIN m_slots :
          j \in ActiveSlots(i) /\ k \in ActiveSlots(i) => j = k
    /\ \A k \in DOMAIN m_slots :
          /\ m_slots[k].active <=> m_slots[k].handlers # <<>>
          /\ IsInjective(m_slots[k].handlers)
          /\ Len(m_slots[k].handlers) <= kMaxHandlersPerInterrupt

(* Every record pushed is eventually taken up by the dispatch thread.      *)
RecordsDispatched == (ring # <<>>) ~> (thread.pc = "copy")

(* Deferred dispatch keeps every record it took: none sits in the ring     *)
(* with nobody told, and an interrupt has one slot in the handler table.   *)
RecordsKept == NoStrandedRecord /\ OneSlotPerInterrupt
=============================================================================
