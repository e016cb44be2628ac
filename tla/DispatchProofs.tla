--------------------------- MODULE DispatchProofs ---------------------------
(***************************************************************************)
(* No interrupt record is left behind by a sleeping dispatch thread and    *)
(* the handler registry stays well formed, for every set of interrupts and *)
(* handlers, every ring size and every slot size.                          *)
(***************************************************************************)
EXTENDS InterruptDispatch, InterruptLines, SeqLemmas

(* NoStrandedRecord is not inductive: the record that matters arrives      *)
(* after the thread saw the ring empty and before it is on the waiter      *)
(* list.  In that window the signal is pending or about to be given.       *)
RecordInv ==
    /\ parked => thread.pc = "asleep"
    /\ thread.pc = "wait" /\ ring # <<>> => gate \/ signalled
    /\ parked /\ ring # <<>> => gate

DispatchInv == DispatchTypeOK /\ RecordInv /\ OneSlotPerInterrupt

LEMMA DispatchInitInv == DispatchInit => DispatchInv
<1> SUFFICES ASSUME DispatchInit PROVE DispatchInv
    OBVIOUS
<1>1. /\ ring = <<>> /\ gate = FALSE /\ signalled = FALSE /\ parked = FALSE
      /\ thread.pc = "drain" /\ m_slots = <<>>
      /\ thread \in [pc : {"drain"}, irq : Irq, todo : {<<>>}]
      BY DEF DispatchInit
<1>2. <<>> \in Seq(Irq) /\ Len(<<>>) = 0 /\ <<>> \in Seq(Slot) /\ <<>> \in Seq(Isr)
      OBVIOUS
<1>3. thread \in [pc : {"drain", "copy", "call", "wait", "asleep"}, irq : Irq, todo : Seq(Isr)]
      BY <1>1, <1>2
<1>4. DispatchTypeOK
      <2>1. ring \in Seq(Irq) /\ m_slots \in Seq(Slot)
            BY <1>1, <1>2
      <2>2. Len(ring) <= Bound
            BY <1>1, DispatchAssumption
      <2>3. gate \in BOOLEAN /\ signalled \in BOOLEAN /\ parked \in BOOLEAN
            BY <1>1
      <2>q. QED
            BY <1>3, <2>1, <2>2, <2>3 DEF DispatchTypeOK
<1>5. RecordInv
      BY <1>1 DEF RecordInv
<1>6. DOMAIN m_slots = {}
      BY <1>1
<1>7. OneSlotPerInterrupt
      BY <1>6 DEF OneSlotPerInterrupt, ActiveSlots
<1>q. QED
      BY <1>4, <1>5, <1>7 DEF DispatchInv

(* Steps that leave the registry alone keep its shape.                     *)
LEMMA RegistryKept ==
    ASSUME OneSlotPerInterrupt, m_slots' = m_slots
    PROVE  OneSlotPerInterrupt'
BY DEF OneSlotPerInterrupt, ActiveSlots

(* The handlers copied for a record form a sequence of handlers.           *)
LEMMA CopyFacts ==
    ASSUME DispatchInv, NEW i \in Irq
    PROVE  CopyHandlers(i) \in Seq(Isr)
<1>1. CASE ActiveSlots(i) = {}
      BY <1>1 DEF CopyHandlers
<1>2. CASE ActiveSlots(i) # {}
      <2>1. PICK k \in ActiveSlots(i) : TRUE
            BY <1>2
      <2>2. \A j \in ActiveSlots(i) : j = k
            BY <2>1 DEF DispatchInv, OneSlotPerInterrupt, ActiveSlots
      <2>3. k \in 1..Len(m_slots) /\ m_slots[k] \in Slot
            BY <2>1 DEF DispatchInv, DispatchTypeOK, ActiveSlots
      <2>4. \A j \in ActiveSlots(i) : k <= j
            BY <2>2, <2>3
      <2>5. IsFirst(k, ActiveSlots(i))
            BY <2>1, <2>4 DEF IsFirst
      <2>6. (CHOOSE j \in ActiveSlots(i) : IsFirst(j, ActiveSlots(i))) = k
            BY <2>1, <2>2, <2>5
      <2>q. QED
            BY <1>2, <2>3, <2>6 DEF CopyHandlers, Slot
<1>q. QED
      BY <1>1, <1>2

(* The steps of the gate and of the dispatch thread.                       *)
LEMMA ThreadStep ==
    ASSUME DispatchInv,
           \/ SignalRecord \/ DispatchThread
           \/ \E i \in Irq : EnqueueInterrupt(i)
    PROVE  DispatchTypeOK' /\ RecordInv' /\ m_slots' = m_slots
<1> USE DEF DispatchInv, DispatchTypeOK, RecordInv
<1>1. ASSUME NEW i \in Irq, EnqueueInterrupt(i)
      PROVE  DispatchTypeOK' /\ RecordInv' /\ m_slots' = m_slots
      BY <1>1, DispatchAssumption DEF EnqueueInterrupt
<1>2. CASE SignalRecord
      BY <1>2 DEF SignalRecord
<1>3. CASE PopRecord
      <2>1. /\ Head(ring) \in Irq /\ Tail(ring) \in Seq(Irq)
            /\ Len(Tail(ring)) = Len(ring) - 1 /\ Len(ring) \in Nat
            BY <1>3 DEF PopRecord
      <2>2. ring' \in Seq(Irq) /\ Len(ring') <= Bound
            BY <1>3, <2>1, DispatchAssumption DEF PopRecord
      <2>q. QED
            BY <1>3, <2>1, <2>2 DEF PopRecord
<1>4. CASE CopyForRecord
      <2>1. CopyHandlers(thread.irq) \in Seq(Isr)
            BY CopyFacts
      <2>q. QED
            BY <1>4, <2>1 DEF CopyForRecord
<1>5. CASE CallHandler
      <2>1. thread.todo # <<>> => Tail(thread.todo) \in Seq(Isr)
            OBVIOUS
      <2>q. QED
            BY <1>5, <2>1 DEF CallHandler
<1>6. CASE SeeEmpty
      BY <1>6 DEF SeeEmpty
<1>7. CASE WaitForRecord
      BY <1>7 DEF WaitForRecord
<1>8. CASE WakeUp
      BY <1>8 DEF WakeUp
<1>q. QED
      BY <1>1, <1>2, <1>3, <1>4, <1>5, <1>6, <1>7, <1>8 DEF DispatchThread

-----------------------------------------------------------------------------
(* Changing slot k to one that is empty, or that serves an interrupt no    *)
(* other active slot serves, keeps the registry well formed.               *)
LEMMA SlotChange ==
    ASSUME DispatchInv, NEW k \in DOMAIN m_slots, NEW s \in Slot,
           m_slots' = [m_slots EXCEPT ![k] = s],
           s.active <=> s.handlers # <<>>,
           IsInjective(s.handlers),
           Len(s.handlers) <= kMaxHandlersPerInterrupt,
           s.active => \A j \in ActiveSlots(s.interruptId) : j = k
    PROVE  m_slots' \in Seq(Slot) /\ OneSlotPerInterrupt'
<1>1. m_slots \in Seq(Slot)
      BY DEF DispatchInv, DispatchTypeOK
<1>2. /\ m_slots' \in Seq(Slot) /\ DOMAIN m_slots' = DOMAIN m_slots
      /\ \A j \in DOMAIN m_slots : m_slots'[j] = IF j = k THEN s ELSE m_slots[j]
      BY <1>1
<1>3. ASSUME NEW i \in Irq, NEW j \in ActiveSlots(i)', NEW l \in ActiveSlots(i)'
      PROVE  j = l
      <2>1. j \in DOMAIN m_slots /\ l \in DOMAIN m_slots
            BY <1>2, <1>3 DEF ActiveSlots
      <2>2. ASSUME NEW n \in ActiveSlots(i)', n # k PROVE n \in ActiveSlots(i)
            BY <1>2, <2>2 DEF ActiveSlots
      <2>3. k \in ActiveSlots(i)' => s.active /\ s.interruptId = i
            BY <1>2 DEF ActiveSlots
      <2>4. \A m, n \in ActiveSlots(i) : m = n
            BY DEF DispatchInv, OneSlotPerInterrupt, ActiveSlots
      <2>q. QED
            BY <1>3, <2>2, <2>3, <2>4
<1>4. ASSUME NEW j \in DOMAIN m_slots'
      PROVE  /\ m_slots'[j].active <=> m_slots'[j].handlers # <<>>
             /\ IsInjective(m_slots'[j].handlers)
             /\ Len(m_slots'[j].handlers) <= kMaxHandlersPerInterrupt
      <2>1. CASE j = k
            BY <1>2, <2>1
      <2>2. CASE j # k
            BY <1>2, <2>2 DEF DispatchInv, OneSlotPerInterrupt
      <2>q. QED
            BY <2>1, <2>2
<1>q. QED
      BY <1>2, <1>3, <1>4 DEF OneSlotPerInterrupt

(* So does growing the vector by a slot for an interrupt that has none.    *)
LEMMA SlotGrowth ==
    ASSUME DispatchInv, NEW s \in Slot,
           m_slots' = Append(m_slots, s),
           s.active, s.handlers # <<>>,
           IsInjective(s.handlers),
           Len(s.handlers) <= kMaxHandlersPerInterrupt,
           ActiveSlots(s.interruptId) = {}
    PROVE  m_slots' \in Seq(Slot) /\ OneSlotPerInterrupt'
<1>1. m_slots \in Seq(Slot)
      BY DEF DispatchInv, DispatchTypeOK
<1> DEFINE last == Len(m_slots) + 1
<1>2. /\ m_slots' \in Seq(Slot) /\ DOMAIN m_slots' = DOMAIN m_slots \cup {last}
      /\ last \notin DOMAIN m_slots
      /\ m_slots'[last] = s
      /\ \A j \in DOMAIN m_slots : m_slots'[j] = m_slots[j]
      BY <1>1
<1> HIDE DEF last
<1>3. ASSUME NEW i \in Irq, NEW j \in ActiveSlots(i)', NEW l \in ActiveSlots(i)'
      PROVE  j = l
      <2>2. ASSUME NEW n \in ActiveSlots(i)', n # last PROVE n \in ActiveSlots(i)
            BY <1>2, <2>2 DEF ActiveSlots
      <2>3. last \in ActiveSlots(i)' => s.interruptId = i
            BY <1>2 DEF ActiveSlots
      <2>4. \A m, n \in ActiveSlots(i) : m = n
            BY DEF DispatchInv, OneSlotPerInterrupt, ActiveSlots
      <2>q. QED
            BY <1>3, <2>2, <2>3, <2>4
<1>4. ASSUME NEW j \in DOMAIN m_slots'
      PROVE  /\ m_slots'[j].active <=> m_slots'[j].handlers # <<>>
             /\ IsInjective(m_slots'[j].handlers)
             /\ Len(m_slots'[j].handlers) <= kMaxHandlersPerInterrupt
      <2>1. CASE j = last
            BY <1>2, <2>1
      <2>2. CASE j # last
            BY <1>2, <2>2 DEF DispatchInv, OneSlotPerInterrupt
      <2>q. QED
            BY <2>1, <2>2
<1>q. QED
      BY <1>2, <1>3, <1>4 DEF OneSlotPerInterrupt

(* A handler that is not in its slot yet joins it below the limit.         *)
LEMMA JoinStep ==
    ASSUME DispatchInv, NEW i \in Irq, NEW h \in Isr, NEW k \in ActiveSlots(i), Join(k, h)
    PROVE  m_slots' \in Seq(Slot) /\ OneSlotPerInterrupt'
<1> DEFINE old == m_slots[k].handlers
<1>1. /\ k \in DOMAIN m_slots /\ m_slots \in Seq(Slot) /\ m_slots[k] \in Slot
      /\ m_slots[k].active /\ m_slots[k].interruptId = i
      /\ old \in Seq(Isr) /\ IsInjective(old)
      <2>1. /\ k \in DOMAIN m_slots /\ m_slots \in Seq(Slot)
            /\ m_slots[k].active /\ m_slots[k].interruptId = i
            BY DEF DispatchInv, DispatchTypeOK, ActiveSlots
      <2>2. m_slots[k] \in Slot
            BY <2>1
      <2>3. old \in Seq(Isr)
            BY <2>2 DEF Slot
      <2>4. IsInjective(old)
            BY <2>1 DEF DispatchInv, OneSlotPerInterrupt
      <2>q. QED
            BY <2>1, <2>2, <2>3, <2>4
<1>2. CASE m_slots' = m_slots
      BY <1>1, <1>2, RegistryKept DEF DispatchInv
<1>3. CASE m_slots' # m_slots
      <2>1. /\ ~Contains(old, h) /\ Len(old) < kMaxHandlersPerInterrupt
            /\ m_slots' = [m_slots EXCEPT ![k].handlers = Append(old, h)]
            <3>1. Len(old) \in Nat
                  BY <1>1
            <3>q. QED
                  BY <1>3, <3>1, DispatchAssumption DEF Join
      <2>2. h \notin Range(old)
            <3>1. DOMAIN old = 1..Len(old)
                  BY <1>1
            <3>2. \A n \in 1..Len(old) : old[n] # h
                  BY <2>1 DEF Contains
            <3> HIDE DEF old
            <3>q. QED
                  BY <3>1, <3>2 DEF Range
      <2>3. /\ Append(old, h) \in Seq(Isr) /\ Append(old, h) # <<>>
            /\ IsInjective(Append(old, h))
            BY <1>1, <2>2, AppendFacts
      <2>4. Len(Append(old, h)) <= kMaxHandlersPerInterrupt
            BY <1>1, <2>1, DispatchAssumption
      <2> DEFINE s == [m_slots[k] EXCEPT !.handlers = Append(old, h)]
      <2>5. /\ s \in Slot /\ s.active /\ s.interruptId = i
            /\ s.handlers = Append(old, h)
            BY <1>1, <2>3 DEF Slot
      <2>6. m_slots' = [m_slots EXCEPT ![k] = s]
            BY <2>1
      <2>7. \A j \in ActiveSlots(i) : j = k
            BY DEF DispatchInv, OneSlotPerInterrupt, ActiveSlots
      <2> HIDE DEF s
      <2>q. QED
            BY <1>1, <2>3, <2>4, <2>5, <2>6, <2>7, SlotChange
<1>q. QED
      BY <1>2, <1>3

LEMMA TakeStep ==
    ASSUME DispatchInv, NEW i \in Irq, NEW h \in Isr, ActiveSlots(i) = {}, TakeSlot(i, h)
    PROVE  m_slots' \in Seq(Slot) /\ OneSlotPerInterrupt'
<1> DEFINE s == [interruptId |-> i, active |-> TRUE, handlers |-> <<h>>]
<1>1. <<h>> \in Seq(Isr) /\ <<h>> # <<>> /\ Len(<<h>>) = 1 /\ IsInjective(<<h>>)
      BY DEF IsInjective
<1>2. s \in Slot /\ s.active /\ s.interruptId = i /\ s.handlers = <<h>>
      BY <1>1 DEF Slot
<1>3. Len(<<h>>) <= kMaxHandlersPerInterrupt
      BY DispatchAssumption
<1>4. \/ m_slots' = Append(m_slots, s)
      \/ \E k \in DOMAIN m_slots : m_slots' = [m_slots EXCEPT ![k] = s]
      BY DEF TakeSlot, FreeSlots
<1> HIDE DEF s
<1>5. CASE m_slots' = Append(m_slots, s)
      BY <1>1, <1>2, <1>3, <1>5, SlotGrowth
<1>6. ASSUME NEW k \in DOMAIN m_slots, m_slots' = [m_slots EXCEPT ![k] = s]
      PROVE  m_slots' \in Seq(Slot) /\ OneSlotPerInterrupt'
      BY <1>1, <1>2, <1>3, <1>6, SlotChange
<1>q. QED
      BY <1>4, <1>5, <1>6

LEMMA UnregisterStep ==
    ASSUME DispatchInv, NEW i \in Irq, Unregister(i)
    PROVE  m_slots' \in Seq(Slot) /\ OneSlotPerInterrupt'
<1>1. PICK k \in ActiveSlots(i) :
         m_slots' = [m_slots EXCEPT ![k].active = FALSE, ![k].handlers = <<>>]
      BY DEF Unregister
<1>2. k \in DOMAIN m_slots /\ m_slots \in Seq(Slot) /\ m_slots[k] \in Slot
      BY <1>1 DEF DispatchInv, DispatchTypeOK, ActiveSlots
<1> DEFINE s == [m_slots[k] EXCEPT !.active = FALSE, !.handlers = <<>>]
<1>3. <<>> \in Seq(Isr) /\ Len(<<>>) = 0 /\ IsInjective(<<>>)
      BY DEF IsInjective
<1>4. s \in Slot /\ s.active = FALSE /\ s.handlers = <<>>
      BY <1>2, <1>3 DEF Slot
<1>5. m_slots' = [m_slots EXCEPT ![k] = s]
      BY <1>1, <1>2
<1>6. Len(s.handlers) <= kMaxHandlersPerInterrupt
      BY <1>3, <1>4, DispatchAssumption
<1> HIDE DEF s
<1>q. QED
      BY <1>2, <1>3, <1>4, <1>5, <1>6, SlotChange

LEMMA DispatchNextInv == DispatchInv /\ [DispatchNext]_dispatchVars => DispatchInv'
<1> SUFFICES ASSUME DispatchInv, [DispatchNext]_dispatchVars PROVE DispatchInv'
    OBVIOUS
<1>1. CASE \/ SignalRecord \/ DispatchThread
           \/ \E i \in Irq : EnqueueInterrupt(i)
      BY <1>1, ThreadStep, RegistryKept DEF DispatchInv
<1>2. ASSUME UNCHANGED <<ring, gate, signalled, parked, thread>>,
             m_slots' \in Seq(Slot), OneSlotPerInterrupt'
      PROVE  DispatchInv'
      BY <1>2 DEF DispatchInv, DispatchTypeOK, RecordInv
<1>3. ASSUME NEW i \in Irq, NEW h \in Isr, Register(i, h) PROVE DispatchInv'
      <2>1. m_slots' \in Seq(Slot) /\ OneSlotPerInterrupt'
            BY <1>3, JoinStep, TakeStep DEF Register
      <2>q. QED
            BY <1>2, <1>3, <2>1 DEF Register
<1>4. ASSUME NEW i \in Irq, Unregister(i) PROVE DispatchInv'
      BY <1>2, <1>4, UnregisterStep DEF Unregister
<1>5. CASE UNCHANGED dispatchVars
      <2>1. m_slots' = m_slots /\ UNCHANGED <<ring, gate, signalled, parked, thread>>
            BY <1>5 DEF dispatchVars
      <2>q. QED
            BY <1>2, <2>1, RegistryKept DEF DispatchInv, DispatchTypeOK
<1>q. QED
      BY <1>1, <1>3, <1>4, <1>5 DEF DispatchNext

(* The dispatch thread never sleeps beside a record whose gate is done,    *)
(* and every interrupt id has at most one slot, within its limit           *)
(* (EnqueueInterrupt, DispatchThread and the registry of dispatch.hpp).    *)
THEOREM DispatchSafe == DispatchSpec => [](DispatchTypeOK /\ RecordsKept)
<1>1. DispatchInv => DispatchTypeOK /\ RecordsKept
      BY DEF DispatchInv, RecordInv, NoStrandedRecord, RecordsKept
<1>q. QED
      BY DispatchInitInv, DispatchNextInv, <1>1, PTL DEF DispatchSpec

-----------------------------------------------------------------------------
(* Connecting drivers to lines.  That two connections never both succeed   *)
(* rests on the HAL's table being the set of connections; a driver between *)
(* its registration and its connection is known by its call.               *)
Call == {Out} \cup [at : {"registered"}, irq : Asked]

LineTypeOK ==
    /\ registry \in [Asked -> Seq(Driver)]
    /\ g_hardware_interrupts \in [IrqLine -> Driver \cup {Nothing}]
    /\ masked \subseteq IrqLine
    /\ connecting \in [Driver -> Call]
    /\ connected \subseteq Driver \X IrqLine

TableIsConnected ==
    \A d \in Driver, i \in IrqLine : <<d, i>> \in connected <=> g_hardware_interrupts[i] = d

OpenIsConnected ==
    masked = {i \in IrqLine : \A d \in Driver : <<d, i>> \notin connected}

LineInv == LineTypeOK /\ TableIsConnected /\ OpenIsConnected /\ NoStrayHandler

LEMMA LineInitInv == LineInit => LineInv
<1> SUFFICES ASSUME LineInit PROVE LineInv
    OBVIOUS
<1>1. LineTypeOK
      BY DEF LineInit, LineTypeOK, Call
<1>2. TableIsConnected /\ OpenIsConnected
      BY LineAssumption DEF LineInit, TableIsConnected, OpenIsConnected
<1>3. NoStrayHandler
      BY DEF LineInit, NoStrayHandler
<1>q. QED
      BY <1>1, <1>2, <1>3 DEF LineInv

LEMMA NotOut == \A j : Out # [at |-> "registered", irq |-> j]
<1> SUFFICES ASSUME NEW j, Out = [at |-> "registered", irq |-> j] PROVE FALSE
    OBVIOUS
<1>1. Out.at = "out" /\ Out.at = "registered"
      BY DEF Out
<1>q. QED
      BY <1>1

LEMMA RegisterLine ==
    ASSUME LineInv, NEW d \in Driver, NEW i \in Asked, RegisterHandler(d, i)
    PROVE  LineInv'
<1>0. UNCHANGED <<g_hardware_interrupts, masked, connected>>
      BY DEF RegisterHandler
<1>1. CASE Len(registry[i]) >= MaxHandlers
      BY <1>0, <1>1 DEF RegisterHandler, LineInv, LineTypeOK, TableIsConnected,
                        OpenIsConnected, NoStrayHandler
<1>2. CASE ~(Len(registry[i]) >= MaxHandlers)
      <2>1. /\ registry' = [registry EXCEPT ![i] = Append(@, d)]
            /\ connecting' = [connecting EXCEPT ![d] = [at |-> "registered", irq |-> i]]
            /\ connecting[d] = Out
            BY <1>2 DEF RegisterHandler
      <2>2. LineTypeOK'
            BY <1>0, <2>1 DEF LineInv, LineTypeOK, Call
      <2>3. TableIsConnected' /\ OpenIsConnected'
            BY <1>0 DEF LineInv, TableIsConnected, OpenIsConnected
      <2>4. NoStrayHandler'
            <3> SUFFICES ASSUME NEW j \in Asked, NEW k \in DOMAIN registry'[j]
                         PROVE  \/ <<registry'[j][k], j>> \in connected
                                \/ connecting'[registry'[j][k]] = [at |-> "registered", irq |-> j]
                BY <1>0 DEF NoStrayHandler
            <3>0. registry[i] \in Seq(Driver) /\ registry[j] \in Seq(Driver)
                  BY DEF LineInv, LineTypeOK
            <3>1. CASE j = i /\ k = Len(registry[i]) + 1
                  BY <2>1, <3>0, <3>1 DEF LineInv, LineTypeOK
            <3>2. CASE ~(j = i /\ k = Len(registry[i]) + 1)
                  <4>1. k \in DOMAIN registry[j] /\ registry'[j][k] = registry[j][k]
                        BY <2>1, <3>0, <3>2 DEF LineInv, LineTypeOK
                  <4>2. \/ <<registry[j][k], j>> \in connected
                        \/ connecting[registry[j][k]] = [at |-> "registered", irq |-> j]
                        BY <4>1 DEF LineInv, NoStrayHandler
                  <4>3. registry[j][k] \in Driver
                        BY <4>1, <3>0
                  <4>4. connecting[d] # [at |-> "registered", irq |-> j]
                        BY <2>1, NotOut
                  <4>5. CASE registry[j][k] = d
                        BY <4>1, <4>2, <4>4, <4>5
                  <4>6. CASE registry[j][k] # d
                        <5>1. connecting'[registry[j][k]] = connecting[registry[j][k]]
                              BY <2>1, <4>3, <4>6 DEF LineInv, LineTypeOK
                        <5>q. QED
                              BY <4>1, <4>2, <5>1
                  <4>q. QED
                        BY <4>5, <4>6
            <3>q. QED
                  BY <3>1, <3>2
      <2>q. QED
            BY <2>2, <2>3, <2>4 DEF LineInv
<1>q. QED
      BY <1>1, <1>2

LEMMA TakeLine ==
    ASSUME LineInv, NEW d \in Driver, ConnectLine(d)
    PROVE  LineInv'
<1> DEFINE i == connecting[d].irq
<1>1. /\ connecting[d].at = "registered" /\ i \in IrqLine
      /\ g_hardware_interrupts[i] = Nothing
      /\ g_hardware_interrupts' = [g_hardware_interrupts EXCEPT ![i] = d]
      /\ masked' = masked \ {i}
      /\ connected' = connected \union {<<d, i>>}
      /\ connecting' = [connecting EXCEPT ![d] = Out]
      /\ registry' = registry
      BY DEF ConnectLine, LineFree
<1>2. connecting[d] = [at |-> "registered", irq |-> i]
      BY <1>1 DEF LineInv, LineTypeOK, Call, Out
<1> HIDE DEF i
<1>3. LineTypeOK'
      BY <1>1 DEF LineInv, LineTypeOK, Call
<1>4. \A e \in Driver : <<e, i>> \notin connected
      BY <1>1, LineAssumption DEF LineInv, TableIsConnected
<1>5. TableIsConnected'
      BY <1>1, <1>4, LineAssumption, ZenonT(60) DEF LineInv, LineTypeOK, TableIsConnected
<1>6. OpenIsConnected'
      BY <1>1 DEF LineInv, OpenIsConnected
<1>7. NoStrayHandler'
      <2> SUFFICES ASSUME NEW j \in Asked, NEW k \in DOMAIN registry[j]
                   PROVE  \/ <<registry[j][k], j>> \in connected'
                          \/ connecting'[registry[j][k]] = [at |-> "registered", irq |-> j]
          BY <1>1 DEF NoStrayHandler
      <2>1. \/ <<registry[j][k], j>> \in connected
            \/ connecting[registry[j][k]] = [at |-> "registered", irq |-> j]
            BY DEF LineInv, NoStrayHandler
      <2>2. registry[j] \in Seq(Driver) /\ registry[j][k] \in Driver
            BY DEF LineInv, LineTypeOK
      <2>3. CASE registry[j][k] # d
            <3>1. connecting'[registry[j][k]] = connecting[registry[j][k]]
                  BY <1>1, <2>2, <2>3 DEF LineInv, LineTypeOK
            <3>q. QED
                  BY <1>1, <2>1, <3>1
      <2>4. CASE registry[j][k] = d
            <3>1. CASE <<d, j>> \in connected
                  BY <1>1, <2>4, <3>1
            <3>2. CASE connecting[d] = [at |-> "registered", irq |-> j]
                  <4>1. j = i
                        BY <3>2 DEF i
                  <4>q. QED
                        BY <1>1, <2>4, <4>1
            <3>q. QED
                  BY <2>1, <2>4, <3>1, <3>2
      <2>q. QED
            BY <2>3, <2>4
<1>q. QED
      BY <1>3, <1>5, <1>6, <1>7 DEF LineInv

LEMMA RefuseLine ==
    ASSUME LineInv, NEW d \in Driver, ConnectRefused(d)
    PROVE  LineInv'
<1> DEFINE i == connecting[d].irq
<1>1. /\ connecting[d].at = "registered"
      /\ registry' = [registry EXCEPT ![i] = <<>>]
      /\ connecting' = [connecting EXCEPT ![d] = Out]
      /\ UNCHANGED <<g_hardware_interrupts, masked, connected>>
      BY DEF ConnectRefused, RolledBack
<1>2. connecting[d] = [at |-> "registered", irq |-> i] /\ i \in Asked
      BY <1>1 DEF LineInv, LineTypeOK, Call, Out
<1> HIDE DEF i
<1>3. LineTypeOK'
      <2>1. registry' \in [Asked -> Seq(Driver)]
            BY <1>1, <1>2 DEF LineInv, LineTypeOK
      <2>2. connecting' \in [Driver -> Call]
            BY <1>1 DEF LineInv, LineTypeOK, Call
      <2>q. QED
            BY <1>1, <2>1, <2>2 DEF LineInv, LineTypeOK
<1>4. TableIsConnected' /\ OpenIsConnected'
      BY <1>1 DEF LineInv, TableIsConnected, OpenIsConnected
<1>5. NoStrayHandler'
      <2> SUFFICES ASSUME NEW j \in Asked, NEW k \in DOMAIN registry'[j]
                   PROVE  \/ <<registry'[j][k], j>> \in connected
                          \/ connecting'[registry'[j][k]] = [at |-> "registered", irq |-> j]
          BY <1>1 DEF NoStrayHandler
      <2>1. j # i
            BY <1>1, <1>2 DEF LineInv, LineTypeOK
      <2>2. registry'[j] = registry[j] /\ registry[j] \in Seq(Driver)
            BY <1>1, <2>1 DEF LineInv, LineTypeOK
      <2>3. \/ <<registry[j][k], j>> \in connected
            \/ connecting[registry[j][k]] = [at |-> "registered", irq |-> j]
            BY <2>2 DEF LineInv, NoStrayHandler
      <2>4. registry[j][k] \in Driver
            BY <2>2
      <2>5. registry[j][k] = d => connecting[d] # [at |-> "registered", irq |-> j]
            <3> SUFFICES ASSUME connecting[d] = [at |-> "registered", irq |-> j] PROVE FALSE
                OBVIOUS
            <3>1. connecting[d].irq = j
                  OBVIOUS
            <3>q. QED
                  BY <3>1, <2>1 DEF i
      <2>6. registry[j][k] # d => connecting'[registry[j][k]] = connecting[registry[j][k]]
            BY <1>1, <2>4 DEF LineInv, LineTypeOK
      <2>q. QED
            BY <2>2, <2>3, <2>5, <2>6
<1>q. QED
      BY <1>3, <1>4, <1>5 DEF LineInv

LEMMA LeaveLine ==
    ASSUME LineInv, NEW d \in Driver, NEW i \in IrqLine, DisconnectInterrupt(d, i)
    PROVE  LineInv'
<1>1. /\ <<d, i>> \in connected
      /\ registry' = [registry EXCEPT ![i] = <<>>]
      /\ g_hardware_interrupts' = [g_hardware_interrupts EXCEPT ![i] = Nothing]
      /\ masked' = masked \union {i}
      /\ connected' = connected \ {<<d, i>>}
      /\ connecting' = connecting /\ i \in Asked
      BY DEF DisconnectInterrupt, MaskedAfter, Asked
<1>2. LineTypeOK'
      BY <1>1 DEF LineInv, LineTypeOK
<1>3. \A e \in Driver : <<e, i>> \in connected => e = d
      BY <1>1 DEF LineInv, TableIsConnected
<1>4. TableIsConnected'
      <2> SUFFICES ASSUME NEW e \in Driver, NEW j \in IrqLine
                   PROVE  <<e, j>> \in connected' <=> g_hardware_interrupts'[j] = e
          BY DEF TableIsConnected
      <2>1. CASE j = i
            BY <1>1, <1>3, <2>1, LineAssumption DEF LineInv, LineTypeOK
      <2>2. CASE j # i
            <3>1. <<e, j>> \in connected' <=> <<e, j>> \in connected
                  BY <1>1, <2>2
            <3>q. QED
                  BY <1>1, <2>2, <3>1 DEF LineInv, LineTypeOK, TableIsConnected
      <2>q. QED
            BY <2>1, <2>2
<1>5. OpenIsConnected'
      BY <1>1, <1>3 DEF LineInv, OpenIsConnected
<1>6. NoStrayHandler'
      <2> SUFFICES ASSUME NEW j \in Asked, NEW k \in DOMAIN registry'[j]
                   PROVE  \/ <<registry'[j][k], j>> \in connected'
                          \/ connecting'[registry'[j][k]] = [at |-> "registered", irq |-> j]
          BY DEF NoStrayHandler
      <2>1. j # i
            BY <1>1 DEF LineInv, LineTypeOK
      <2>2. registry'[j] = registry[j]
            BY <1>1, <2>1 DEF LineInv, LineTypeOK
      <2>3. \/ <<registry[j][k], j>> \in connected
            \/ connecting[registry[j][k]] = [at |-> "registered", irq |-> j]
            BY <2>2 DEF LineInv, NoStrayHandler
      <2>4. <<registry[j][k], j>> # <<d, i>>
            BY <2>1
      <2>q. QED
            BY <1>1, <2>2, <2>3, <2>4
<1>q. QED
      BY <1>2, <1>4, <1>5, <1>6 DEF LineInv

LEMMA LineNextInv == LineInv /\ [LineNext]_lineVars => LineInv'
<1> SUFFICES ASSUME LineInv, [LineNext]_lineVars PROVE LineInv'
    OBVIOUS
<1>1. CASE LineNext
      BY <1>1, RegisterLine, TakeLine, RefuseLine, LeaveLine DEF LineNext
<1>2. CASE UNCHANGED lineVars
      BY <1>2 DEF lineVars, LineInv, LineTypeOK, TableIsConnected, OpenIsConnected, NoStrayHandler
<1>q. QED
      BY <1>1, <1>2

(* For any drivers and lines: a line has at most one driver and is open    *)
(* exactly while it has one, and no handler stays registered for a driver  *)
(* that neither has the line nor is connecting (KE_IO_ConnectInterrupt and *)
(* its rollback, HAL_INTR_ConnectInterrupt, KE_IO_DisconnectInterrupt).    *)
THEOREM LinesSafe == LineSpec => []LinesConsistent
<1>1. LineInv => LinesConsistent
      <2> SUFFICES ASSUME LineInv PROVE OneDriverPerLine
          BY DEF LineInv, LinesConsistent
      <2>1. ASSUME NEW c \in connected, NEW e \in connected, c[2] = e[2] PROVE c = e
            BY <2>1 DEF LineInv, LineTypeOK, TableIsConnected
      <2>q. QED
            BY <2>1 DEF LineInv, OpenIsConnected, OneDriverPerLine
<1>q. QED
      BY LineInitInv, LineNextInv, <1>1, PTL DEF LineSpec
=============================================================================
