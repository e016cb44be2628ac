------------------------------ MODULE SpscRing ------------------------------
(***************************************************************************)
(* The lock-free single-producer single-consumer ring that carries         *)
(* interrupt records to the dispatch thread (InterruptRecordRing in        *)
(* kernel/dispatch.hpp) and scan codes to the i8042 pump (ps2::ByteRing);  *)
(* the two have the same code.  Every access to m_head, m_tail and the     *)
(* buffer is a step, in program order, so the two ends interleave freely.  *)
(***************************************************************************)
EXTENDS Integers, Sequences, TLAPS

CONSTANTS
    kCapacity,  \* number of buffer slots
    Value       \* the records or bytes carried

ASSUME SpscRingAssumption == kCapacity \in Nat /\ kCapacity >= 2 /\ Value # {}

VARIABLES
    m_head, m_tail,  \* the shared indices
    buffer,          \* m_records or m_buffer
    push,            \* the producer's place in Push and its locals
    pop,             \* the consumer's place in Pop and its locals
    out              \* what the last successful Pop returned

ringVars == <<m_head, m_tail, buffer, push, pop, out>>

Index == 0..(kCapacity - 1)

Succ(i) == (i + 1) % kCapacity

RingInit ==
    /\ m_head = 0 /\ m_tail = 0
    /\ out \in Value
    /\ buffer = [i \in Index |-> out]
    /\ push = [pc |-> "idle", head |-> 0, value |-> out]
    /\ pop = [pc |-> "idle", tail |-> 0, value |-> out]

-----------------------------------------------------------------------------
PushStart(v) ==
    /\ push.pc = "idle"
    /\ push' = [pc |-> "check", head |-> m_head, value |-> v]
    /\ UNCHANGED <<m_head, m_tail, buffer, pop, out>>

(* A full ring refuses the value.                                          *)
PushCheck ==
    /\ push.pc = "check"
    /\ push' = [push EXCEPT !.pc = IF Succ(push.head) = m_tail THEN "idle" ELSE "write"]
    /\ UNCHANGED <<m_head, m_tail, buffer, pop, out>>

PushWrite ==
    /\ push.pc = "write"
    /\ buffer' = [buffer EXCEPT ![push.head] = push.value]
    /\ push' = [push EXCEPT !.pc = "publish"]
    /\ UNCHANGED <<m_head, m_tail, pop, out>>

PushPublish ==
    /\ push.pc = "publish"
    /\ m_head' = Succ(push.head)
    /\ push' = [push EXCEPT !.pc = "idle"]
    /\ UNCHANGED <<m_tail, buffer, pop, out>>

PopStart ==
    /\ pop.pc = "idle"
    /\ pop' = [pop EXCEPT !.pc = "check", !.tail = m_tail]
    /\ UNCHANGED <<m_head, m_tail, buffer, push, out>>

PopCheck ==
    /\ pop.pc = "check"
    /\ pop' = [pop EXCEPT !.pc = IF pop.tail = m_head THEN "idle" ELSE "read"]
    /\ UNCHANGED <<m_head, m_tail, buffer, push, out>>

PopRead ==
    /\ pop.pc = "read"
    /\ pop' = [pop EXCEPT !.pc = "publish", !.value = buffer[pop.tail]]
    /\ UNCHANGED <<m_head, m_tail, buffer, push, out>>

(* Faulty variant: every value in the ring is taken as popped.             *)
PopPublishAll ==
    /\ pop.pc = "publish"
    /\ m_tail' = m_head
    /\ out' = pop.value
    /\ pop' = [pop EXCEPT !.pc = "idle"]
    /\ UNCHANGED <<m_head, buffer, push>>

PopPublish ==
    /\ pop.pc = "publish"
    /\ m_tail' = Succ(pop.tail)
    /\ out' = pop.value
    /\ pop' = [pop EXCEPT !.pc = "idle"]
    /\ UNCHANGED <<m_head, buffer, push>>

RingNext ==
    \/ \E v \in Value : PushStart(v)
    \/ PushCheck \/ PushWrite \/ PushPublish
    \/ PopStart \/ PopCheck \/ PopRead \/ PopPublish

RingSpec == RingInit /\ [][RingNext]_ringVars

-----------------------------------------------------------------------------
RingTypeOK ==
    /\ m_head \in Index /\ m_tail \in Index
    /\ buffer \in [Index -> Value]
    /\ push \in [pc : {"idle", "check", "write", "publish"}, head : Index, value : Value]
    /\ pop \in [pc : {"idle", "check", "read", "publish"}, tail : Index, value : Value]
    /\ out \in Value

(* The producer never writes a slot the consumer may still read: while a   *)
(* push is past its check the ring has a free slot, and while a pop is     *)
(* past its check the ring is not empty and the value read is still there. *)
EndsStayApart ==
    /\ push.pc # "idle" => push.head = m_head
    /\ pop.pc # "idle" => pop.tail = m_tail
    /\ push.pc \in {"write", "publish"} => Succ(m_head) # m_tail
    /\ push.pc = "publish" => buffer[m_head] = push.value
    /\ pop.pc \in {"read", "publish"} => m_tail # m_head
    /\ pop.pc = "publish" => pop.value = buffer[m_tail]

(* Size(): the number of values between the indices, around the end.       *)
Size == IF m_head >= m_tail THEN m_head - m_tail ELSE kCapacity - (m_tail - m_head)

(* The values in the ring, oldest first.                                   *)
Held == [k \in 1..Size |-> buffer[(m_tail + k - 1) % kCapacity]]

Fifo == INSTANCE FifoSpec WITH Bound <- kCapacity - 1, held <- Held, delivered <- out

(* The ring is a bounded FIFO: nothing is lost, repeated or reordered, and *)
(* no value is overwritten while it is being read.                         *)
ImplementsFifo == Fifo!FifoSpecification

-----------------------------------------------------------------------------
(* Proofs, for every capacity.                                             *)


(* The successor of an index: the next one, or 0 after the last.           *)
LEMMA SuccFacts ==
    ASSUME NEW i \in Index
    PROVE  /\ Succ(i) \in Index
           /\ Succ(i) = IF i = kCapacity - 1 THEN 0 ELSE i + 1
BY SpscRingAssumption DEF Index, Succ

RingInv == RingTypeOK /\ EndsStayApart

LEMMA RingInitInv == RingInit => RingInv
BY SpscRingAssumption DEF RingInit, RingInv, RingTypeOK, EndsStayApart, Index

LEMMA RingNextInv == RingInv /\ [RingNext]_ringVars => RingInv'
<1> SUFFICES ASSUME RingInv, [RingNext]_ringVars PROVE RingInv'
    OBVIOUS
<1> USE DEF RingInv, RingTypeOK, EndsStayApart
<1>1. ASSUME NEW v \in Value, PushStart(v) PROVE RingInv'
      BY <1>1 DEF PushStart
<1>2. CASE PushCheck
      BY <1>2 DEF PushCheck
<1>3. CASE PushWrite
      BY <1>3 DEF PushWrite
<1>4. CASE PushPublish
      BY <1>4, SuccFacts DEF PushPublish, Index
<1>5. CASE PopStart
      BY <1>5 DEF PopStart
<1>6. CASE PopCheck
      BY <1>6 DEF PopCheck
<1>7. CASE PopRead
      BY <1>7 DEF PopRead
<1>8. CASE PopPublish
      BY <1>8, SuccFacts DEF PopPublish, Index
<1>9. CASE UNCHANGED ringVars
      BY <1>9 DEF ringVars
<1>q. QED
      BY <1>1, <1>2, <1>3, <1>4, <1>5, <1>6, <1>7, <1>8, <1>9 DEF RingNext

(* In every run of a ring of any capacity the two ends stay apart: neither *)
(* Push nor Pop touches a slot the other is working on.                    *)
THEOREM RingEndsApart == RingSpec => [](RingTypeOK /\ EndsStayApart)
<1>1. RingInv => RingTypeOK /\ EndsStayApart
      BY DEF RingInv
<1>q. QED
      BY RingInitInv, RingNextInv, <1>1, PTL DEF RingSpec

-----------------------------------------------------------------------------
(* The slot of the k-th value held, without the modulus.                   *)
LEMMA SlotFacts ==
    ASSUME NEW i \in Index, NEW k \in 1..kCapacity
    PROVE  (i + k - 1) % kCapacity
               = IF i + k - 1 < kCapacity THEN i + k - 1 ELSE i + k - 1 - kCapacity
BY SpscRingAssumption DEF Index

(* The ring holds a sequence of at most kCapacity - 1 values, read off the *)
(* buffer from the tail on.                                                *)
HeldShape ==
    /\ Size \in 0..(kCapacity - 1)
    /\ Held \in Seq(Value)
    /\ Len(Held) = Size
    /\ \A k \in 1..Size :
          Held[k] = buffer[IF m_tail + k - 1 < kCapacity THEN m_tail + k - 1
                           ELSE m_tail + k - 1 - kCapacity]

LEMMA HeldFacts == RingTypeOK => HeldShape
<1> SUFFICES ASSUME RingTypeOK PROVE HeldShape
    OBVIOUS
<1>1. Size \in 0..(kCapacity - 1)
      BY SpscRingAssumption DEF RingTypeOK, Size, Index
<1>2. ASSUME NEW k \in 1..Size
      PROVE  /\ (m_tail + k - 1) % kCapacity
                   = IF m_tail + k - 1 < kCapacity THEN m_tail + k - 1
                     ELSE m_tail + k - 1 - kCapacity
             /\ (m_tail + k - 1) % kCapacity \in Index
      <2>1. k \in 1..kCapacity
            BY <1>1, SpscRingAssumption
      <2>2. (m_tail + k - 1) % kCapacity
                = IF m_tail + k - 1 < kCapacity THEN m_tail + k - 1
                  ELSE m_tail + k - 1 - kCapacity
            BY <2>1, SlotFacts DEF RingTypeOK
      <2>q. QED
            BY <2>1, <2>2, SpscRingAssumption DEF RingTypeOK, Index
<1>3. Held \in [1..Size -> Value]
      BY <1>2 DEF Held, RingTypeOK
<1>4. Held \in Seq(Value) /\ Len(Held) = Size
      BY <1>1, <1>3
<1>q. QED
      BY <1>1, <1>2, <1>4 DEF Held, HeldShape

LEMMA HeldFactsNext == RingTypeOK' => HeldShape'
BY HeldFacts, PTL

(* Publishing the head appends the value written.                          *)
LEMMA PublishAppends ==
    ASSUME RingInv, RingInv', PushPublish
    PROVE  Held' = Append(Held, push.value) /\ Len(Held) < kCapacity - 1
<1>1. /\ Size' = Size + 1
      /\ m_tail' = m_tail /\ buffer' = buffer
      /\ Size < kCapacity - 1
      BY SuccFacts, SpscRingAssumption, SMTT(30)
         DEF RingInv, RingTypeOK, EndsStayApart, PushPublish, Size, Index
<1>2. HeldShape /\ HeldShape'
      BY HeldFacts, HeldFactsNext DEF RingInv
<1>3. (IF m_tail + Size < kCapacity THEN m_tail + Size ELSE m_tail + Size - kCapacity) = m_head
      BY SpscRingAssumption DEF RingInv, RingTypeOK, Size, Index
<1>4. buffer[m_head] = push.value /\ push.value \in Value
      BY DEF RingInv, RingTypeOK, EndsStayApart, PushPublish
<1>5. m_tail \in Int
      BY SpscRingAssumption DEF RingInv, RingTypeOK, Index
<1>6. \A k \in 1..Size' : Held'[k] = IF k <= Size THEN Held[k] ELSE push.value
      BY <1>1, <1>2, <1>3, <1>4, <1>5, SMTT(30) DEF HeldShape
<1>7. /\ Append(Held, push.value) \in Seq(Value)
      /\ Len(Append(Held, push.value)) = Size + 1
      /\ \A k \in 1..(Size + 1) :
            Append(Held, push.value)[k] = IF k <= Size THEN Held[k] ELSE push.value
      BY <1>2, <1>4 DEF HeldShape
<1>q. QED
      BY <1>1, <1>2, <1>6, <1>7 DEF HeldShape

(* Publishing the tail drops the oldest value, which is the one returned.  *)
LEMMA PublishDrops ==
    ASSUME RingInv, RingInv', PopPublish
    PROVE  Held # <<>> /\ Held' = Tail(Held) /\ out' = Head(Held)
<1>1. /\ m_tail \in 0..(kCapacity - 1) /\ m_head \in 0..(kCapacity - 1)
      /\ m_tail # m_head /\ pop.tail = m_tail /\ out' = buffer[m_tail]
      /\ m_head' = m_head /\ buffer' = buffer /\ m_tail' = Succ(m_tail)
      BY DEF RingInv, RingTypeOK, EndsStayApart, PopPublish, Index
<1>2. m_tail' = (IF m_tail = kCapacity - 1 THEN 0 ELSE m_tail + 1)
      BY <1>1, SuccFacts DEF Index
<1>3. Size' = Size - 1 /\ Size > 0
      BY <1>1, <1>2, SpscRingAssumption DEF Size
<1>4. HeldShape /\ HeldShape'
      BY HeldFacts, HeldFactsNext DEF RingInv
<1>5. ASSUME NEW k \in 1..(Size - 1)
      PROVE  Held'[k] = Held[k + 1]
      <2>1. k \in 1..Size' /\ k + 1 \in 1..Size
            BY <1>3, <1>4 DEF HeldShape
      <2>2. Held'[k] = buffer[IF m_tail' + k - 1 < kCapacity THEN m_tail' + k - 1
                              ELSE m_tail' + k - 1 - kCapacity]
            BY <2>1, <1>1, <1>4 DEF HeldShape
      <2>3. Held[k + 1] = buffer[IF m_tail + (k + 1) - 1 < kCapacity THEN m_tail + (k + 1) - 1
                                 ELSE m_tail + (k + 1) - 1 - kCapacity]
            BY <2>1, <1>4 DEF HeldShape
      <2>4. (IF m_tail' + k - 1 < kCapacity THEN m_tail' + k - 1
                ELSE m_tail' + k - 1 - kCapacity)
              = (IF m_tail + (k + 1) - 1 < kCapacity THEN m_tail + (k + 1) - 1
                 ELSE m_tail + (k + 1) - 1 - kCapacity)
            <3>1. Size \in 0..(kCapacity - 1)
                  BY <1>4 DEF HeldShape
            <3>q. QED
                  BY <3>1, <1>1, <1>2, SpscRingAssumption
      <2>q. QED
            BY <2>2, <2>3, <2>4
<1>6. out' = Held[1]
      BY <1>1, <1>3, <1>4, SpscRingAssumption DEF HeldShape
<1>7. Held # <<>> /\ Head(Held) = Held[1]
      BY <1>3, <1>4 DEF HeldShape
<1>8. /\ Tail(Held) \in Seq(Value)
      /\ Len(Tail(Held)) = Size - 1
      /\ \A k \in 1..(Size - 1) : Tail(Held)[k] = Held[k + 1]
      BY <1>3, <1>4 DEF HeldShape
<1>q. QED
      BY <1>3, <1>4, <1>5, <1>6, <1>7, <1>8 DEF HeldShape

(* Writing a free slot changes nothing the ring holds.                     *)
LEMMA WriteKeeps ==
    ASSUME RingInv, RingInv', PushWrite
    PROVE  Held' = Held
<1>1. /\ m_tail' = m_tail /\ m_head' = m_head /\ Size' = Size
      /\ \A i \in Index : i # m_head => buffer'[i] = buffer[i]
      BY DEF RingInv, RingTypeOK, EndsStayApart, PushWrite, Size
<1>2. HeldShape /\ HeldShape'
      BY HeldFacts, HeldFactsNext DEF RingInv
<1>3. ASSUME NEW k \in 1..Size
      PROVE  LET s == IF m_tail + k - 1 < kCapacity THEN m_tail + k - 1
                      ELSE m_tail + k - 1 - kCapacity
             IN  s \in Index /\ s # m_head
      BY <1>2, SpscRingAssumption DEF HeldShape, Size, RingInv, RingTypeOK, Index
<1>4. \A k \in 1..Size : Held'[k] = Held[k]
      BY <1>1, <1>2, <1>3, SMTT(30) DEF HeldShape
<1>q. QED
      BY <1>1, <1>2, <1>4, SMTT(30) DEF HeldShape

(* The ring of any capacity is a bounded FIFO: every step of Push and Pop  *)
(* accepts a value at the end, delivers the oldest, or changes nothing.    *)
THEOREM RingImplementsFifo == RingSpec => ImplementsFifo
<1>1. RingInit => Fifo!FifoInit
      <2> SUFFICES ASSUME RingInit PROVE Held = <<>> /\ out \in Value
          BY DEF Fifo!FifoInit
      <2>1. Size = 0 /\ HeldShape
            BY RingInitInv, HeldFacts DEF RingInit, RingInv, Size
      <2>q. QED
            BY <2>1 DEF HeldShape, RingInit
<1>2. RingInv /\ RingInv' /\ [RingNext]_ringVars
        => [Fifo!Deliver \/ \E v \in Value : Fifo!Accept(v)]_<<Held, out>>
      <2> SUFFICES ASSUME RingInv, RingInv', [RingNext]_ringVars
                   PROVE  \/ Fifo!Deliver
                          \/ \E v \in Value : Fifo!Accept(v)
                          \/ Held' = Held /\ out' = out
          OBVIOUS
      <2>1. CASE PushPublish
            <3>1. push.value \in Value /\ out' = out
                  BY <2>1 DEF RingInv, RingTypeOK, PushPublish
            <3>2. Fifo!Accept(push.value)
                  BY <2>1, <3>1, PublishAppends DEF Fifo!Accept
            <3>q. QED
                  BY <3>1, <3>2
      <2>2. CASE PopPublish
            BY <2>2, PublishDrops DEF Fifo!Deliver
      <2>3. CASE PushWrite
            BY <2>3, WriteKeeps DEF PushWrite
      <2>4. CASE \/ \E v \in Value : PushStart(v)
                 \/ PushCheck \/ PopStart \/ PopCheck \/ PopRead \/ UNCHANGED ringVars
            BY <2>4 DEF PushStart, PushCheck, PopStart, PopCheck, PopRead, ringVars, Held, Size
      <2>q. QED
            BY <2>1, <2>2, <2>3, <2>4 DEF RingNext
<1>3. RingSpec => []RingInv
      BY RingInitInv, RingNextInv, PTL DEF RingSpec
<1>q. QED
      BY <1>1, <1>2, <1>3, PTL DEF RingSpec, ImplementsFifo, Fifo!FifoSpecification
=============================================================================
