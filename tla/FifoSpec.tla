------------------------------ MODULE FifoSpec ------------------------------
(* What a ring promises its two ends: accepted values are delivered once   *)
(* each, in order, and at most Bound of them are held.                     *)
EXTENDS Integers, Sequences

CONSTANTS Value, Bound

VARIABLES held, delivered   \* delivered: the value handed over last

FifoInit == held = <<>> /\ delivered \in Value

Accept(v) == Len(held) < Bound /\ held' = Append(held, v) /\ UNCHANGED delivered

Deliver == held # <<>> /\ delivered' = Head(held) /\ held' = Tail(held)

FifoSpecification ==
    FifoInit /\ [][Deliver \/ \E v \in Value : Accept(v)]_<<held, delivered>>
=============================================================================
