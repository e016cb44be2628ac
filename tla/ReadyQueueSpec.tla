--------------------------- MODULE ReadyQueueSpec ---------------------------
(***************************************************************************)
(* What the scheduler expects of a ready queue (the policy comment of      *)
(* ReadyQueue.hpp): threads wait in arrival order, the next one popped is  *)
(* the earliest arrival among those of the highest priority, and a thread  *)
(* that goes back in goes to the end.                                      *)
(***************************************************************************)
EXTENDS Integers, SequencesExt

CONSTANTS Queue, Node, Priority

VARIABLE arrivals   \* arrivals[q]: the threads in queue q, oldest first

Waiting == UNION {Range(arrivals[q]) : q \in Queue}

QueueInit == arrivals = [q \in Queue |-> <<>>]

Arrive(q, t) ==
    /\ t \notin Waiting
    /\ arrivals' = [arrivals EXCEPT ![q] = Append(@, t)]

(* The best thread leaves, and the ones in back, if any, join the end.     *)
PopBest(q, back) ==
    \E i \in DOMAIN arrivals[q] :
        /\ \A j \in DOMAIN arrivals[q] :
              LET p == Priority[arrivals[q][i]]
                  r == Priority[arrivals[q][j]]
              IN  r < p \/ (r = p /\ i <= j)
        /\ arrivals' = [arrivals EXCEPT ![q] = RemoveAt(@, i) \o back]

QueueNext ==
    \E q \in Queue :
        \/ PopBest(q, <<>>)
        \/ \E t \in Node : Arrive(q, t) \/ (t \notin Waiting /\ PopBest(q, <<t>>))

QueueSpec == QueueInit /\ [][QueueNext]_arrivals
=============================================================================
