----------------------------- MODULE ReadyQueue -----------------------------
(***************************************************************************)
(* The intrusive ready queue of scheduler/ReadyQueue.hpp at the level of   *)
(* its pointers: every CPU slot has a head, a tail and a count, and the    *)
(* links live in the threads, shared by all the queues.  The operations    *)
(* are driven by the callers in Scheduler.cpp: init_bsp and init_ap with   *)
(* create_idle_thread, enqueue_on and schedule_next.                       *)
(*                                                                         *)
(* A slot exists for every CPU the kernel has room for; only the CPUs in   *)
(* Startable ever come online.                                             *)
(***************************************************************************)
EXTENDS Integers, SequencesExt

CONSTANTS
    Node,       \* the threads
    Null,       \* nullptr
    Queue,      \* the CPU slots
    Startable,  \* the slots whose CPU the HAL can start; 0 is the BSP
    IdleNode,       \* IdleNode[q]: the idle thread of CPU q
    BootNode,       \* BootNode[q]: the bootstrap thread CPU q adopts
    NodePriority    \* the priority of each thread

ASSUME ReadyQueueAssumption ==
    /\ Queue \subseteq Nat /\ 0 \in Startable /\ Startable \subseteq Queue
    /\ Null \notin Node
    /\ IdleNode \in [Startable -> Node] /\ BootNode \in [Startable -> Node]
    /\ NodePriority \in [Node -> Nat]

VARIABLES
    mem,      \* the heads, tails, counts and links
    online,   \* the CPUs whose CpuContext::online is set
    idled,    \* the CPUs whose CpuContext::idle is set
    running   \* running[q]: CpuContext::current

queueVars == <<mem, online, idled, running>>

NodeOrNull == Node \cup {Null}
IdleNodes  == {IdleNode[q] : q \in Startable}
BootNodes  == {BootNode[q] : q \in Startable}

ListInit ==
    /\ mem = [head  |-> [q \in Queue |-> Null],
              tail  |-> [q \in Queue |-> Null],
              count |-> [q \in Queue |-> 0],
              next  |-> [t \in Node |-> Null],
              prev  |-> [t \in Node |-> Null]]
    /\ online = {} /\ idled = {}
    /\ running = [q \in Queue |-> Null]

-----------------------------------------------------------------------------
enqueue(m, q, t) ==
    [m EXCEPT !.next = [x \in Node |-> IF x = t THEN Null
                                       ELSE IF x = m.tail[q] THEN t ELSE m.next[x]],
              !.prev[t] = m.tail[q],
              !.head[q] = IF m.tail[q] = Null THEN t ELSE @,
              !.tail[q] = t,
              !.count[q] = @ + 1]

removeForwardOnly(m, q, t) ==
    LET p == m.prev[t]
        n == m.next[t]
    IN  [m EXCEPT !.next = [x \in Node |-> IF x = t THEN Null
                                           ELSE IF x = p THEN n ELSE m.next[x]],
                  !.prev[t] = Null,
                  !.head[q] = IF p = Null /\ @ = t THEN n ELSE @,
                  !.tail[q] = IF n = Null /\ @ = t THEN p ELSE @,
                  !.count[q] = IF @ > 0 THEN @ - 1 ELSE 0]

remove(m, q, t) ==
    LET p == m.prev[t]
        n == m.next[t]
    IN  [m EXCEPT !.next = [x \in Node |-> IF x = t THEN Null
                                           ELSE IF x = p THEN n ELSE m.next[x]],
                  !.prev = [x \in Node |-> IF x = t THEN Null
                                           ELSE IF x = n THEN p ELSE m.prev[x]],
                  !.head[q] = IF p = Null /\ @ = t THEN n ELSE @,
                  !.tail[q] = IF n = Null /\ @ = t THEN p ELSE @,
                  !.count[q] = IF @ > 0 THEN @ - 1 ELSE 0]

(* The threads met from the head along rq_next, cut off after as many      *)
(* links as there are threads.                                             *)
Links == Cardinality(Node)
Contents(m, q) ==
    LET walk[k \in 0..Links, y \in NodeOrNull] ==
            IF k = 0 \/ y = Null THEN <<>> ELSE <<y>> \o walk[k - 1, m.next[y]]
    IN  walk[Links, m.head[q]]

(* Faulty variant: a later thread of the same priority wins.               *)
pop_candidate_latest(m, q) ==
    FoldLeft(LAMBDA best, n : IF NodePriority[n] >= NodePriority[best] THEN n ELSE best,
             m.head[q], Contents(m, q))

(* The scan of pop_next: a later thread replaces the candidate only with a *)
(* strictly higher priority.                                               *)
pop_candidate(m, q) ==
    FoldLeft(LAMBDA best, n : IF NodePriority[n] > NodePriority[best] THEN n ELSE best,
             m.head[q], Contents(m, q))

pop_next(m, q) == remove(m, q, pop_candidate(m, q))

(* pick_least_loaded reads the counts: the first online CPU with the       *)
(* smallest one.                                                           *)
pick_least_loaded(m) ==
    CHOOSE q \in online :
        \A r \in online : m.count[q] < m.count[r] \/ (m.count[q] = m.count[r] /\ q <= r)

Unlinked(t) == \A q \in Queue : ~Contains(Contents(mem, q), t)

-----------------------------------------------------------------------------
(* init_bsp, and init_ap once the BSP is up: the CPU is marked online and  *)
(* adopts its bootstrap stream.                                            *)
ComeOnline(q) ==
    /\ q \in Startable \ online
    /\ q # 0 => 0 \in idled
    /\ online' = online \cup {q}
    /\ running' = [running EXCEPT ![q] = BootNode[q]]
    /\ UNCHANGED <<mem, idled>>

(* create_idle_thread: the new thread is placed like any other, removed    *)
(* from every slot in turn, then put in its own CPU's queue.               *)
CreateIdle(q) ==
    /\ q \in online \ idled
    /\ LET t        == IdleNode[q]
           placed   == enqueue(mem, pick_least_loaded(mem), t)
           unplaced == FoldLeft(LAMBDA m, r : remove(m, r, t), placed,
                                SetToSortSeq(Queue, LAMBDA a, b : a < b))
       IN  mem' = enqueue(unplaced, q, t)
    /\ idled' = idled \cup {q}
    /\ UNCHANGED <<online, running>>

(* enqueue_on: a thread that is created, or woken, becomes ready.          *)
MakeReady(t) ==
    /\ 0 \in idled
    /\ t \notin IdleNodes /\ Unlinked(t)
    /\ \A q \in Queue : running[q] # t
    /\ t \in BootNodes => \E q \in online : t = BootNode[q]
    /\ mem' = enqueue(mem, pick_least_loaded(mem), t)
    /\ UNCHANGED <<online, idled, running>>

(* schedule_next under the queue lock: pop, then put the outgoing thread   *)
(* back if it is still Running.  The idle thread always is.                *)
ScheduleNext(q) ==
    /\ q \in idled /\ mem.head[q] # Null
    /\ LET next   == pop_candidate(mem, q)
           popped == pop_next(mem, q)
       IN  /\ \/ mem' = enqueue(popped, q, running[q])
              \/ running[q] \notin IdleNodes /\ mem' = popped
           /\ running' = [running EXCEPT ![q] = next]
    /\ UNCHANGED <<online, idled>>

ListNext ==
    \/ \E q \in Queue : ComeOnline(q) \/ CreateIdle(q) \/ ScheduleNext(q)
    \/ \E t \in Node : MakeReady(t)

ListSpec == ListInit /\ [][ListNext]_queueVars

-----------------------------------------------------------------------------
ListTypeOK ==
    /\ mem \in [head : [Queue -> NodeOrNull], tail : [Queue -> NodeOrNull],
                count : [Queue -> 0..Links],
                next : [Node -> NodeOrNull], prev : [Node -> NodeOrNull]]
    /\ idled \subseteq online /\ online \subseteq Startable
    /\ running \in [Queue -> NodeOrNull]

(* "Number of queued threads. Used to place work on the least-loaded CPU." *)
CountIsLength == \A q \in Queue : mem.count[q] = Len(Contents(mem, q))

(* The links form one list per queue, the same from the tail as from the   *)
(* head, and a thread in no queue has no links into one.                   *)
DoublyLinked ==
    /\ \A q \in Queue :
          LET s == Contents(mem, q) IN
          /\ mem.tail[q] = IF s = <<>> THEN Null ELSE Last(s)
          /\ \A i \in DOMAIN s : mem.prev[s[i]] = IF i = 1 THEN Null ELSE s[i - 1]
    /\ \A t \in Node : Unlinked(t) => mem.next[t] = Null /\ mem.prev[t] = Null

(* "the BSP never places a thread on a queue this CPU cannot yet drain":   *)
(* no thread waits in the queue of a CPU that has not finished init_ap.    *)
PlacedWhereDrained == \A q \in Queue \ idled : Contents(mem, q) = <<>>

Abstract == INSTANCE ReadyQueueSpec WITH
    arrivals <- [q \in Queue |-> Contents(mem, q)], Priority <- NodePriority

(* The pointer code implements the queue the scheduler expects: nobody is  *)
(* lost or duplicated, and the earliest of the highest priority is popped. *)
ImplementsQueue == Abstract!QueueSpec

(* The list is whole: doubly linked, and as long as its count says.        *)
ListSound == ListTypeOK /\ CountIsLength /\ DoublyLinked
=============================================================================
