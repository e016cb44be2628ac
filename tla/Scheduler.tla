------------------------------ MODULE Scheduler ------------------------------
(***************************************************************************)
(* The thread scheduler of Kernel/Source/src/scheduler: one ready queue    *)
(* and one current thread per CPU, priority selection with round-robin     *)
(* inside a level, quantum preemption by the timer, blocking and waking.   *)
(*                                                                         *)
(* A step is what a CPU does between two points at which another CPU can   *)
(* observe it.  Entering schedule_next from a blocking or terminating      *)
(* thread therefore takes three steps: the state is marked, the next       *)
(* thread is picked under the queue lock, the context is switched.  On a   *)
(* single CPU (the only configuration the HAL in the repository offers)    *)
(* interrupts are masked across the three, so nothing comes between them.  *)
(*                                                                         *)
(* Threads are created by KE_SCHED_CreateThread / CreateUserThread; the    *)
(* state "Unborn" stands for a thread object that does not exist yet.      *)
(***************************************************************************)
EXTENDS Integers, Sequences, Functions

CONSTANTS
    CPU,       \* the ids of the CPUs that are online
    Thread,    \* every thread that may ever exist
    Idle,      \* Idle[c]: the idle thread pinned to CPU c
    Boot,      \* Boot[c]: the adopted bootstrap stream of CPU c
    Priority,  \* the priority each thread is created with
    Quantum    \* DEFAULT_QUANTUM, in timer ticks

IdleThreads == {Idle[c] : c \in CPU}
BootThreads == {Boot[c] : c \in CPU}
Worker      == Thread \ (IdleThreads \cup BootThreads)

ASSUME SchedulerAssumption ==
    /\ CPU \subseteq Nat /\ 0 \in CPU
    /\ Idle \in [CPU -> Thread] /\ Boot \in [CPU -> Thread]
    /\ IdleThreads \cap BootThreads = {}
    /\ \A c, d \in CPU : c # d => Idle[c] # Idle[d] /\ Boot[c] # Boot[d]
    /\ Priority \in [Thread -> Nat]
    /\ \A c \in CPU : Priority[Idle[c]] = 0 /\ Priority[Boot[c]] = 1
    /\ Quantum \in Nat \ {0}

VARIABLES
    state,          \* KThreadObject::state of each thread
    ready,          \* ready[c]: CpuContext::ready, in arrival order
    current,        \* current[c]: CpuContext::current
    loaded,         \* loaded[c]: the thread whose context CPU c really executes
    leaving,        \* leaving[c]: c has marked its thread and must reschedule
    quantum_ticks,  \* KThreadObject::quantum_ticks
    saved           \* saved[t]: kernel_stack_top holds t's suspended context

schedVars == <<state, ready, current, loaded, leaving, quantum_ticks, saved>>

ThreadState == {"Unborn", "Ready", "Running", "Blocked", "Terminated"}

(* CPU c runs its current thread and can take an interrupt or a call.      *)
Executing(c) == ~leaving[c] /\ loaded[c] = current[c]

(* init_bsp and init_ap: each CPU runs its adopted bootstrap stream and    *)
(* its idle thread waits in its own queue.                                 *)
Init ==
    /\ state = [t \in Thread |->
                    IF t \in BootThreads THEN "Running"
                    ELSE IF t \in IdleThreads THEN "Ready" ELSE "Unborn"]
    /\ ready = [c \in CPU |-> <<Idle[c]>>]
    /\ current = Boot
    /\ loaded = Boot
    /\ leaving = [c \in CPU |-> FALSE]
    /\ quantum_ticks = [t \in Thread |-> IF t \in BootThreads THEN Quantum ELSE 0]
    /\ saved = [t \in Thread |-> t \in IdleThreads]

-----------------------------------------------------------------------------
(* Faulty variant: the latest arrival of the highest priority.             *)
IsBestLatest(q, i) ==
    \A j \in DOMAIN q :
        \/ Priority[q[j]] < Priority[q[i]]
        \/ Priority[q[j]] = Priority[q[i]] /\ i >= j

(* ReadyQueue::pop_next takes the earliest arrival among the threads of    *)
(* the highest priority: position i of queue q is that one.                *)
IsBest(q, i) ==
    \A j \in DOMAIN q :
        \/ Priority[q[j]] < Priority[q[i]]
        \/ Priority[q[j]] = Priority[q[i]] /\ i <= j

(* pick_target_cpu: the first CPU with the strictly smallest load.         *)
pick_target_cpu(d) ==
    \A e \in CPU :
        \/ Len(ready[d]) < Len(ready[e])
        \/ Len(ready[d]) = Len(ready[e]) /\ d <= e

enqueue_on(d, t) == ready' = [ready EXCEPT ![d] = Append(@, t)]

(* schedule_next with nothing queued: the current thread keeps the CPU.    *)
KeepRunning(c, ticks) ==
    /\ ready[c] = <<>>
    /\ quantum_ticks' = [ticks EXCEPT ![current[c]] = Quantum]
    /\ leaving' = [leaving EXCEPT ![c] = FALSE]
    /\ UNCHANGED <<state, ready, current, loaded, saved>>

(* A list without its i-th element.                                        *)
Without(s, i) == SubSeq(s, 1, i - 1) \o SubSeq(s, i + 1, Len(s))

(* Faulty variant: the outgoing thread is put back whatever its state.     *)
PopAndRequeueAlways(c, ticks) ==
    \E i \in DOMAIN ready[c] :
        /\ IsBest(ready[c], i)
        /\ LET prev == current[c]
               next == ready[c][i]
               rest == Without(ready[c], i)
           IN  /\ ready' = [ready EXCEPT ![c] = Append(rest, prev)]
               /\ state' = [state EXCEPT ![prev] = IF @ = "Running" THEN "Ready" ELSE @,
                                         ![next] = "Running"]
               /\ quantum_ticks' = [ticks EXCEPT ![next] = Quantum]
               /\ current' = [current EXCEPT ![c] = next]
        /\ leaving' = [leaving EXCEPT ![c] = FALSE]
        /\ UNCHANGED <<loaded, saved>>

(* schedule_next up to the context switch: pop first, then re-queue the    *)
(* outgoing thread if it is still Running, then publish the new current.   *)
PopAndRequeue(c, ticks) ==
    \E i \in DOMAIN ready[c] :
        /\ IsBest(ready[c], i)
        /\ LET prev    == current[c]
               next    == ready[c][i]
               rest    == Without(ready[c], i)
               requeue == state[prev] = "Running"
           IN  /\ ready' = [ready EXCEPT ![c] = IF requeue THEN Append(rest, prev) ELSE rest]
               /\ state' = [state EXCEPT ![prev] = IF requeue THEN "Ready" ELSE @,
                                         ![next] = "Running"]
               /\ quantum_ticks' = [ticks EXCEPT ![next] = Quantum]
               /\ current' = [current EXCEPT ![c] = next]
        /\ leaving' = [leaving EXCEPT ![c] = FALSE]
        /\ UNCHANGED <<loaded, saved>>

schedule_next(c, ticks) == KeepRunning(c, ticks) \/ PopAndRequeue(c, ticks)

(* The end of schedule_next: save the outgoing stack pointer, load the     *)
(* incoming one.  The thread resumes here when it is picked again.         *)
HAL_CPU_SwitchContext(c) ==
    /\ loaded[c] # current[c]
    /\ saved' = [saved EXCEPT ![loaded[c]] = TRUE, ![current[c]] = FALSE]
    /\ loaded' = [loaded EXCEPT ![c] = current[c]]
    /\ UNCHANGED <<state, ready, current, leaving, quantum_ticks>>

(* A thread that marked itself Blocked or Terminated reaches schedule_next. *)
Reschedule(c) == leaving[c] /\ schedule_next(c, quantum_ticks)

-----------------------------------------------------------------------------
(* The timer interrupt: charge the running thread and rotate it out when   *)
(* its quantum is used up.                                                 *)
tick(c) ==
    LET cur  == current[c]
        left == IF quantum_ticks[cur] > 0 THEN quantum_ticks[cur] - 1 ELSE 0
        ticks == [quantum_ticks EXCEPT ![cur] = left]
    IN  /\ Executing(c)
        /\ \/ left = 0 /\ schedule_next(c, ticks)
           \/ /\ left > 0
              /\ quantum_ticks' = ticks
              /\ UNCHANGED <<state, ready, current, loaded, leaving, saved>>

KE_SCHED_Yield(c) == Executing(c) /\ schedule_next(c, quantum_ticks)

(* Faulty variant: the new thread's stack is not framed.                   *)
CreateThreadUnframed(c, t) ==
    /\ Executing(c) /\ current[c] \notin IdleThreads
    /\ state[t] = "Unborn"
    /\ state' = [state EXCEPT ![t] = "Ready"]
    /\ \E d \in CPU : pick_target_cpu(d) /\ enqueue_on(d, t)
    /\ UNCHANGED <<current, loaded, leaving, quantum_ticks, saved>>

(* KE_SCHED_CreateThread and KE_SCHED_CreateUserThread once the stack is   *)
(* allocated and the object is inserted; a failure before that changes     *)
(* nothing here.                                                           *)
KE_SCHED_CreateThread(c, t) ==
    /\ Executing(c) /\ current[c] \notin IdleThreads
    /\ state[t] = "Unborn"
    /\ state' = [state EXCEPT ![t] = "Ready"]
    /\ saved' = [saved EXCEPT ![t] = TRUE]
    /\ \E d \in CPU : pick_target_cpu(d) /\ enqueue_on(d, t)
    /\ UNCHANGED <<current, loaded, leaving, quantum_ticks>>

(* The first half of block_current_locked: the thread is marked, the       *)
(* rescheduling follows.  Idle threads only halt and yield.                *)
block_current_locked(c) ==
    /\ Executing(c) /\ current[c] \notin IdleThreads
    /\ state' = [state EXCEPT ![current[c]] = "Blocked"]
    /\ leaving' = [leaving EXCEPT ![c] = TRUE]
    /\ UNCHANGED <<ready, current, loaded, quantum_ticks, saved>>

(* Faulty variant: a thread is readied unless it is ready or running.      *)
ready_locked_unchecked(t) ==
    \/ /\ state[t] \in {"Blocked", "Terminated"}
       /\ state' = [state EXCEPT ![t] = "Ready"]
       /\ \E d \in CPU : pick_target_cpu(d) /\ enqueue_on(d, t)
       /\ UNCHANGED <<current, loaded, leaving, quantum_ticks, saved>>
    \/ state[t] \notin {"Blocked", "Terminated"} /\ UNCHANGED schedVars

(* ready_locked: only a thread seen as Blocked is put back in a queue.     *)
ready_locked(t) ==
    \/ /\ state[t] = "Blocked"
       /\ state' = [state EXCEPT ![t] = "Ready"]
       /\ \E d \in CPU : pick_target_cpu(d) /\ enqueue_on(d, t)
       /\ UNCHANGED <<current, loaded, leaving, quantum_ticks, saved>>
    \/ state[t] # "Blocked" /\ UNCHANGED schedVars

KE_SCHED_Unblock(c, t) == Executing(c) /\ state[t] # "Unborn" /\ ready_locked(t)

(* KE_SCHED_Terminate, reached by worker threads only: the bootstrap and   *)
(* idle streams loop for ever.                                             *)
KE_SCHED_Terminate(c) ==
    /\ Executing(c) /\ current[c] \in Worker
    /\ state' = [state EXCEPT ![current[c]] = "Terminated"]
    /\ leaving' = [leaving EXCEPT ![c] = TRUE]
    /\ UNCHANGED <<ready, current, loaded, quantum_ticks, saved>>

Next ==
    \E c \in CPU :
        \/ Reschedule(c)
        \/ HAL_CPU_SwitchContext(c)
        \/ tick(c)
        \/ KE_SCHED_Yield(c)
        \/ block_current_locked(c)
        \/ KE_SCHED_Terminate(c)
        \/ \E t \in Thread : KE_SCHED_CreateThread(c, t) \/ KE_SCHED_Unblock(c, t)

(* A CPU that is inside schedule_next finishes it, and the timer of a CPU  *)
(* whose interrupts are enabled fires again and again.  Nothing is assumed *)
(* of what the threads choose to call.                                     *)
Fairness ==
    \A c \in CPU : /\ WF_schedVars(Reschedule(c))
                   /\ WF_schedVars(HAL_CPU_SwitchContext(c))
                   /\ WF_schedVars(tick(c))

Spec == Init /\ [][Next]_schedVars /\ Fairness

-----------------------------------------------------------------------------
Queued(c) == Range(ready[c])

TypeOK ==
    /\ state \in [Thread -> ThreadState]
    /\ ready \in [CPU -> Seq(Thread)]
    /\ current \in [CPU -> Thread]
    /\ loaded \in [CPU -> Thread]
    /\ leaving \in [CPU -> BOOLEAN]
    /\ quantum_ticks \in [Thread -> 0..Quantum]
    /\ saved \in [Thread -> BOOLEAN]

(* Every thread is exactly where its state says: a Ready thread waits once *)
(* in one queue, a Running thread is the current thread of one CPU, and a  *)
(* Blocked or Terminated thread is in no queue.                            *)
Placement ==
    /\ \A c \in CPU : IsInjective(ready[c])
    /\ \A c, d \in CPU : c # d => Queued(c) \cap Queued(d) = {}
    /\ \A t \in Thread : state[t] = "Ready" <=> \E c \in CPU : t \in Queued(c)
    /\ \A c \in CPU : ~leaving[c] => state[current[c]] = "Running"
    /\ \A t \in Thread : state[t] = "Running" => \E c \in CPU : current[c] = t

(* A context is loaded only from a thread whose own context was saved      *)
(* there first ("Save prev's SP into its TCB and load next's saved SP").   *)
LoadsSavedContext ==
    \A c \in CPU : loaded[c] # current[c] => saved[current[c]]

(* schedule_next never returns to a thread that blocked or terminated:     *)
(* whenever a CPU must leave its thread its queue offers another one.      *)
NeverReturnsToLeaver == \A c \in CPU : leaving[c] => ready[c] # <<>>

(* No thread ever leaves the Terminated state.                             *)
TerminatedForever ==
    [][\A t \in Thread : state[t] = "Terminated" => state'[t] = "Terminated"]_schedVars

(* A ready thread of the highest priority in use eventually runs: equal    *)
(* priorities rotate, and a wake-up never overtakes an earlier arrival.    *)
TopPriorityRuns ==
    \A t \in Thread :
        (\A u \in Thread : Priority[u] <= Priority[t])
            => (state[t] = "Ready" ~> state[t] = "Running")

(* "The idle thread: run only when nothing else is ready": a switch to the *)
(* idle thread leaves no other thread ready on that CPU.                   *)
IdleOnlyWhenNothingReady ==
    [][\A c \in CPU : current'[c] = Idle[c] /\ current[c] # Idle[c]
                          => ready'[c] = <<>>]_schedVars
=============================================================================
