--------------------------- MODULE SchedulerProofs ---------------------------
(***************************************************************************)
(* Proofs about Scheduler.  The HAL in the repository runs one CPU, and    *)
(* the theorems are about that configuration: any set of threads, any      *)
(* priorities, any quantum, CPU = {0}.                                     *)
(***************************************************************************)
EXTENDS Scheduler, SeqLemmas

Uniprocessor == CPU = {0}

(* The inductive invariant.  Beyond Placement it says what a CPU that is   *)
(* about to reschedule looks like, that the idle thread is always ready or *)
(* running, which is why the queue is never empty when a thread leaves,    *)
(* and that every live thread but the loaded one has its context saved.    *)
IInv ==
    /\ TypeOK
    /\ IsInjective(ready[0])
    /\ \A t \in Thread : state[t] = "Ready" <=> t \in Range(ready[0])
    /\ \A t \in Thread : state[t] = "Running" => t = current[0]
    /\ ~leaving[0] => state[current[0]] = "Running"
    /\ leaving[0] => /\ loaded[0] = current[0]
                     /\ state[current[0]] \in {"Blocked", "Terminated"}
    /\ state[Idle[0]] \in {"Ready", "Running"}
    /\ \A t \in Thread :
          t # loaded[0] /\ state[t] \notin {"Unborn", "Terminated"} => saved[t]

(* The constants on one CPU: the two distinguished threads.                *)
LEMMA UniprocessorFacts ==
    ASSUME Uniprocessor
    PROVE  /\ Idle[0] \in Thread /\ Boot[0] \in Thread /\ Idle[0] # Boot[0]
           /\ IdleThreads = {Idle[0]} /\ BootThreads = {Boot[0]}
           /\ Quantum \in Nat /\ Quantum > 0
  BY SchedulerAssumption DEF Uniprocessor, IdleThreads, BootThreads

(* While a thread other than idle is current the queue holds idle, so      *)
(* schedule_next always has a thread to switch to.                         *)
LEMMA QueueNotEmpty ==
    ASSUME Uniprocessor, IInv, state[current[0]] # "Running" \/ current[0] # Idle[0]
    PROVE  ready[0] # <<>>
<1>1. state[Idle[0]] = "Ready"
  BY UniprocessorFacts DEF IInv
<1>2. Idle[0] \in Range(ready[0])
  BY <1>1, UniprocessorFacts DEF IInv
<1> QED
  BY <1>2 DEF Range

(* The initial state satisfies the invariant.                              *)
LEMMA InitIInv ==
    ASSUME Uniprocessor, Init
    PROVE  IInv
<1> USE UniprocessorFacts DEF Uniprocessor
<1>1. /\ ready[0] = <<Idle[0]>> /\ current[0] = Boot[0] /\ loaded[0] = Boot[0]
      /\ leaving[0] = FALSE
  BY DEF Init
<1>2. IsInjective(<<Idle[0]>>) /\ Range(<<Idle[0]>>) = {Idle[0]}
  BY DEF IsInjective, Range
<1>3. TypeOK
  BY SchedulerAssumption DEF Init, TypeOK, ThreadState
<1>4. \A t \in Thread : state[t] = "Ready" <=> t = Idle[0]
  BY DEF Init
<1>5. \A t \in Thread : state[t] = "Running" <=> t = Boot[0]
  BY DEF Init
<1>6. \A t \in Thread : t # Boot[0] /\ state[t] # "Unborn" => saved[t]
  BY DEF Init
<1> QED
  BY <1>1, <1>2, <1>3, <1>4, <1>5, <1>6 DEF IInv

(* schedule_next preserves the invariant, entered by a thread that is      *)
(* loaded and with any charge of its quantum.                              *)
LEMMA ScheduleNextIInv ==
    ASSUME Uniprocessor, IInv, loaded[0] = current[0],
           NEW ticks \in [Thread -> 0..Quantum], schedule_next(0, ticks)
    PROVE  IInv'
<1> USE UniprocessorFacts DEF Uniprocessor
<1> DEFINE prev == current[0]
           q == ready[0]
<1>1. prev \in Thread /\ q \in Seq(Thread)
  BY DEF IInv, TypeOK
<1>2. CASE KeepRunning(0, ticks)
  <2>1. ~leaving[0]
    BY <1>2, QueueNotEmpty DEF KeepRunning, IInv
  <2>2. UNCHANGED <<state, ready, current, loaded, saved>> /\ leaving'[0] = FALSE
    BY <1>2 DEF KeepRunning, IInv, TypeOK
  <2>3. TypeOK'
    BY <1>1, <1>2 DEF KeepRunning, IInv, TypeOK
  <2> QED
    BY <2>1, <2>2, <2>3 DEF IInv
<1>3. CASE PopAndRequeue(0, ticks)
  <2> DEFINE requeue == state[prev] = "Running"
  <2>1. PICK i \in DOMAIN q :
          /\ ready' = [ready EXCEPT ![0] = IF requeue THEN Append(Without(q, i), prev)
                                           ELSE Without(q, i)]
          /\ state' = [state EXCEPT ![prev] = IF requeue THEN "Ready" ELSE @,
                                    ![q[i]] = "Running"]
          /\ quantum_ticks' = [ticks EXCEPT ![q[i]] = Quantum]
          /\ current' = [current EXCEPT ![0] = q[i]]
          /\ leaving' = [leaving EXCEPT ![0] = FALSE]
          /\ UNCHANGED <<loaded, saved>>
    BY <1>3 DEF PopAndRequeue
  <2>2. PICK next \in Thread : next = q[i] /\ next \in Range(q)
    BY <1>1 DEF Range
  <2>3. PICK rest \in Seq(Thread) : /\ rest = Without(q, i)
                                    /\ Range(rest) = Range(q) \ {next}
                                    /\ IsInjective(rest)
    <3>1. Without(q, i) = Dropped(q, i)
      BY DEF Without, Dropped
    <3> QED BY <1>1, <2>2, <3>1, DroppedFacts DEF IInv
  <2>5. next # prev /\ state[next] = "Ready" /\ prev \notin Range(rest)
    BY <1>1, <2>2, <2>3 DEF IInv
  <2>6. /\ Append(rest, prev) \in Seq(Thread)
        /\ Range(Append(rest, prev)) = Range(rest) \cup {prev}
        /\ IsInjective(Append(rest, prev))
    BY <1>1, <2>3, <2>5, AppendFacts
  <2>7. /\ ready'[0] = IF requeue THEN Append(rest, prev) ELSE rest
        /\ current'[0] = next /\ leaving'[0] = FALSE
        /\ UNCHANGED <<loaded, saved>>
    BY <2>1, <2>2, <2>3 DEF IInv, TypeOK
  <2>8. /\ state'[next] = "Running"
        /\ state'[prev] = IF requeue THEN "Ready" ELSE state[prev]
        /\ \A t \in Thread \ {next, prev} : state'[t] = state[t]
    BY <1>1, <2>1, <2>2, <2>5 DEF IInv, TypeOK
  <2>9. TypeOK'
    <3>1. ready' \in [CPU -> Seq(Thread)]
      BY <2>1, <2>3, <2>6 DEF IInv, TypeOK
    <3>2. state' \in [Thread -> ThreadState]
      BY <1>1, <2>1, <2>2 DEF IInv, TypeOK, ThreadState
    <3>3. quantum_ticks' \in [Thread -> 0..Quantum]
      BY <2>1, <2>2
    <3>4. /\ current' \in [CPU -> Thread] /\ loaded' \in [CPU -> Thread]
          /\ leaving' \in [CPU -> BOOLEAN] /\ saved' \in [Thread -> BOOLEAN]
      BY <2>1, <2>2 DEF IInv, TypeOK
    <3> QED BY <3>1, <3>2, <3>3, <3>4 DEF TypeOK
  <2>10. IsInjective(ready'[0])
    BY <2>3, <2>6, <2>7
  <2>11. \A t \in Thread : state'[t] = "Ready" <=> t \in Range(ready'[0])
    <3>1. CASE requeue
      <4>1. /\ Range(ready'[0]) = (Range(q) \ {next}) \cup {prev}
            /\ state'[prev] = "Ready"
        BY <2>3, <2>6, <2>7, <2>8, <3>1
      <4>2. \A t \in Thread \ {next, prev} :
              state'[t] = "Ready" <=> t \in Range(q)
        BY <1>1, <2>8 DEF IInv
      <4> QED BY <2>5, <2>8, <4>1, <4>2
    <3>2. CASE ~requeue
      BY <1>1, <2>3, <2>5, <2>7, <2>8, <3>2, SMTT(30) DEF IInv
    <3> QED BY <3>1, <3>2
  <2>12. \A t \in Thread : state'[t] = "Running" => t = current'[0]
    BY <1>1, <2>5, <2>7, <2>8 DEF IInv
  <2>13. state'[Idle[0]] \in {"Ready", "Running"}
    BY <2>7, <2>8 DEF IInv
  <2>14. \A t \in Thread :
            t # loaded'[0] /\ state'[t] \notin {"Unborn", "Terminated"} => saved'[t]
    BY <1>1, <2>5, <2>7, <2>8 DEF IInv
  <2> QED
    BY <2>7, <2>8, <2>9, <2>10, <2>11, <2>12, <2>13, <2>14 DEF IInv
<1> QED
  BY <1>2, <1>3 DEF schedule_next

(* Putting a thread that is in no queue into the queue of CPU 0.           *)
LEMMA EnqueueFacts ==
    ASSUME Uniprocessor, IInv, NEW t \in Thread, state[t] # "Ready",
           \E d \in CPU : pick_target_cpu(d) /\ enqueue_on(d, t)
    PROVE  /\ ready' \in [CPU -> Seq(Thread)]
           /\ IsInjective(ready'[0])
           /\ Range(ready'[0]) = Range(ready[0]) \cup {t}
<1> USE DEF Uniprocessor
<1>1. ready' = [ready EXCEPT ![0] = Append(ready[0], t)]
  BY DEF enqueue_on
<1>2. ready[0] \in Seq(Thread) /\ IsInjective(ready[0]) /\ t \notin Range(ready[0])
  BY DEF IInv, TypeOK
<1>3. /\ Append(ready[0], t) \in Seq(Thread)
      /\ Range(Append(ready[0], t)) = Range(ready[0]) \cup {t}
      /\ IsInjective(Append(ready[0], t))
  BY <1>2, AppendFacts
<1>4. ready'[0] = Append(ready[0], t)
  BY <1>1 DEF IInv, TypeOK
<1> QED
  BY <1>1, <1>3, <1>4 DEF IInv, TypeOK

(* Waking a thread preserves the invariant, when no thread is half out:    *)
(* this is what interrupts masked on the only CPU guarantee.               *)
LEMMA ReadyLockedIInv ==
    ASSUME Uniprocessor, IInv, NEW t \in Thread, ~leaving[0], ready_locked(t)
    PROVE  IInv'
<1>1. CASE state[t] # "Blocked"
  BY <1>1 DEF ready_locked, schedVars, IInv, TypeOK
<1>2. CASE state[t] = "Blocked"
  <2>1. /\ state' = [state EXCEPT ![t] = "Ready"]
        /\ \E d \in CPU : pick_target_cpu(d) /\ enqueue_on(d, t)
        /\ UNCHANGED <<current, loaded, leaving, quantum_ticks, saved>>
    BY <1>2 DEF ready_locked
  <2>2. /\ ready' \in [CPU -> Seq(Thread)]
        /\ IsInjective(ready'[0])
        /\ Range(ready'[0]) = Range(ready[0]) \cup {t}
    BY <1>2, <2>1, EnqueueFacts
  <2>3. TypeOK'
    BY <2>1, <2>2 DEF IInv, TypeOK, ThreadState
  <2>4. state'[t] = "Ready" /\ \A u \in Thread \ {t} : state'[u] = state[u]
    BY <2>1 DEF IInv, TypeOK
  <2>5. \A u \in Thread : state'[u] = "Ready" <=> u \in Range(ready'[0])
    BY <2>2, <2>4 DEF IInv
  <2>6. t # current[0] /\ current[0] \in Thread
    BY <1>2, UniprocessorFacts DEF IInv, TypeOK, Uniprocessor
  <2> QED
    BY <1>2, <2>1, <2>2, <2>3, <2>4, <2>5, <2>6, UniprocessorFacts DEF IInv
<1> QED
  BY <1>1, <1>2

(* Every step preserves the invariant.                                     *)
LEMMA NextIInv ==
    ASSUME Uniprocessor, IInv, [Next]_schedVars
    PROVE  IInv'
<1> USE UniprocessorFacts DEF Uniprocessor
<1>1. CASE Reschedule(0)
  BY <1>1, ScheduleNextIInv DEF Reschedule, IInv, TypeOK
<1>2. CASE HAL_CPU_SwitchContext(0)
  BY <1>2 DEF HAL_CPU_SwitchContext, IInv, TypeOK
<1>3. CASE tick(0)
  <2> DEFINE cur == current[0]
             left == IF quantum_ticks[cur] > 0 THEN quantum_ticks[cur] - 1 ELSE 0
             ticks == [quantum_ticks EXCEPT ![cur] = left]
  <2>1. cur \in Thread /\ quantum_ticks \in [Thread -> 0..Quantum]
    BY DEF IInv, TypeOK
  <2>2. left \in 0..Quantum
    BY <2>1
  <2>3. ticks \in [Thread -> 0..Quantum]
    BY <2>1, <2>2
  <2>4. /\ loaded[0] = current[0]
        /\ \/ schedule_next(0, ticks)
           \/ /\ quantum_ticks' = ticks
              /\ UNCHANGED <<state, ready, current, loaded, leaving, saved>>
    BY <1>3 DEF tick, Executing
  <2> HIDE DEF ticks
  <2>5. CASE schedule_next(0, ticks)
    BY <2>3, <2>4, <2>5, ScheduleNextIInv
  <2>6. CASE /\ quantum_ticks' = ticks
             /\ UNCHANGED <<state, ready, current, loaded, leaving, saved>>
    BY <2>3, <2>6 DEF IInv, TypeOK
  <2> QED BY <2>4, <2>5, <2>6
<1>4. CASE KE_SCHED_Yield(0)
  BY <1>4, ScheduleNextIInv DEF KE_SCHED_Yield, Executing, IInv, TypeOK
<1>5. CASE block_current_locked(0)
  BY <1>5 DEF block_current_locked, Executing, IInv, TypeOK, ThreadState
<1>6. CASE KE_SCHED_Terminate(0)
  BY <1>6 DEF KE_SCHED_Terminate, Worker, Executing, IInv, TypeOK, ThreadState
<1>7. CASE \E t \in Thread : KE_SCHED_CreateThread(0, t)
  <2>1. PICK t \in Thread : KE_SCHED_CreateThread(0, t)
    BY <1>7
  <2>2. /\ ready' \in [CPU -> Seq(Thread)]
        /\ IsInjective(ready'[0])
        /\ Range(ready'[0]) = Range(ready[0]) \cup {t}
    BY <2>1, EnqueueFacts DEF KE_SCHED_CreateThread
  <2> QED
    BY <2>1, <2>2 DEF KE_SCHED_CreateThread, Executing, IInv, TypeOK, ThreadState
<1>8. CASE \E t \in Thread : KE_SCHED_Unblock(0, t)
  BY <1>8, ReadyLockedIInv DEF KE_SCHED_Unblock, Executing
<1>9. CASE UNCHANGED schedVars
  BY <1>9 DEF schedVars, IInv, TypeOK
<1> QED
  BY <1>1, <1>2, <1>3, <1>4, <1>5, <1>6, <1>7, <1>8, <1>9 DEF Next

(* What the invariant implies, property by property.                       *)
LEMMA IInvImplies ==
    ASSUME Uniprocessor, IInv
    PROVE  TypeOK /\ Placement /\ LoadsSavedContext /\ NeverReturnsToLeaver
<1> USE UniprocessorFacts DEF Uniprocessor
<1>1. Placement
  BY DEF IInv, TypeOK, Placement, Queued
<1>2. LoadsSavedContext
  BY DEF IInv, TypeOK, LoadsSavedContext
<1>3. NeverReturnsToLeaver
  BY QueueNotEmpty DEF NeverReturnsToLeaver, IInv
<1> QED
  BY <1>1, <1>2, <1>3 DEF IInv

(* On one CPU every thread is always exactly where its state says (in one  *)
(* queue once, running on the CPU, or in no queue).                        *)
THEOREM UniprocessorPlacement == Uniprocessor => (Spec => [](TypeOK /\ Placement))
<1> SUFFICES ASSUME Uniprocessor PROVE Spec => [](TypeOK /\ Placement)
  OBVIOUS
<1>1. Init => IInv
  BY InitIInv
<1>2. IInv /\ [Next]_schedVars => IInv'
  BY NextIInv
<1>3. IInv => TypeOK /\ Placement
  BY IInvImplies
<1> QED
  BY <1>1, <1>2, <1>3, PTL DEF Spec

(* On one CPU schedule_next never loads a context that was not saved, and  *)
(* always finds another thread when the current one blocks or terminates.  *)
THEOREM UniprocessorSwitch ==
    Uniprocessor => (Spec => [](LoadsSavedContext /\ NeverReturnsToLeaver))
<1> SUFFICES ASSUME Uniprocessor
             PROVE  Spec => [](LoadsSavedContext /\ NeverReturnsToLeaver)
  OBVIOUS
<1>1. Init => IInv
  BY InitIInv
<1>2. IInv /\ [Next]_schedVars => IInv'
  BY NextIInv
<1>3. IInv => LoadsSavedContext /\ NeverReturnsToLeaver
  BY IInvImplies
<1> QED
  BY <1>1, <1>2, <1>3, PTL DEF Spec

(* A thread that terminated stays terminated: ready_locked and             *)
(* schedule_next never revive it.                                          *)
THEOREM UniprocessorTerminated == Uniprocessor => (Spec => TerminatedForever)
<1> SUFFICES ASSUME Uniprocessor PROVE Spec => TerminatedForever
  OBVIOUS
<1> DEFINE Stays == \A t \in Thread : state[t] = "Terminated" => state'[t] = "Terminated"
<1>1. Init => IInv
  BY InitIInv
<1>2. IInv /\ [Next]_schedVars => IInv'
  BY NextIInv
<1>3. ASSUME IInv, NEW ticks, schedule_next(0, ticks)
      PROVE  Stays
  <2>1. CASE KeepRunning(0, ticks)
    BY <2>1 DEF KeepRunning
  <2>2. CASE PopAndRequeue(0, ticks)
    <3>1. PICK i \in DOMAIN ready[0] :
            state' = [state EXCEPT
                ![current[0]] = IF state[current[0]] = "Running" THEN "Ready" ELSE @,
                ![ready[0][i]] = "Running"]
      BY <2>2 DEF PopAndRequeue
    <3>2. ready[0][i] \in Thread /\ state[ready[0][i]] = "Ready"
      BY <1>3 DEF IInv, TypeOK, Range, Uniprocessor
    <3> QED BY <1>3, <3>1, <3>2 DEF IInv, TypeOK
  <2> QED BY <1>3, <2>1, <2>2 DEF schedule_next
<1>4. ASSUME IInv, Next
      PROVE  Stays
  <2>1. CASE Reschedule(0) \/ KE_SCHED_Yield(0)
    BY <1>3, <1>4, <2>1 DEF Reschedule, KE_SCHED_Yield
  <2>2. CASE tick(0)
    BY <1>3, <1>4, <2>2 DEF tick
  <2>3. CASE HAL_CPU_SwitchContext(0)
    BY <2>3 DEF HAL_CPU_SwitchContext
  <2>4. CASE block_current_locked(0) \/ KE_SCHED_Terminate(0)
    BY <1>4, <2>4 DEF block_current_locked, KE_SCHED_Terminate, Executing, IInv, TypeOK
  <2>5. CASE \E t \in Thread : KE_SCHED_CreateThread(0, t)
    BY <1>4, <2>5 DEF KE_SCHED_CreateThread, IInv, TypeOK
  <2>6. CASE \E t \in Thread : KE_SCHED_Unblock(0, t)
    BY <1>4, <2>6 DEF KE_SCHED_Unblock, ready_locked, schedVars, IInv, TypeOK
  <2> QED
    BY <1>4, <2>1, <2>2, <2>3, <2>4, <2>5, <2>6 DEF Next, Uniprocessor
<1>5. IInv /\ [Next]_schedVars => [Stays]_schedVars
  BY <1>4
<1> QED
  BY <1>1, <1>2, <1>5, PTL DEF Spec, TerminatedForever
=============================================================================
