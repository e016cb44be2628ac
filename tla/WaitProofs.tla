----------------------------- MODULE WaitProofs -----------------------------
(***************************************************************************)
(* Proofs about Wait on one CPU: no wake-up is lost, no wait block is left *)
(* dangling on a list, and no signal is stranded beside a waiter, for any  *)
(* threads, headers, priorities and timeouts.  The second half shows that  *)
(* the waits and signals implement the events of EventSpec.                *)
(***************************************************************************)
EXTENDS Wait, SchedulerProofs

WTypes ==
    /\ signalled \in [Header -> BOOLEAN]
    /\ waiters \in [Header -> Seq(Thread)]
    /\ timed \in Seq(Thread)
    /\ block \in [Thread -> WaitBlock]
    /\ pc \in [Thread -> WaitPc]
    /\ op \in [CPU -> Operation]

(* The wait lock is held, and the gap between releasing it and marking the *)
(* thread Blocked is passed, only by the running thread with interrupts    *)
(* masked: nothing else happens meanwhile.                                 *)
Exclusive ==
    /\ op[0].kind # "none" => Executing(0) /\ pc[current[0]] = "out"
    /\ \A t \in Thread : pc[t] = "gap" => Executing(0) /\ t = current[0]

(* A wait that is not over is on the lists that will end it.               *)
Listed ==
    \A t \in Thread :
        pc[t] # "out" /\ ~block[t].satisfied =>
            /\ t \in Range(waiters[block[t].header])
            /\ block[t].remaining # INFINITE /\ ~block[t].timed_out => t \in Range(timed)

(* A thread asleep, or about to sleep, has not been released.              *)
Unreleased ==
    \A t \in Thread :
        pc[t] = "gap" \/ (pc[t] = "parked" /\ state[t] = "Blocked") =>
            ~block[t].satisfied /\ ~block[t].timed_out

WInv == WTypes /\ Exclusive /\ NoDanglingBlock /\ SignalNotStranded /\ Listed /\ Unreleased

WaitIInv == IInv /\ WInv

(* Unlinking takes a thread out of a repetition-free list, and leaves a    *)
(* list without it alone.                                                  *)
LEMMA UnlinkFacts ==
    ASSUME NEW s \in Seq(Thread), NEW t, IsInjective(s)
    PROVE  /\ Unlink(s, t) \in Seq(Thread)
           /\ Range(Unlink(s, t)) = Range(s) \ {t}
           /\ IsInjective(Unlink(s, t))
           /\ s = <<>> => Unlink(s, t) = <<>>
           /\ \A i \in DOMAIN s : s[i] = t => Unlink(s, t) = Without(s, i)
<1>1. CASE \A i \in DOMAIN s : s[i] # t
  <2>1. Unlink(s, t) = s
    BY <1>1 DEF Unlink
  <2> QED BY <1>1, <2>1 DEF Range
<1>2. CASE \E i \in DOMAIN s : s[i] = t
  <2>1. PICK i \in DOMAIN s : s[i] = t
    BY <1>2
  <2>2. \A j \in DOMAIN s : s[j] = t => j = i
    BY <2>1 DEF IsInjective
  <2>3. Unlink(s, t) = Without(s, i)
    <3>1. \A j \in 1..(i - 1) : s[j] # t
      BY <2>1, <2>2
    <3>2. (CHOOSE j \in DOMAIN s : s[j] = t /\ \A k \in 1..(j - 1) : s[k] # t) = i
      BY <2>1, <2>2, <3>1
    <3> QED BY <1>2, <3>2 DEF Unlink
  <2>4. /\ Without(s, i) \in Seq(Thread)
        /\ Range(Without(s, i)) = Range(s) \ {s[i]}
        /\ IsInjective(Without(s, i))
    BY DroppedFacts DEF Without, Dropped
  <2>5. s # <<>>
    BY <2>1
  <2> QED BY <2>1, <2>2, <2>3, <2>4, <2>5
<1> QED BY <1>1, <1>2

(* No thread becomes Blocked other than by block_current_locked.           *)
NoneFallsAsleep == \A t \in Thread : state'[t] = "Blocked" => state[t] = "Blocked"

-----------------------------------------------------------------------------
(* schedule_next puts no thread to sleep.                                  *)
LEMMA ScheduleNextNoSleep ==
    ASSUME Uniprocessor, IInv, NEW ticks, schedule_next(0, ticks)
    PROVE  NoneFallsAsleep
<1>1. CASE KeepRunning(0, ticks)
  BY <1>1 DEF KeepRunning, NoneFallsAsleep
<1>2. CASE PopAndRequeue(0, ticks)
  <2>1. PICK i \in DOMAIN ready[0] :
          state' = [state EXCEPT
              ![current[0]] = IF state[current[0]] = "Running" THEN "Ready" ELSE @,
              ![ready[0][i]] = "Running"]
    BY <1>2 DEF PopAndRequeue
  <2> QED BY <2>1 DEF IInv, TypeOK, NoneFallsAsleep
<1> QED BY <1>1, <1>2 DEF schedule_next

(* Neither does any other operation of the scheduler but blocking.         *)
LEMMA SchedulerNoSleep ==
    ASSUME Uniprocessor, IInv,
           \/ Reschedule(0) \/ HAL_CPU_SwitchContext(0) \/ tick(0)
           \/ KE_SCHED_Yield(0) \/ KE_SCHED_Terminate(0)
           \/ \E t \in Thread : KE_SCHED_CreateThread(0, t) \/ ready_locked(t)
    PROVE  NoneFallsAsleep
<1>1. CASE Reschedule(0)
  BY <1>1, ScheduleNextNoSleep DEF Reschedule
<1>2. CASE HAL_CPU_SwitchContext(0)
  BY <1>2 DEF HAL_CPU_SwitchContext, NoneFallsAsleep
<1>3. CASE tick(0)
  BY <1>3, ScheduleNextNoSleep DEF tick, NoneFallsAsleep
<1>4. CASE KE_SCHED_Yield(0)
  BY <1>4, ScheduleNextNoSleep DEF KE_SCHED_Yield
<1>5. CASE KE_SCHED_Terminate(0)
  BY <1>5 DEF KE_SCHED_Terminate, NoneFallsAsleep, IInv, TypeOK
<1>6. CASE \E t \in Thread : KE_SCHED_CreateThread(0, t)
  BY <1>6 DEF KE_SCHED_CreateThread, NoneFallsAsleep, IInv, TypeOK
<1>7. CASE \E t \in Thread : ready_locked(t)
  BY <1>7 DEF ready_locked, schedVars, NoneFallsAsleep, IInv, TypeOK
<1> QED BY <1>1, <1>2, <1>3, <1>4, <1>5, <1>6, <1>7

(* Every step of Wait is a step of Scheduler, or leaves it alone.          *)
LEMMA WaitStepsAreSchedulerSteps ==
    ASSUME Uniprocessor, WaitIInv, [WaitNext]_vars
    PROVE  [Next]_schedVars
<1> USE DEF Uniprocessor
<1>1. CASE SchedulerStep(0)
  BY <1>1 DEF SchedulerStep, Next
<1>2. CASE WaitPark(0)
  BY <1>2 DEF WaitPark, Next
<1>3. CASE WaitResume(0)
  BY <1>3 DEF WaitResume
<1>4. CASE SignalStep(0)
  <2>1. CASE ReleaseWaiter(0, op[0].header)
    <3>1. ready_locked(Head(waiters[op[0].header])) /\ Executing(0)
      BY <1>4, <2>1 DEF SignalStep, ReleaseWaiter, WaitIInv, WInv, Exclusive
    <3>2. Head(waiters[op[0].header]) \in Thread
      BY <1>4, <2>1, HeadTailProperties
      DEF SignalStep, ReleaseWaiter, WaitIInv, WInv, WTypes, Operation
    <3> QED BY <3>1, <3>2 DEF ready_locked, KE_SCHED_Unblock, Next
  <2>2. CASE SettleSignal(0, op[0].header)
    BY <2>2 DEF SettleSignal
  <2> QED BY <1>4, <2>1, <2>2 DEF SignalStep
<1>5. CASE KE_TIME_UpdateSystemTime(0)
  BY <1>5 DEF KE_TIME_UpdateSystemTime
<1>6. CASE TickStep(0)
  <2>1. CASE ExpireOne(0)
    <3>1. PICK t \in Thread : ready_locked(t) \/ UNCHANGED schedVars
      BY <2>1 DEF ExpireOne, WaitIInv, WInv, WTypes
    <3>2. Executing(0)
      BY <1>6 DEF TickStep, WaitIInv, WInv, Exclusive
    <3> QED BY <3>1, <3>2 DEF ready_locked, KE_SCHED_Unblock, Next
  <2>2. CASE ExpireDone(0)
    BY <2>2 DEF ExpireDone, Next
  <2> QED BY <1>6, <2>1, <2>2 DEF TickStep
<1>7. CASE \E h \in Header : Reset(0, h)
  BY <1>7 DEF Reset
<1>8. CASE \E h \in Header, timeout \in {INFINITE} \cup 0..MaxTimeout : WaitEnter(0, h, timeout)
  BY <1>8 DEF WaitEnter
<1>9. CASE \E h \in Header, wakeAll \in BOOLEAN : KE_EVENT_Signal(0, h, wakeAll)
  BY <1>9 DEF KE_EVENT_Signal
<1>10. CASE \E t \in Thread : SpuriousUnblock(0, t)
  BY <1>10 DEF SpuriousUnblock, Next
<1>11. CASE UNCHANGED vars
  BY <1>11 DEF vars
<1> QED
  BY <1>1, <1>2, <1>3, <1>4, <1>5, <1>6, <1>7, <1>8, <1>9, <1>10, <1>11 DEF WaitNext

-----------------------------------------------------------------------------
(* A block that does not exist yet or any more is well typed.              *)
LEMMA NoBlockType == NoBlock \in WaitBlock
  BY WaitAssumption DEF NoBlock, FreshBlock, WaitBlock, INFINITE

(* Steps of the scheduler that touch no wait state preserve the wait       *)
(* invariant when no thread is in the gap and the lock is free.            *)
LEMMA SchedulerFrame ==
    ASSUME Uniprocessor, WInv, UNCHANGED <<signalled, waiters, timed, block, pc>>,
           NoneFallsAsleep, op'[0] = NoOp, op' \in [CPU -> Operation],
           \A t \in Thread : pc[t] # "gap"
    PROVE  WInv'
<1>1. WTypes'
  BY DEF WInv, WTypes
<1>2. Exclusive'
  BY DEF Exclusive, NoOp
<1>3. NoDanglingBlock' /\ SignalNotStranded'
  BY DEF WInv, NoDanglingBlock, SignalNotStranded
<1>4. Listed'
  BY DEF WInv, Listed
<1>5. Unreleased'
  BY DEF WInv, Unreleased, NoneFallsAsleep
<1> QED BY <1>1, <1>2, <1>3, <1>4, <1>5 DEF WInv

(* While another step than those of the wait code is possible, no thread   *)
(* is in the gap, and the lock is free.                                    *)
LEMMA QuietCPU ==
    ASSUME Uniprocessor, WaitIInv, CanRun(0) \/ ~Executing(0)
    PROVE  /\ \A t \in Thread : pc[t] # "gap"
           /\ op[0] = NoOp /\ op \in [CPU -> Operation]
<1>1. \A t \in Thread : pc[t] # "gap"
  BY DEF WaitIInv, WInv, Exclusive, CanRun
<1>2. op[0].kind = "none" /\ op \in [CPU -> Operation]
  BY DEF WaitIInv, WInv, Exclusive, CanRun, WTypes
<1>3. op[0] = NoOp
  BY <1>2, SchedulerAssumption DEF Operation, NoOp
<1> QED BY <1>1, <1>2, <1>3

(* The scheduler's own operations and spurious wake-ups.                   *)
LEMMA SchedulerStepWInv ==
    ASSUME Uniprocessor, WaitIInv,
           SchedulerStep(0) \/ \E t \in Thread : SpuriousUnblock(0, t)
    PROVE  WInv'
<1>1. UNCHANGED <<signalled, waiters, timed, block, pc, op>>
  BY DEF SchedulerStep, SpuriousUnblock, waitVars
<1>2. NoneFallsAsleep
  BY SchedulerNoSleep DEF WaitIInv, SchedulerStep, SpuriousUnblock, KE_SCHED_Unblock
<1>3. CanRun(0) \/ ~Executing(0)
  BY DEF SchedulerStep, SpuriousUnblock, Reschedule, HAL_CPU_SwitchContext, Executing
<1> QED BY <1>1, <1>2, <1>3, QuietCPU, SchedulerFrame DEF WaitIInv

(* Entering a wait: the block of a thread that was on no list is put on    *)
(* the header's list and, with a deadline, on the timed list.              *)
LEMMA WaitEnterWInv ==
    ASSUME Uniprocessor, WaitIInv, NEW h \in Header,
           NEW timeout \in {INFINITE} \cup 0..MaxTimeout, WaitEnter(0, h, timeout)
    PROVE  WInv'
<1> DEFINE self == current[0]
<1>1. /\ CanRun(0) /\ UNCHANGED <<schedVars, op>>
      /\ self \in Thread /\ pc[self] = "out"
  BY DEF WaitEnter, CanRun, WaitIInv, IInv, TypeOK, Uniprocessor
<1>2. UNCHANGED <<state, current, loaded, leaving, op>> /\ (Executing(0)' <=> Executing(0))
  BY <1>1 DEF schedVars, Executing
<1>3. /\ \A t \in Thread : pc[t] # "gap"
      /\ op[0] = NoOp /\ op \in [CPU -> Operation]
  BY <1>1, QuietCPU
<1>4. CASE TryAcquire(h)
  <2>1. signalled' \in [Header -> BOOLEAN]
    BY <1>4, WaitAssumption DEF TryAcquire, WaitIInv, WInv, WTypes
  <2>2. SignalNotStranded'
    BY <1>4 DEF TryAcquire, WaitIInv, WInv, WTypes, SignalNotStranded
  <2> QED
    BY <1>2, <1>3, <1>4, <2>1, <2>2
    DEF TryAcquire, WaitIInv, WInv, WTypes, Exclusive, NoDanglingBlock, Listed, Unreleased
<1>5. CASE PollFails(h, timeout)
  BY <1>2, <1>3, <1>5
  DEF PollFails, WaitIInv, WInv, WTypes, Exclusive, NoDanglingBlock, SignalNotStranded,
      Listed, Unreleased
<1>6. CASE AddWaiter(self, h, timeout)
  <2>1. /\ waiters[h] \in Seq(Thread) /\ IsInjective(waiters[h])
        /\ timed \in Seq(Thread) /\ IsInjective(timed)
        /\ self \notin Range(timed)
        /\ \A g \in Header : self \notin Range(waiters[g])
    BY <1>1 DEF WaitIInv, WInv, WTypes, NoDanglingBlock
  <2>2. PICK q \in Seq(Thread) : /\ q = Append(waiters[h], self)
                                 /\ Range(q) = Range(waiters[h]) \cup {self}
                                 /\ IsInjective(q)
    BY <1>1, <2>1, AppendFacts
  <2>3. PICK l \in Seq(Thread) : /\ l = <<self>> \o timed
                                 /\ Range(l) = Range(timed) \cup {self}
                                 /\ IsInjective(l)
    BY <1>1, <2>1, PrependFacts
  <2>4. PICK b \in WaitBlock : /\ b = FreshBlock(h, timeout) /\ b.header = h
                               /\ ~b.satisfied /\ ~b.timed_out /\ b.remaining = timeout
    <3>1. FreshBlock(h, timeout) \in WaitBlock
      BY DEF FreshBlock, WaitBlock
    <3>2. /\ FreshBlock(h, timeout).header = h
          /\ FreshBlock(h, timeout).remaining = timeout
          /\ FreshBlock(h, timeout).satisfied = FALSE
          /\ FreshBlock(h, timeout).timed_out = FALSE
      BY DEF FreshBlock
    <3> QED BY <3>1, <3>2
  <2>5. /\ block'[self] = b /\ pc'[self] = "gap" /\ waiters'[h] = q
        /\ \A t \in Thread \ {self} : block'[t] = block[t] /\ pc'[t] = pc[t]
        /\ \A g \in Header \ {h} : waiters'[g] = waiters[g]
        /\ timed' = IF timeout > 0 THEN l ELSE timed
        /\ UNCHANGED signalled /\ ~signalled[h]
    BY <1>1, <1>6, <2>2, <2>3, <2>4 DEF AddWaiter, WaitIInv, WInv, WTypes
  <2>6. timeout = INFINITE \/ timeout > 0
    BY <1>6 DEF AddWaiter
  <2>7. INFINITE = -1
    BY DEF INFINITE
  <2>8. WTypes'
    BY <1>1, <1>2, <1>6, <2>2, <2>3, <2>4 DEF AddWaiter, WaitIInv, WInv, WTypes, WaitPc
  <2>9. Exclusive'
    BY <1>1, <1>2, <1>3, <2>5 DEF CanRun, Exclusive, NoOp
  <2>10. NoDanglingBlock'
    <3>1. /\ IsInjective(timed')
          /\ Range(timed') \subseteq Range(timed) \cup {self}
          /\ self \in Range(timed') => timeout > 0
      BY <2>1, <2>3, <2>5
    <3>2. \A t \in Range(timed') : pc'[t] # "out" /\ block'[t].remaining # INFINITE
      <4> SUFFICES ASSUME NEW t \in Range(timed')
                   PROVE  pc'[t] # "out" /\ block'[t].remaining # INFINITE
        OBVIOUS
      <4>1. CASE t = self
        BY <2>4, <2>5, <2>7, <3>1, <4>1
      <4>2. CASE t # self
        <5>1. t \in Range(timed) /\ t \in Thread
          BY <2>1, <3>1, <4>2, RangeFacts
        <5> QED BY <2>5, <4>2, <5>1 DEF WaitIInv, WInv, NoDanglingBlock
      <4> QED BY <4>1, <4>2
    <3>3. ASSUME NEW g \in Header, NEW t \in Range(waiters'[g])
          PROVE  pc'[t] # "out" /\ block'[t].header = g /\ ~block'[t].satisfied
      <4>1. CASE t = self
        <5>1. g = h
          BY <2>1, <2>5, <3>3, <4>1
        <5> QED BY <2>4, <2>5, <4>1, <5>1
      <4>2. CASE t # self
        <5>1. t \in Range(waiters[g])
          BY <2>2, <2>5, <3>3, <4>2
        <5>2. t \in Thread
          BY <5>1 DEF WaitIInv, WInv, WTypes, Range
        <5> QED BY <2>5, <4>2, <5>1, <5>2 DEF WaitIInv, WInv, NoDanglingBlock
      <4> QED BY <4>1, <4>2
    <3>4. \A g \in Header : IsInjective(waiters'[g])
      BY <2>2, <2>5 DEF WaitIInv, WInv, NoDanglingBlock
    <3> QED BY <3>1, <3>2, <3>3, <3>4 DEF NoDanglingBlock
  <2>11. SignalNotStranded'
    BY <2>5 DEF WaitIInv, WInv, SignalNotStranded
  <2>12. Listed'
    <3> SUFFICES ASSUME NEW t \in Thread, pc'[t] # "out", ~block'[t].satisfied
                 PROVE  /\ t \in Range(waiters'[block'[t].header])
                        /\ block'[t].remaining # INFINITE /\ ~block'[t].timed_out
                              => t \in Range(timed')
      BY DEF Listed
    <3>1. CASE t = self
      BY <2>2, <2>3, <2>4, <2>5, <2>6, <3>1
    <3>2. CASE t # self
      <4>1. block'[t] = block[t] /\ pc'[t] = pc[t] /\ block[t].header \in Header
        BY <2>5, <3>2 DEF WaitIInv, WInv, WTypes, WaitBlock
      <4>2. /\ t \in Range(waiters[block[t].header])
            /\ block[t].remaining # INFINITE /\ ~block[t].timed_out => t \in Range(timed)
        BY <4>1 DEF WaitIInv, WInv, Listed
      <4> QED BY <2>2, <2>3, <2>5, <4>1, <4>2, ZenonT(60)
    <3> QED BY <3>1, <3>2
  <2>13. Unreleased'
    BY <1>1, <1>2, <1>3, <2>4, <2>5, SMTT(30) DEF WaitIInv, WInv, Unreleased
  <2> QED BY <2>8, <2>9, <2>10, <2>11, <2>12, <2>13 DEF WInv
<1> QED BY <1>4, <1>5, <1>6 DEF WaitEnter

(* Falling asleep: the thread in the gap is marked Blocked.                *)
LEMMA WaitParkWInv ==
    ASSUME Uniprocessor, WaitIInv, WaitPark(0)
    PROVE  WInv'
<1> DEFINE self == current[0]
<1>1. /\ self \in Thread /\ pc[self] = "gap" /\ Executing(0) /\ op[0].kind = "none"
      /\ UNCHANGED <<signalled, waiters, timed, block, op>>
      /\ state' = [state EXCEPT ![self] = "Blocked"]
      /\ pc' = [pc EXCEPT ![self] = "parked"]
  BY DEF WaitPark, block_current_locked, WaitIInv, WInv, Exclusive, IInv, TypeOK, Uniprocessor
<1>2. /\ pc'[self] = "parked" /\ state'[self] = "Blocked"
      /\ \A t \in Thread \ {self} : pc'[t] = pc[t] /\ state'[t] = state[t] /\ pc[t] # "gap"
  BY <1>1 DEF WaitIInv, WInv, WTypes, Exclusive, IInv, TypeOK
<1>3. \A t \in Thread : pc'[t] # "gap" /\ (pc'[t] = "out" <=> pc[t] = "out")
  BY <1>1, <1>2, SMTT(30)
<1>4. WTypes'
  BY <1>1 DEF WaitIInv, WInv, WTypes, WaitPc
<1>5. Exclusive'
  BY <1>1, <1>3 DEF Exclusive
<1>6. NoDanglingBlock'
  <2>1. \A h \in Header : \A t \in Range(waiters[h]) : t \in Thread
    BY DEF WaitIInv, WInv, WTypes, Range
  <2>2. \A t \in Range(timed) : t \in Thread
    BY DEF WaitIInv, WInv, WTypes, Range
  <2> QED BY <1>1, <1>3, <2>1, <2>2 DEF WaitIInv, WInv, NoDanglingBlock
<1>7. SignalNotStranded' /\ Listed'
  BY <1>1, <1>3 DEF WaitIInv, WInv, SignalNotStranded, Listed
<1>8. Unreleased'
  BY <1>1, <1>2 DEF WaitIInv, WInv, Unreleased
<1> QED BY <1>4, <1>5, <1>6, <1>7, <1>8 DEF WInv

(* Steps that change neither lists nor blocks nor program counters, with   *)
(* the lock taken or released by the running thread.                       *)
LEMMA SignalledWInv ==
    ASSUME Uniprocessor, WaitIInv, Executing(0), pc[current[0]] = "out",
           UNCHANGED <<schedVars, waiters, timed, block, pc>>,
           op' \in [CPU -> Operation], signalled' \in [Header -> BOOLEAN],
           \A h \in Header : signalled'[h] => signalled[h] \/ waiters[h] = <<>>
    PROVE  WInv'
<1>1. UNCHANGED <<state, current, loaded, leaving>> /\ (Executing(0)' <=> Executing(0))
  BY DEF schedVars, Executing
<1>2. WTypes'
  BY DEF WaitIInv, WInv, WTypes
<1>3. Exclusive'
  BY <1>1 DEF WaitIInv, WInv, Exclusive
<1>4. NoDanglingBlock' /\ SignalNotStranded'
  BY DEF WaitIInv, WInv, NoDanglingBlock, SignalNotStranded
<1>5. Listed' /\ Unreleased'
  BY <1>1 DEF WaitIInv, WInv, Listed, Unreleased
<1> QED BY <1>2, <1>3, <1>4, <1>5 DEF WInv

(* Taking the lock to signal, and Reset.                                   *)
LEMMA SignalOrResetWInv ==
    ASSUME Uniprocessor, WaitIInv, NEW h \in Header,
           Reset(0, h) \/ \E wakeAll \in BOOLEAN : KE_EVENT_Signal(0, h, wakeAll)
    PROVE  WInv'
<1>1. CanRun(0) /\ UNCHANGED <<schedVars, waiters, timed, block, pc>>
  BY DEF Reset, KE_EVENT_Signal
<1>2. op' \in [CPU -> Operation]
  <2>1. CASE Reset(0, h)
    BY <2>1 DEF Reset, WaitIInv, WInv, WTypes
  <2>2. CASE \E wakeAll \in BOOLEAN : KE_EVENT_Signal(0, h, wakeAll)
    <3>1. PICK wakeAll \in BOOLEAN : KE_EVENT_Signal(0, h, wakeAll)
      BY <2>2
    <3>2. PICK all \in BOOLEAN : all = (manualReset[h] \/ wakeAll)
      BY WaitAssumption
    <3>3. [kind |-> "signal", header |-> h, all |-> all] \in Operation
      BY DEF Operation
    <3> QED BY <3>1, <3>2, <3>3 DEF KE_EVENT_Signal, WaitIInv, WInv, WTypes
  <2> QED BY <2>1, <2>2
<1>3. /\ signalled' \in [Header -> BOOLEAN]
      /\ \A g \in Header : signalled'[g] => signalled[g]
  BY DEF Reset, KE_EVENT_Signal, WaitIInv, WInv, WTypes
<1> QED BY <1>1, <1>2, <1>3, SignalledWInv DEF CanRun

(* Waking up: go round the loop again, or leave every list and return.     *)
LEMMA WaitResumeWInv ==
    ASSUME Uniprocessor, WaitIInv, WaitResume(0)
    PROVE  WInv'
<1> DEFINE self == current[0]
<1>1. /\ self \in Thread /\ pc[self] = "parked" /\ Executing(0) /\ op[0].kind = "none"
      /\ UNCHANGED <<signalled, op, state, current, loaded, leaving>>
      /\ (Executing(0)' <=> Executing(0))
  BY DEF WaitResume, schedVars, Executing, LockFree, IInv, TypeOK, WaitIInv, Uniprocessor
<1>2. CASE LoopAgain(self)
  <2>1. /\ pc'[self] = "gap" /\ \A t \in Thread \ {self} : pc'[t] = pc[t]
        /\ pc' \in [Thread -> WaitPc]
        /\ ~block[self].satisfied /\ ~block[self].timed_out
        /\ UNCHANGED <<waiters, timed, block>>
    BY <1>1, <1>2 DEF LoopAgain, WaitIInv, WInv, WTypes, WaitPc
  <2>2. \A t \in Thread : pc'[t] = "out" <=> pc[t] = "out"
    BY <1>1, <2>1
  <2>3. WTypes'
    BY <1>1, <2>1 DEF WaitIInv, WInv, WTypes
  <2>4. Exclusive'
    BY <1>1, <2>1 DEF WaitIInv, WInv, Exclusive
  <2>5. NoDanglingBlock'
    <3>1. \A h \in Header : Range(waiters[h]) \subseteq Thread
      BY RangeFacts DEF WaitIInv, WInv, WTypes
    <3>2. Range(timed) \subseteq Thread
      BY RangeFacts DEF WaitIInv, WInv, WTypes
    <3> QED BY <2>1, <2>2, <3>1, <3>2 DEF WaitIInv, WInv, NoDanglingBlock
  <2>6. SignalNotStranded' /\ Listed'
    BY <1>1, <2>1, <2>2 DEF WaitIInv, WInv, SignalNotStranded, Listed
  <2>7. Unreleased'
    BY <1>1, <2>1 DEF WaitIInv, WInv, Unreleased
  <2> QED BY <2>3, <2>4, <2>5, <2>6, <2>7 DEF WInv
<1>3. CASE LeaveWait(self)
  <2> DEFINE h == block[self].header
  <2>1. /\ h \in Header /\ timed \in Seq(Thread) /\ IsInjective(timed)
        /\ waiters[h] \in Seq(Thread) /\ IsInjective(waiters[h])
    BY <1>1 DEF WaitIInv, WInv, WTypes, WaitBlock, NoDanglingBlock
  <2>2. PICK l \in Seq(Thread) : /\ l = Unlink(timed, self)
                                 /\ Range(l) = Range(timed) \ {self}
                                 /\ IsInjective(l)
    BY <2>1, UnlinkFacts
  <2>3. PICK q \in Seq(Thread) : /\ q = Unlink(waiters[h], self)
                                 /\ Range(q) = Range(waiters[h]) \ {self}
                                 /\ IsInjective(q)
    BY <2>1, UnlinkFacts
  <2>4. /\ timed' \in Seq(Thread) /\ IsInjective(timed') /\ Range(timed') = Range(timed) \ {self}
    <3>1. CASE block[self].remaining # INFINITE
      BY <1>3, <2>2, <3>1 DEF LeaveWait
    <3>2. CASE block[self].remaining = INFINITE
      <4>1. self \notin Range(timed)
        BY <3>2 DEF WaitIInv, WInv, NoDanglingBlock
      <4> QED BY <1>3, <2>1, <3>2, <4>1 DEF LeaveWait
    <3> QED BY <3>1, <3>2
  <2>5. /\ waiters' \in [Header -> Seq(Thread)]
        /\ \A g \in Header : /\ IsInjective(waiters'[g])
                             /\ Range(waiters'[g]) = Range(waiters[g]) \ {self}
                             /\ waiters[g] = <<>> => waiters'[g] = <<>>
    <3>1. \A g \in Header : g # h \/ block[self].satisfied => self \notin Range(waiters[g])
      BY DEF WaitIInv, WInv, NoDanglingBlock
    <3>2. CASE block[self].satisfied
      <4>1. waiters' = waiters
        BY <1>3, <3>2 DEF LeaveWait
      <4> QED BY <3>1, <3>2, <4>1 DEF WaitIInv, WInv, WTypes, NoDanglingBlock
    <3>3. CASE ~block[self].satisfied
      <4>1. /\ waiters' = [waiters EXCEPT ![h] = q]
            /\ waiters \in [Header -> Seq(Thread)]
        BY <1>3, <2>3, <3>3 DEF LeaveWait, WaitIInv, WInv, WTypes
      <4>2. waiters[h] = <<>> => q = <<>>
        BY <2>1, <2>3, UnlinkFacts
      <4>3. \A g \in Header \ {h} : waiters'[g] = waiters[g]
        BY <4>1
      <4>4. waiters'[h] = q
        BY <2>1, <4>1
      <4>5. waiters' \in [Header -> Seq(Thread)]
        BY <2>1, <2>3, <4>1
      <4>6. ASSUME NEW g \in Header
            PROVE  /\ IsInjective(waiters'[g])
                   /\ Range(waiters'[g]) = Range(waiters[g]) \ {self}
                   /\ waiters[g] = <<>> => waiters'[g] = <<>>
        <5>1. CASE g = h
          BY <2>3, <4>2, <4>4, <5>1
        <5>2. CASE g # h
          <6>1. waiters'[g] = waiters[g] /\ self \notin Range(waiters[g])
            BY <3>1, <4>3, <5>2
          <6>2. IsInjective(waiters[g])
            BY DEF WaitIInv, WInv, NoDanglingBlock
          <6> QED BY <6>1, <6>2
        <5> QED BY <5>1, <5>2
      <4> QED BY <4>5, <4>6
    <3> QED BY <3>2, <3>3
  <2>6. /\ pc' \in [Thread -> WaitPc] /\ block' \in [Thread -> WaitBlock]
        /\ pc'[self] = "out"
        /\ \A t \in Thread \ {self} : pc'[t] = pc[t] /\ block'[t] = block[t]
    BY <1>1, <1>3, NoBlockType DEF LeaveWait, WaitIInv, WInv, WTypes, WaitPc
  <2>7. WTypes'
    BY <1>1, <2>4, <2>5, <2>6 DEF WaitIInv, WInv, WTypes
  <2>8. Exclusive'
    BY <1>1, <2>6 DEF WaitIInv, WInv, Exclusive
  <2>9. NoDanglingBlock'
    <3>1. \A g \in Header : Range(waiters'[g]) \subseteq Thread \ {self}
      BY <2>5, RangeFacts DEF WaitIInv, WInv, WTypes
    <3>2. Range(timed') \subseteq Thread \ {self}
      BY <2>1, <2>4, RangeFacts
    <3>3. ASSUME NEW t \in Range(timed')
          PROVE  pc'[t] # "out" /\ block'[t].remaining # INFINITE
      <4>1. t \in Thread \ {self} /\ t \in Range(timed)
        BY <2>4, <3>2
      <4> QED BY <2>6, <4>1 DEF WaitIInv, WInv, NoDanglingBlock
    <3>4. ASSUME NEW g \in Header, NEW t \in Range(waiters'[g])
          PROVE  pc'[t] # "out" /\ block'[t].header = g /\ ~block'[t].satisfied
      <4>1. t \in Thread \ {self} /\ t \in Range(waiters[g])
        BY <2>5, <3>1
      <4> QED BY <2>6, <4>1, SMTT(30) DEF WaitIInv, WInv, NoDanglingBlock
    <3> QED BY <2>4, <2>5, <3>3, <3>4 DEF NoDanglingBlock
  <2>10. SignalNotStranded'
    BY <1>1, <2>5 DEF WaitIInv, WInv, SignalNotStranded
  <2>11. Listed'
    <3> SUFFICES ASSUME NEW t \in Thread, pc'[t] # "out", ~block'[t].satisfied
                 PROVE  /\ t \in Range(waiters'[block'[t].header])
                        /\ block'[t].remaining # INFINITE /\ ~block'[t].timed_out
                              => t \in Range(timed')
      BY DEF Listed
    <3>1. t # self /\ block'[t] = block[t] /\ pc'[t] = pc[t] /\ block[t].header \in Header
      BY <2>6 DEF WaitIInv, WInv, WTypes, WaitBlock
    <3>2. /\ t \in Range(waiters[block[t].header])
          /\ block[t].remaining # INFINITE /\ ~block[t].timed_out => t \in Range(timed)
      BY <3>1 DEF WaitIInv, WInv, Listed
    <3> QED BY <2>4, <2>5, <3>1, <3>2
  <2>12. Unreleased'
    BY <1>1, <2>6 DEF WaitIInv, WInv, Unreleased
  <2> QED BY <2>7, <2>8, <2>9, <2>10, <2>11, <2>12 DEF WInv
<1> QED BY <1>2, <1>3 DEF WaitResume

(* Releasing a waiter, with a signal or on its deadline: what the wake-up  *)
(* itself does.                                                            *)
LEMMA WakeFacts ==
    ASSUME Uniprocessor, WaitIInv, NEW t \in Thread, ready_locked(t)
    PROVE  /\ UNCHANGED <<current, loaded, leaving>>
           /\ state'[t] # "Blocked"
           /\ NoneFallsAsleep
           /\ (Executing(0)' <=> Executing(0))
<1>1. UNCHANGED <<current, loaded, leaving>>
  BY DEF ready_locked, schedVars
<1>2. state'[t] # "Blocked"
  BY DEF ready_locked, schedVars, WaitIInv, IInv, TypeOK
<1>3. NoneFallsAsleep
  BY SchedulerNoSleep DEF WaitIInv
<1> QED BY <1>1, <1>2, <1>3 DEF Executing

(* One iteration of KDispatcherHeader::Signal.                             *)
LEMMA SignalStepWInv ==
    ASSUME Uniprocessor, WaitIInv, SignalStep(0)
    PROVE  WInv'
<1> DEFINE h == op[0].header
<1>1. /\ h \in Header /\ op \in [CPU -> Operation] /\ op[0].all \in BOOLEAN
      /\ Executing(0) /\ pc[current[0]] = "out"
  BY SchedulerAssumption DEF SignalStep, WaitIInv, WInv, WTypes, Operation, Exclusive
<1>2. NoOp \in Operation
  BY DEF NoOp, Operation
<1>3. \A t \in Thread : pc[t] # "gap"
  BY <1>1 DEF WaitIInv, WInv, Exclusive
<1>4. CASE SettleSignal(0, h)
  <2>1. op' \in [CPU -> Operation]
    BY <1>1, <1>2, <1>4 DEF SettleSignal
  <2>2. signalled' \in [Header -> BOOLEAN]
    BY <1>1, <1>4, WaitAssumption DEF SettleSignal, WaitIInv, WInv, WTypes
  <2>3. \A g \in Header : signalled'[g] => signalled[g] \/ waiters[g] = <<>>
    BY <1>1, <1>4 DEF SettleSignal, WaitIInv, WInv, WTypes
  <2> QED BY <1>1, <1>4, <2>1, <2>2, <2>3, SignalledWInv DEF SettleSignal
<1>5. CASE ReleaseWaiter(0, h)
  <2>1. /\ waiters \in [Header -> Seq(Thread)] /\ waiters[h] # <<>>
        /\ IsInjective(waiters[h])
    BY <1>1, <1>5 DEF ReleaseWaiter, WaitIInv, WInv, WTypes, NoDanglingBlock
  <2>2. PICK t \in Thread : t = Head(waiters[h]) /\ t \in Range(waiters[h])
    BY <1>1, <2>1, TailFacts
  <2>3. PICK q \in Seq(Thread) : /\ q = Tail(waiters[h])
                                 /\ Range(q) = Range(waiters[h]) \ {t}
                                 /\ IsInjective(q)
    BY <1>1, <2>1, <2>2, TailFacts
  <2>4. /\ waiters' = [waiters EXCEPT ![h] = q]
        /\ block' = [block EXCEPT ![t].satisfied = TRUE]
        /\ ready_locked(t)
        /\ op' = IF op[0].all THEN op ELSE [op EXCEPT ![0] = NoOp]
        /\ UNCHANGED <<signalled, timed, pc>>
    BY <1>5, <2>2, <2>3 DEF ReleaseWaiter
  <2>5. /\ UNCHANGED <<current, loaded, leaving>> /\ state'[t] # "Blocked"
        /\ NoneFallsAsleep /\ (Executing(0)' <=> Executing(0))
    BY <2>4, WakeFacts
  <2>6. /\ block' \in [Thread -> WaitBlock]
        /\ block'[t].satisfied
        /\ \A u \in Thread : /\ block'[u].header = block[u].header
                             /\ block'[u].remaining = block[u].remaining
                             /\ block'[u].timed_out = block[u].timed_out
                             /\ u # t => block'[u].satisfied = block[u].satisfied
    BY <2>4 DEF WaitIInv, WInv, WTypes, WaitBlock
  <2>7. /\ waiters' \in [Header -> Seq(Thread)] /\ waiters'[h] = q
        /\ \A g \in Header \ {h} : waiters'[g] = waiters[g]
    BY <1>1, <2>1, <2>4
  <2>8. \A g \in Header : /\ t \in Range(waiters[g]) => g = h
                         /\ IsInjective(waiters[g])
    <3>1. \A g \in Header : /\ t \in Range(waiters[g]) => block[t].header = g
                           /\ IsInjective(waiters[g])
      BY DEF WaitIInv, WInv, NoDanglingBlock
    <3>2. block[t].header = h
      BY <1>1, <2>2, <3>1
    <3> QED BY <3>1, <3>2
  <2>9. ASSUME NEW g \in Header
        PROVE  /\ IsInjective(waiters'[g])
               /\ Range(waiters'[g]) = Range(waiters[g]) \ {t}
    <3>1. CASE g = h
      BY <2>3, <2>7, <3>1
    <3>2. CASE g # h
      BY <2>7, <2>8, <3>2
    <3> QED BY <3>1, <3>2
  <2>10. WTypes'
    BY <1>1, <1>2, <2>4, <2>6, <2>7 DEF WaitIInv, WInv, WTypes
  <2>11. Exclusive'
    BY <1>1, <1>3, <2>4, <2>5 DEF Exclusive
  <2>12. NoDanglingBlock'
    <3>1. ASSUME NEW u \in Range(timed')
          PROVE  pc'[u] # "out" /\ block'[u].remaining # INFINITE
      <4>1. u \in Range(timed) /\ u \in Thread
        BY <2>4, RangeFacts DEF WaitIInv, WInv, WTypes
      <4> QED BY <2>4, <2>6, <4>1 DEF WaitIInv, WInv, NoDanglingBlock
    <3>2. ASSUME NEW g \in Header, NEW u \in Range(waiters'[g])
          PROVE  pc'[u] # "out" /\ block'[u].header = g /\ ~block'[u].satisfied
      <4>1. u \in Range(waiters[g]) /\ u \in Thread /\ u # t
        BY <2>7, <2>9, RangeFacts
      <4> QED BY <2>4, <2>6, <4>1 DEF WaitIInv, WInv, NoDanglingBlock
    <3>3. IsInjective(timed')
      BY <2>4 DEF WaitIInv, WInv, NoDanglingBlock
    <3> QED BY <2>9, <3>1, <3>2, <3>3 DEF NoDanglingBlock
  <2>13. SignalNotStranded'
    BY <1>1, <2>1, <2>4, <2>7 DEF WaitIInv, WInv, SignalNotStranded
  <2>14. Listed'
    <3> SUFFICES ASSUME NEW u \in Thread, pc'[u] # "out", ~block'[u].satisfied
                 PROVE  /\ u \in Range(waiters'[block'[u].header])
                        /\ block'[u].remaining # INFINITE /\ ~block'[u].timed_out
                              => u \in Range(timed')
      BY DEF Listed
    <3>1. u # t /\ pc[u] # "out" /\ ~block[u].satisfied /\ block[u].header \in Header
      BY <2>4, <2>6 DEF WaitIInv, WInv, WTypes, WaitBlock
    <3>2. /\ u \in Range(waiters[block[u].header])
          /\ block[u].remaining # INFINITE /\ ~block[u].timed_out => u \in Range(timed)
      BY <3>1 DEF WaitIInv, WInv, Listed
    <3> QED BY <2>4, <2>6, <2>9, <3>1, <3>2
  <2>15. Unreleased'
    BY <1>3, <2>4, <2>5, <2>6 DEF WaitIInv, WInv, Unreleased, NoneFallsAsleep
  <2> QED BY <2>10, <2>11, <2>12, <2>13, <2>14, <2>15 DEF WInv
<1> QED BY <1>4, <1>5 DEF SignalStep

(* Advancing the clock brings deadlines nearer and takes the lock.         *)
LEMMA UpdateTimeWInv ==
    ASSUME Uniprocessor, WaitIInv, KE_TIME_UpdateSystemTime(0)
    PROVE  WInv'
<1>1. /\ CanRun(0) /\ UNCHANGED <<signalled, waiters, timed, pc>>
      /\ UNCHANGED <<state, current, loaded, leaving>>
      /\ (Executing(0)' <=> Executing(0))
  BY DEF KE_TIME_UpdateSystemTime, schedVars, Executing
<1>2. \A t \in Thread : pc[t] # "gap"
  BY <1>1, QuietCPU
<1>3. block' = [t \in Thread |->
                  [block[t] EXCEPT !.remaining = IF @ > 0 THEN @ - 1 ELSE @]]
  BY DEF KE_TIME_UpdateSystemTime
<1>4. ASSUME NEW t \in Thread
      PROVE  /\ block'[t] \in WaitBlock
             /\ block'[t].header = block[t].header
             /\ block'[t].satisfied = block[t].satisfied
             /\ block'[t].timed_out = block[t].timed_out
             /\ block'[t].remaining = INFINITE <=> block[t].remaining = INFINITE
  <2>1. block[t] \in WaitBlock
    BY DEF WaitIInv, WInv, WTypes
  <2>2. PICK left \in {INFINITE} \cup 0..MaxTimeout :
          /\ left = IF block[t].remaining > 0 THEN block[t].remaining - 1
                    ELSE block[t].remaining
          /\ left = INFINITE <=> block[t].remaining = INFINITE
    BY <2>1, WaitAssumption DEF WaitBlock, INFINITE
  <2>3. block'[t] = [block[t] EXCEPT !.remaining = left]
    BY <1>3, <2>2
  <2> QED BY <2>1, <2>2, <2>3 DEF WaitBlock
<1>5. block' \in [Thread -> WaitBlock]
  BY <1>3, <1>4
<1>6. WTypes'
  <2>1. [kind |-> "expire"] \in Operation
    BY DEF Operation
  <2> QED BY <1>1, <1>5, <2>1 DEF KE_TIME_UpdateSystemTime, WaitIInv, WInv, WTypes
<1>7. Exclusive'
  BY <1>1, <1>2 DEF CanRun, Exclusive
<1>8. NoDanglingBlock'
  <2>1. Range(timed) \subseteq Thread /\ \A g \in Header : Range(waiters[g]) \subseteq Thread
    BY RangeFacts DEF WaitIInv, WInv, WTypes
  <2> QED BY <1>1, <1>4, <2>1 DEF WaitIInv, WInv, NoDanglingBlock
<1>9. SignalNotStranded'
  BY <1>1 DEF WaitIInv, WInv, SignalNotStranded
<1>10. Listed'
  BY <1>1, <1>4 DEF WaitIInv, WInv, Listed
<1>11. Unreleased'
  BY <1>1, <1>4 DEF WaitIInv, WInv, Unreleased
<1> QED BY <1>6, <1>7, <1>8, <1>9, <1>10, <1>11 DEF WInv

(* One iteration of TimedWaitList::Expire, or its end and the scheduler's  *)
(* part of the timer interrupt.                                            *)
LEMMA TickStepWInv ==
    ASSUME Uniprocessor, WaitIInv, TickStep(0)
    PROVE  WInv'
<1>1. /\ op[0].kind = "expire" /\ op \in [CPU -> Operation]
      /\ Executing(0) /\ pc[current[0]] = "out"
  BY DEF TickStep, WaitIInv, WInv, WTypes, Exclusive
<1>2. \A t \in Thread : pc[t] # "gap"
  BY <1>1 DEF WaitIInv, WInv, Exclusive
<1>3. CASE ExpireDone(0)
  <2>1. tick(0) /\ UNCHANGED <<signalled, waiters, timed, block, pc>>
    BY <1>3 DEF ExpireDone
  <2>2. op'[0] = NoOp /\ op' \in [CPU -> Operation]
    BY <1>1, <1>3, SchedulerAssumption DEF ExpireDone, NoOp, Operation
  <2>3. NoneFallsAsleep
    BY <2>1, SchedulerNoSleep DEF WaitIInv
  <2> QED BY <1>2, <2>1, <2>2, <2>3, SchedulerFrame DEF WaitIInv
<1>4. CASE ExpireOne(0)
  <2>1. PICK i \in DOMAIN timed :
          /\ timed' = Without(timed, i)
          /\ \/ /\ ~block[timed[i]].satisfied
                /\ block' = [block EXCEPT ![timed[i]].timed_out = TRUE]
                /\ ready_locked(timed[i])
             \/ block[timed[i]].satisfied /\ UNCHANGED <<schedVars, block>>
          /\ UNCHANGED <<signalled, waiters, pc, op>>
    BY <1>4 DEF ExpireOne
  <2>2. timed \in Seq(Thread) /\ IsInjective(timed) /\ block \in [Thread -> WaitBlock]
    BY DEF WaitIInv, WInv, WTypes, NoDanglingBlock
  <2>3. PICK t \in Thread : t = timed[i] /\ t \in Range(timed)
    BY <2>2 DEF Range
  <2>4. /\ timed' \in Seq(Thread) /\ IsInjective(timed')
        /\ Range(timed') = Range(timed) \ {t}
    BY <2>1, <2>2, <2>3, DroppedFacts DEF Without, Dropped
  <2>5. /\ UNCHANGED <<current, loaded, leaving>> /\ NoneFallsAsleep
        /\ (Executing(0)' <=> Executing(0))
    <3>1. CASE ready_locked(t)
      BY <3>1, WakeFacts
    <3>2. CASE UNCHANGED schedVars
      BY <3>2 DEF schedVars, Executing, NoneFallsAsleep
    <3> QED BY <2>1, <2>3, <3>1, <3>2
  <2>6. /\ block' \in [Thread -> WaitBlock]
        /\ \A u \in Thread : /\ block'[u].header = block[u].header
                             /\ block'[u].remaining = block[u].remaining
                             /\ block'[u].satisfied = block[u].satisfied
                             /\ u # t => block'[u].timed_out = block[u].timed_out
    <3>1. CASE block' = [block EXCEPT ![t].timed_out = TRUE]
      BY <2>2, <3>1 DEF WaitBlock
    <3>2. CASE UNCHANGED block
      BY <2>2, <3>2
    <3> QED BY <2>1, <2>3, <3>1, <3>2
  <2>7. block[t].satisfied \/ (block'[t].timed_out /\ state'[t] # "Blocked")
    <3>1. CASE block[t].satisfied
      BY <3>1
    <3>2. CASE ~block[t].satisfied
      <4>1. block' = [block EXCEPT ![t].timed_out = TRUE] /\ ready_locked(t)
        BY <2>1, <2>3, <3>2
      <4>2. block'[t].timed_out
        BY <2>2, <4>1 DEF WaitBlock
      <4> QED BY <4>1, <4>2, WakeFacts
    <3> QED BY <3>1, <3>2
  <2>8. WTypes'
    BY <2>1, <2>4, <2>6 DEF WaitIInv, WInv, WTypes
  <2>9. Exclusive'
    BY <1>1, <1>2, <2>1, <2>5 DEF Exclusive
  <2>10. NoDanglingBlock'
    <3>1. Range(timed) \subseteq Thread /\ \A g \in Header : Range(waiters[g]) \subseteq Thread
      BY RangeFacts DEF WaitIInv, WInv, WTypes
    <3> QED BY <2>1, <2>4, <2>6, <3>1 DEF WaitIInv, WInv, NoDanglingBlock
  <2>11. SignalNotStranded'
    BY <2>1 DEF WaitIInv, WInv, SignalNotStranded
  <2>12. Listed'
    BY <2>1, <2>4, <2>6, <2>7 DEF WaitIInv, WInv, Listed
  <2>13. Unreleased'
    <3> SUFFICES ASSUME NEW u \in Thread, pc[u] = "parked", state'[u] = "Blocked"
                 PROVE  ~block'[u].satisfied /\ ~block'[u].timed_out
      BY <1>2, <2>1 DEF Unreleased
    <3>1. ~block[u].satisfied /\ ~block[u].timed_out
      BY <2>5 DEF WaitIInv, WInv, Unreleased, NoneFallsAsleep
    <3> QED BY <2>6, <2>7, <3>1
  <2> QED BY <2>8, <2>9, <2>10, <2>11, <2>12, <2>13 DEF WInv
<1> QED BY <1>3, <1>4 DEF TickStep

-----------------------------------------------------------------------------
(* Every step of Wait preserves the invariant.                             *)
LEMMA WaitNextInv ==
    ASSUME Uniprocessor, WaitIInv, [WaitNext]_vars
    PROVE  WaitIInv'
<1>1. IInv'
  BY WaitStepsAreSchedulerSteps, NextIInv DEF WaitIInv
<1>2. CASE UNCHANGED vars
  <2>1. UNCHANGED <<schedVars, signalled, waiters, timed, block, pc, op>>
    BY <1>2 DEF vars, waitVars
  <2>2. UNCHANGED <<state, current, loaded, leaving>> /\ (Executing(0)' <=> Executing(0))
    BY <2>1 DEF schedVars, Executing
  <2> QED
    BY <1>1, <2>1, <2>2
    DEF WaitIInv, WInv, WTypes, Exclusive, NoDanglingBlock, SignalNotStranded, Listed, Unreleased
<1>3. CASE WaitNext
  <2>1. WInv'
    BY <1>3, SchedulerStepWInv, WaitParkWInv, WaitResumeWInv, SignalStepWInv, UpdateTimeWInv,
       TickStepWInv, SignalOrResetWInv, WaitEnterWInv
    DEF WaitNext, Uniprocessor
  <2> QED BY <1>1, <2>1 DEF WaitIInv
<1> QED BY <1>2, <1>3

(* The initial state satisfies the invariant.                              *)
LEMMA WaitInitInv ==
    ASSUME Uniprocessor, WaitInit
    PROVE  WaitIInv
<1>1. IInv
  BY InitIInv DEF WaitInit
<1>2. NoOp \in Operation
  BY DEF NoOp, Operation
<1>3. Range(<<>>) = {} /\ IsInjective(<<>>) /\ <<>> \in Seq(Thread)
  BY DEF Range, IsInjective
<1>4. WTypes
  BY <1>2, <1>3, NoBlockType DEF WaitInit, WTypes, WaitPc
<1>5. Exclusive
  BY SchedulerAssumption DEF WaitInit, Exclusive, NoOp, Uniprocessor
<1>6. NoDanglingBlock /\ SignalNotStranded
  BY <1>3 DEF WaitInit, NoDanglingBlock, SignalNotStranded
<1>7. Listed /\ Unreleased
  BY DEF WaitInit, Listed, Unreleased
<1> QED BY <1>1, <1>4, <1>5, <1>6, <1>7 DEF WaitIInv, WInv

(* On one CPU, for any headers, timeouts and number of threads: a thread   *)
(* asleep in a wait is always one that a signal or a deadline will still   *)
(* wake, the waiter lists never hold the block of a thread that has        *)
(* returned, and a signalled header has no waiter (wait.cpp under g_lock). *)
THEOREM UniprocessorWaitSafe == Uniprocessor => (WaitSpec => [](WaitTypeOK /\ WaitSafe))
<1> SUFFICES ASSUME Uniprocessor PROVE WaitSpec => [](WaitTypeOK /\ WaitSafe)
  OBVIOUS
<1>1. WaitInit => WaitIInv
  BY WaitInitInv
<1>2. WaitIInv /\ [WaitNext]_vars => WaitIInv'
  BY WaitNextInv
<1>3. WaitIInv => NoLostWakeup
  BY DEF WaitIInv, WInv, Listed, Unreleased, NoLostWakeup
<1>4. WaitIInv => WaitTypeOK /\ NoDanglingBlock /\ SignalNotStranded
  BY DEF WaitIInv, IInv, WInv, WTypes, WaitTypeOK
<1>5. WaitIInv => WaitTypeOK /\ WaitSafe
  BY <1>3, <1>4 DEF WaitSafe
<1> QED
  BY <1>1, <1>2, <1>5, PTL DEF WaitSpec

-----------------------------------------------------------------------------
(* The threads released and not yet returned, once no signal is under way. *)
Satisfied == {t \in Thread : pc[t] # "out" /\ block[t].satisfied}

(* What a signal under way will leave of its header's waiters.             *)
Left ==
    LET q == waiters[op[0].header]
    IN  IF op[0].all \/ q = <<>> THEN <<>> ELSE Tail(q)

(* The mapping without and with a signal under way.                        *)
FreeMapped ==
    op[0].kind # "signal" =>
        EventFlag = signalled /\ EventQueue = waiters /\ GrantedSet = Satisfied

SignalMapped ==
    op[0].kind = "signal" =>
        LET h == op[0].header IN
        /\ EventFlag = [signalled EXCEPT ![h] = IF op[0].all THEN manualReset[h]
                                                ELSE IF waiters[h] = <<>> THEN TRUE ELSE @]
        /\ EventQueue = [waiters EXCEPT ![h] = Left]
        /\ GrantedSet = Satisfied \cup (Range(waiters[h]) \ Range(Left))

(* What the mapping yields in a well-typed state of one CPU.               *)
LEMMA Mapped == Uniprocessor /\ WTypes => FreeMapped /\ SignalMapped
<1> SUFFICES ASSUME Uniprocessor, WTypes PROVE FreeMapped /\ SignalMapped
  OBVIOUS
<1> USE DEF Uniprocessor
<1>1. ASSUME op[0].kind # "signal"
      PROVE  EventFlag = signalled /\ EventQueue = waiters /\ GrantedSet = Satisfied
  <2>1. ASSUME NEW h \in Header
        PROVE  FlagOf(h) = signalled[h] /\ QueueOf(h) = waiters[h]
    BY <1>1 DEF Signalling, SignalsAll, FlagOf, QueueOf
  <2>2. EventFlag = signalled
    BY <2>1 DEF EventFlag, WTypes
  <2>3. EventQueue = waiters
    BY <2>1 DEF EventQueue, WTypes
  <2>4. GrantedSet = Satisfied
    BY <2>1 DEF GrantedSet, Satisfied
  <2> QED BY <2>2, <2>3, <2>4
<1>2. ASSUME op[0].kind = "signal"
      PROVE  LET h == op[0].header IN
             /\ EventFlag = [signalled EXCEPT ![h] = IF op[0].all THEN manualReset[h]
                                                     ELSE IF waiters[h] = <<>> THEN TRUE ELSE @]
             /\ EventQueue = [waiters EXCEPT ![h] = Left]
             /\ GrantedSet = Satisfied \cup (Range(waiters[h]) \ Range(Left))
  <2> DEFINE h == op[0].header
  <2>1. h \in Header
    BY <1>2 DEF WTypes, Operation
  <2>2. ASSUME NEW g \in Header, g # h
        PROVE  FlagOf(g) = signalled[g] /\ QueueOf(g) = waiters[g]
    <3>1. ~Signalling(g) /\ ~SignalsAll(g)
      BY <2>2 DEF Signalling, SignalsAll
    <3> QED BY <3>1 DEF FlagOf, QueueOf
  <2>3. FlagOf(h) = IF op[0].all THEN manualReset[h]
                    ELSE IF waiters[h] = <<>> THEN TRUE ELSE signalled[h]
    BY <1>2 DEF Signalling, SignalsAll, FlagOf
  <2>4. QueueOf(h) = Left
    BY <1>2 DEF Signalling, SignalsAll, QueueOf, Left
  <2>5. EventFlag = [signalled EXCEPT ![h] = IF op[0].all THEN manualReset[h]
                                             ELSE IF waiters[h] = <<>> THEN TRUE ELSE @]
    BY <2>1, <2>2, <2>3 DEF EventFlag, WTypes
  <2>6. EventQueue = [waiters EXCEPT ![h] = Left]
    BY <2>1, <2>2, <2>4 DEF EventQueue, WTypes
  <2>7. Range(waiters[h]) \subseteq Thread
    BY <2>1, RangeFacts DEF WTypes
  <2>8. \A t : (\E g \in Header : t \in Range(waiters[g]) \ Range(QueueOf(g)))
                  <=> t \in Range(waiters[h]) \ Range(Left)
    BY <2>1, <2>2, <2>4
  <2>9. GrantedSet = Satisfied \cup (Range(waiters[h]) \ Range(Left))
    BY <2>7, <2>8 DEF GrantedSet, Satisfied
  <2> QED BY <2>5, <2>6, <2>9
<1> QED BY <1>1, <1>2 DEF FreeMapped, SignalMapped

(* The same in the next state.                                             *)
LEMMA MappedNext == Uniprocessor /\ WTypes' => FreeMapped' /\ SignalMapped'
<1>1. Uniprocessor' <=> Uniprocessor
  BY DEF Uniprocessor
<1> QED BY <1>1, Mapped, PTL

(* The threads in a queue of the event are those in its range.             *)
LEMMA EventRange == \A s : Event!Members(s) = Range(s)
  BY DEF Event!Members, Range

(* A step of Wait that the users of a header do not see.                   *)
Unseen == UNCHANGED <<EventFlag, EventQueue, GrantedSet, ExpiredSet>>

LEMMA UnseenWaitVars ==
    ASSUME UNCHANGED <<signalled, waiters, block, pc, op>>
    PROVE  Unseen
<1>1. UNCHANGED <<EventFlag, EventQueue>>
  BY DEF EventFlag, EventQueue, FlagOf, QueueOf, Signalling, SignalsAll
<1>2. UNCHANGED <<GrantedSet, ExpiredSet>>
  BY DEF GrantedSet, ExpiredSet, QueueOf, Signalling, SignalsAll
<1> QED BY <1>1, <1>2 DEF Unseen

(* With no signal under way only the flags, the waiters and the outcomes   *)
(* of the waits matter.                                                    *)
LEMMA UnseenFree ==
    ASSUME Uniprocessor, WTypes, WTypes', op[0].kind # "signal", op'[0].kind # "signal",
           UNCHANGED <<signalled, waiters>>,
           \A t \in Thread :
              /\ pc'[t] = "out" <=> pc[t] = "out"
              /\ pc[t] # "out" => /\ block'[t].satisfied = block[t].satisfied
                                  /\ block'[t].timed_out = block[t].timed_out
    PROVE  Unseen
<1>1. EventFlag = signalled /\ EventQueue = waiters /\ GrantedSet = Satisfied
  BY Mapped DEF FreeMapped
<1>2. EventFlag' = signalled' /\ EventQueue' = waiters' /\ GrantedSet' = Satisfied'
  BY MappedNext DEF FreeMapped
<1>3. Satisfied' = Satisfied
  BY DEF Satisfied
<1>4. ExpiredSet' = ExpiredSet
  BY DEF ExpiredSet
<1> QED BY <1>1, <1>2, <1>3, <1>4 DEF Unseen

-----------------------------------------------------------------------------
(* KE_SCHED_WaitForHeader takes a signal, polls in vain or joins a queue.  *)
LEMMA WaitEnterImplements ==
    ASSUME Uniprocessor, WaitIInv, WaitIInv', NEW h \in Header,
           NEW timeout \in {INFINITE} \cup 0..MaxTimeout, WaitEnter(0, h, timeout)
    PROVE  Event!EventNext \/ Unseen
<1> DEFINE self == current[0]
<1>1. /\ op[0].kind = "none" /\ op' = op /\ self \in Thread /\ pc[self] = "out"
      /\ WTypes /\ WTypes'
  BY DEF WaitEnter, CanRun, WaitIInv, WInv, IInv, TypeOK, Uniprocessor
<1>2. EventFlag = signalled /\ EventQueue = waiters /\ GrantedSet = Satisfied
  BY <1>1, Mapped DEF FreeMapped
<1>3. EventFlag' = signalled' /\ EventQueue' = waiters' /\ GrantedSet' = Satisfied'
  BY <1>1, MappedNext DEF FreeMapped
<1>4. CASE TryAcquire(h)
  <2>1. Satisfied' = Satisfied /\ ExpiredSet' = ExpiredSet
    BY <1>4 DEF TryAcquire, Satisfied, ExpiredSet
  <2>2. Event!Acquire(h)
    BY <1>2, <1>3, <1>4, <2>1 DEF TryAcquire, Event!Acquire
  <2> QED BY <2>2 DEF Event!EventNext
<1>5. CASE PollFails(h, timeout)
  BY <1>1, <1>5, UnseenWaitVars DEF PollFails
<1>6. CASE AddWaiter(self, h, timeout)
  <2>1. /\ ~signalled[h] /\ UNCHANGED signalled
        /\ waiters' = [waiters EXCEPT ![h] = Append(@, self)]
        /\ pc' = [pc EXCEPT ![self] = "gap"]
        /\ block' = [block EXCEPT ![self] = FreshBlock(h, timeout)]
    BY <1>6 DEF AddWaiter
  <2>2. /\ block'[self].satisfied = FALSE /\ block'[self].timed_out = FALSE
        /\ \A t \in Thread \ {self} : block'[t] = block[t] /\ pc'[t] = pc[t]
    BY <1>1, <2>1 DEF WTypes, FreshBlock
  <2>3. Satisfied' = Satisfied /\ ExpiredSet' = ExpiredSet
    BY <1>1, <2>2 DEF Satisfied, ExpiredSet
  <2>4. self \notin Satisfied /\ \A g \in Header : self \notin Range(waiters[g])
    BY <1>1, SMTT(30) DEF Satisfied, WaitIInv, WInv, NoDanglingBlock
  <2>5. self \notin Event!Waiting
    BY <1>2, <2>4, EventRange DEF Event!Waiting
  <2>6. Event!Join(self, h)
    BY <1>2, <1>3, <2>1, <2>3, <2>5 DEF Event!Join
  <2> QED BY <1>1, <2>6 DEF Event!EventNext
<1> QED BY <1>4, <1>5, <1>6 DEF WaitEnter

(* A wait that goes round its loop is not seen; one that ends returns.     *)
LEMMA WaitResumeImplements ==
    ASSUME Uniprocessor, WaitIInv, WaitIInv', WaitResume(0)
    PROVE  Event!EventNext \/ Unseen
<1> DEFINE self == current[0]
<1>1. /\ op[0].kind = "none" /\ op' = op /\ self \in Thread /\ pc[self] = "parked"
      /\ UNCHANGED signalled /\ WTypes /\ WTypes'
  BY DEF WaitResume, LockFree, WaitIInv, WInv, IInv, TypeOK, Uniprocessor
<1>2. EventFlag = signalled /\ EventQueue = waiters /\ GrantedSet = Satisfied
  BY <1>1, Mapped DEF FreeMapped
<1>3. EventFlag' = signalled' /\ EventQueue' = waiters' /\ GrantedSet' = Satisfied'
  BY <1>1, MappedNext DEF FreeMapped
<1>4. CASE LoopAgain(self)
  <2>1. \A t \in Thread : pc'[t] = "out" <=> pc[t] = "out"
    BY <1>1, <1>4 DEF LoopAgain, WTypes
  <2>2. UNCHANGED <<waiters, block>>
    BY <1>4 DEF LoopAgain
  <2> QED BY <1>1, <2>1, <2>2, UnseenFree
<1>5. CASE LeaveWait(self)
  <2> DEFINE h == block[self].header
  <2>1. /\ block[self].satisfied \/ block[self].timed_out
        /\ waiters' = IF block[self].satisfied THEN waiters
                      ELSE [waiters EXCEPT ![h] = Unlink(@, self)]
        /\ block' = [block EXCEPT ![self] = NoBlock]
        /\ pc' = [pc EXCEPT ![self] = "out"]
    BY <1>5 DEF LeaveWait
  <2>2. /\ pc'[self] = "out"
        /\ \A t \in Thread \ {self} : block'[t] = block[t] /\ pc'[t] = pc[t]
    BY <1>1, <2>1 DEF WTypes
  <2>3. Satisfied' = Satisfied \ {self} /\ ExpiredSet' = ExpiredSet \ {self}
    BY <1>1, <2>2 DEF Satisfied, ExpiredSet
  <2>4. self \in Satisfied <=> block[self].satisfied
    BY <1>1 DEF Satisfied
  <2>5. self \in Satisfied \cup ExpiredSet
    BY <1>1, <2>1, <2>4 DEF ExpiredSet
  <2>6. CASE block[self].satisfied
    BY <1>1, <1>2, <1>3, <2>1, <2>3, <2>4, <2>5, <2>6 DEF Event!Return, Event!EventNext
  <2>7. CASE ~block[self].satisfied
    <3>1. /\ h \in Header /\ waiters[h] \in Seq(Thread) /\ IsInjective(waiters[h])
          /\ self \in Range(waiters[h])
      BY <1>1, <2>7, ZenonT(60) DEF WTypes, WaitBlock, WaitIInv, WInv, NoDanglingBlock, Listed
    <3>2. PICK i \in DOMAIN waiters[h] : waiters[h][i] = self
      BY <3>1 DEF Range
    <3>3. Unlink(waiters[h], self) = Without(waiters[h], i)
      <4>1. PICK q \in Seq(Thread) : q = waiters[h] /\ IsInjective(q) /\ i \in DOMAIN q /\ q[i] = self
        BY <3>1, <3>2
      <4>2. Unlink(q, self) = Without(q, i)
        BY <4>1, UnlinkFacts, ZenonT(60)
      <4> QED BY <4>1, <4>2
    <3>4. waiters' = [waiters EXCEPT ![h] = SubSeq(@, 1, i - 1) \o SubSeq(@, i + 1, Len(@))]
      BY <2>1, <2>7, <3>3 DEF Without
    <3>5. Event!LeaveQueue(self)
      BY <1>2, <1>3, <3>1, <3>2, <3>4 DEF Event!LeaveQueue
    <3>6. Event!Return(self)
      BY <1>1, <1>2, <1>3, <2>3, <2>4, <2>5, <2>7, <3>5 DEF Event!Return
    <3> QED BY <1>1, <3>6 DEF Event!EventNext
  <2> QED BY <2>6, <2>7
<1> QED BY <1>4, <1>5 DEF WaitResume

(* Taking the lock to signal is the signal: the waiters the loop is going  *)
(* to release are granted at once.                                         *)
LEMMA SignalImplements ==
    ASSUME Uniprocessor, WaitIInv, WaitIInv', NEW h \in Header, NEW wakeAll \in BOOLEAN,
           KE_EVENT_Signal(0, h, wakeAll)
    PROVE  Event!EventNext \/ Unseen
<1>1. /\ op[0].kind = "none" /\ UNCHANGED <<signalled, waiters, block, pc>>
      /\ WTypes /\ WTypes'
  BY DEF KE_EVENT_Signal, CanRun, WaitIInv, WInv
<1>2. /\ op'[0].kind = "signal" /\ op'[0].header = h
      /\ op'[0].all <=> manualReset[h] \/ wakeAll
  BY <1>1 DEF KE_EVENT_Signal, WTypes, Uniprocessor
<1>3. EventFlag = signalled /\ EventQueue = waiters /\ GrantedSet = Satisfied
  BY <1>1, Mapped DEF FreeMapped
<1>4. PICK left : left = Left'
  OBVIOUS
<1>5. /\ EventFlag' = [signalled EXCEPT ![h] = IF op'[0].all THEN manualReset[h]
                                               ELSE IF waiters[h] = <<>> THEN TRUE ELSE @]
      /\ EventQueue' = [waiters EXCEPT ![h] = left]
      /\ GrantedSet' = Satisfied' \cup (Range(waiters[h]) \ Range(left))
  BY <1>1, <1>2, <1>4, MappedNext DEF SignalMapped
<1>6. left = IF op'[0].all \/ waiters[h] = <<>> THEN <<>> ELSE Tail(waiters[h])
  BY <1>1, <1>2, <1>4 DEF Left
<1>7. Satisfied' = Satisfied /\ ExpiredSet' = ExpiredSet
  BY <1>1 DEF Satisfied, ExpiredSet
<1>8. Range(<<>>) = {}
  BY DEF Range
<1>9. CASE op'[0].all
  <2>1. Event!SignalAll(h)
    BY <1>3, <1>5, <1>6, <1>7, <1>8, <1>9, EventRange DEF Event!SignalAll
  <2> QED BY <2>1 DEF Event!EventNext
<1>10. CASE ~op'[0].all /\ waiters[h] = <<>>
  <2>1. EventFlag' = [EventFlag EXCEPT ![h] = TRUE]
    BY <1>3, <1>5, <1>10
  <2>2. EventQueue' = EventQueue
    BY <1>1, <1>3, <1>5, <1>6, <1>10 DEF WTypes
  <2>3. GrantedSet' = GrantedSet
    BY <1>3, <1>5, <1>7, <1>8, <1>10
  <2>4. Event!SignalOne(h)
    BY <1>2, <1>3, <1>7, <1>10, <2>1, <2>2, <2>3 DEF Event!SignalOne
  <2> QED BY <2>4 DEF Event!EventNext
<1>11. CASE ~op'[0].all /\ waiters[h] # <<>>
  <2>1. waiters[h] \in Seq(Thread) /\ IsInjective(waiters[h]) /\ left = Tail(waiters[h])
    BY <1>1, <1>6, <1>11 DEF WTypes, WaitIInv, WInv, NoDanglingBlock
  <2>2. Range(waiters[h]) \ Range(left) = {Head(waiters[h])}
    <3>1. PICK q \in Seq(Thread) : q = waiters[h] /\ IsInjective(q) /\ q # <<>>
      BY <1>11, <2>1
    <3>2. Range(q) \ Range(Tail(q)) = {Head(q)}
      <4>1. Range(Tail(q)) = Range(q) \ {Head(q)} /\ Head(q) \in Range(q)
        BY <3>1, TailFacts, ZenonT(60)
      <4> QED BY <4>1
    <3> QED BY <2>1, <3>1, <3>2
  <2>3. EventFlag' = EventFlag
    BY <1>1, <1>3, <1>5, <1>11 DEF WTypes
  <2>4. EventQueue' = [EventQueue EXCEPT ![h] = Tail(@)]
    BY <1>3, <1>5, <2>1
  <2>5. GrantedSet' = GrantedSet \cup {Head(EventQueue[h])}
    BY <1>3, <1>5, <1>7, <2>2
  <2>6. Event!SignalOne(h)
    BY <1>2, <1>3, <1>7, <1>11, <2>3, <2>4, <2>5 DEF Event!SignalOne
  <2> QED BY <2>6 DEF Event!EventNext
<1> QED BY <1>9, <1>10, <1>11

(* The releasing loop only carries out what was granted.                   *)
LEMMA SignalStepUnseen ==
    ASSUME Uniprocessor, WaitIInv, WaitIInv', SignalStep(0)
    PROVE  Unseen
<1> DEFINE h == op[0].header
<1>1. op[0].kind = "signal" /\ h \in Header /\ op[0].all \in BOOLEAN /\ WTypes /\ WTypes'
  BY DEF SignalStep, WaitIInv, WInv, WTypes, Operation, Uniprocessor
<1>2. /\ EventFlag = [signalled EXCEPT ![h] = IF op[0].all THEN manualReset[h]
                                              ELSE IF waiters[h] = <<>> THEN TRUE ELSE @]
      /\ EventQueue = [waiters EXCEPT ![h] = Left]
      /\ GrantedSet = Satisfied \cup (Range(waiters[h]) \ Range(Left))
  BY <1>1, Mapped DEF SignalMapped
<1>3. Range(<<>>) = {}
  BY DEF Range
<1>4. CASE SettleSignal(0, h)
  <2>1. /\ waiters[h] = <<>> /\ UNCHANGED <<waiters, block, pc>>
        /\ signalled' = [signalled EXCEPT ![h] = IF op[0].all THEN manualReset[h] ELSE TRUE]
        /\ op'[0].kind = "none"
    BY <1>1, <1>4 DEF SettleSignal, WTypes, NoOp, Uniprocessor
  <2>2. EventFlag' = signalled' /\ EventQueue' = waiters' /\ GrantedSet' = Satisfied'
    BY <1>1, <2>1, MappedNext DEF FreeMapped
  <2>3. Left = <<>>
    BY <2>1 DEF Left
  <2>4. Satisfied' = Satisfied /\ ExpiredSet' = ExpiredSet
    BY <2>1 DEF Satisfied, ExpiredSet
  <2>5. EventFlag' = EventFlag
    BY <1>1, <1>2, <2>1, <2>2 DEF WTypes
  <2>6. EventQueue' = EventQueue
    BY <1>1, <1>2, <2>1, <2>2, <2>3 DEF WTypes
  <2>7. GrantedSet' = GrantedSet
    BY <1>2, <1>3, <2>1, <2>2, <2>3, <2>4
  <2> QED BY <2>4, <2>5, <2>6, <2>7 DEF Unseen
<1>5. CASE ReleaseWaiter(0, h)
  <2>1. /\ waiters \in [Header -> Seq(Thread)] /\ waiters[h] # <<>> /\ IsInjective(waiters[h])
        /\ waiters[h] \in Seq(Thread)
    BY <1>1, <1>5 DEF ReleaseWaiter, WaitIInv, WInv, WTypes, NoDanglingBlock
  <2>2. PICK t \in Thread : t = Head(waiters[h]) /\ t \in Range(waiters[h])
    BY <2>1, TailFacts
  <2>3. PICK q \in Seq(Thread) : q = Tail(waiters[h]) /\ Range(q) = Range(waiters[h]) \ {t}
    BY <2>1, <2>2, TailFacts
  <2>4. /\ waiters' = [waiters EXCEPT ![h] = q]
        /\ block' = [block EXCEPT ![t].satisfied = TRUE]
        /\ op' = IF op[0].all THEN op ELSE [op EXCEPT ![0] = NoOp]
        /\ UNCHANGED <<signalled, pc>>
    BY <1>5, <2>2, <2>3 DEF ReleaseWaiter
  <2>5. /\ waiters'[h] = q
        /\ \A u \in Thread : /\ u # t => block'[u].satisfied = block[u].satisfied
                             /\ block'[u].timed_out = block[u].timed_out
        /\ block'[t].satisfied
    BY <1>1, <2>1, <2>4, ZenonT(60) DEF WTypes, WaitBlock
  <2>6. pc[t] # "out"
    BY <1>1, <2>2 DEF WaitIInv, WInv, NoDanglingBlock
  <2>7. Satisfied' = Satisfied \cup {t}
    BY <2>4, <2>5, <2>6 DEF Satisfied
  <2>8. ExpiredSet' = ExpiredSet
    BY <2>4, <2>5 DEF ExpiredSet
  <2>9. CASE op[0].all
    <3>1. op' = op
      BY <2>4, <2>9
    <3>2. /\ EventFlag' = [signalled' EXCEPT ![h] = manualReset[h]]
          /\ EventQueue' = [waiters' EXCEPT ![h] = Left']
          /\ GrantedSet' = Satisfied' \cup (Range(waiters'[h]) \ Range(Left'))
      BY <1>1, <2>9, <3>1, MappedNext DEF SignalMapped
    <3>3. Left = <<>> /\ Left' = <<>>
      BY <2>9, <3>1 DEF Left
    <3>4. EventFlag' = EventFlag
      BY <1>2, <2>4, <2>9, <3>2
    <3>5. EventQueue' = EventQueue
      BY <1>2, <2>1, <2>4, <3>2, <3>3
    <3>6. GrantedSet' = GrantedSet
      BY <1>2, <1>3, <2>2, <2>3, <2>5, <2>7, <3>2, <3>3
    <3> QED BY <2>8, <3>4, <3>5, <3>6 DEF Unseen
  <2>10. CASE ~op[0].all
    <3>1. op'[0].kind = "none"
      BY <1>1, <2>4, <2>10 DEF WTypes, NoOp, Uniprocessor
    <3>2. EventFlag' = signalled' /\ EventQueue' = waiters' /\ GrantedSet' = Satisfied'
      BY <1>1, <3>1, MappedNext DEF FreeMapped
    <3>3. Left = q
      BY <2>1, <2>3, <2>10 DEF Left
    <3>4. EventFlag' = EventFlag
      BY <1>1, <1>2, <2>1, <2>4, <2>10, <3>2 DEF WTypes
    <3>5. EventQueue' = EventQueue
      BY <1>2, <2>4, <3>2, <3>3
    <3>6. GrantedSet' = GrantedSet
      BY <1>2, <2>2, <2>3, <2>7, <3>2, <3>3
    <3> QED BY <2>8, <3>4, <3>5, <3>6 DEF Unseen
  <2> QED BY <1>1, <2>9, <2>10
<1> QED BY <1>4, <1>5 DEF SignalStep

(* A deadline that passes expires a waiter that was not released.          *)
LEMMA TickImplements ==
    ASSUME Uniprocessor, WaitIInv, WaitIInv', TickStep(0)
    PROVE  Event!EventNext \/ Unseen
<1>1. op[0].kind = "expire" /\ WTypes /\ WTypes'
  BY DEF TickStep, WaitIInv, WInv
<1>2. CASE ExpireDone(0)
  <2>1. op'[0].kind = "none" /\ UNCHANGED <<signalled, waiters, block, pc>>
    BY <1>1, <1>2 DEF ExpireDone, WTypes, NoOp, Uniprocessor
  <2> QED BY <1>1, <2>1, UnseenFree
<1>3. CASE ExpireOne(0)
  <2>1. PICK i \in DOMAIN timed :
          /\ \/ /\ ~block[timed[i]].satisfied
                /\ block' = [block EXCEPT ![timed[i]].timed_out = TRUE]
             \/ block[timed[i]].satisfied /\ UNCHANGED block
          /\ UNCHANGED <<signalled, waiters, pc, op>>
    BY <1>3 DEF ExpireOne
  <2>2. PICK t \in Thread : t = timed[i] /\ t \in Range(timed)
    BY <1>1, SMTT(30) DEF WTypes, Range
  <2>3. CASE UNCHANGED block
    BY <2>1, <2>3, UnseenWaitVars
  <2>4. CASE ~block[t].satisfied /\ block' = [block EXCEPT ![t].timed_out = TRUE]
    <3>1. EventFlag = signalled /\ EventQueue = waiters /\ GrantedSet = Satisfied
      BY <1>1, Mapped DEF FreeMapped
    <3>2. EventFlag' = signalled' /\ EventQueue' = waiters' /\ GrantedSet' = Satisfied'
      BY <1>1, <2>1, MappedNext DEF FreeMapped
    <3>3. /\ block'[t].timed_out
          /\ \A u \in Thread : /\ block'[u].satisfied = block[u].satisfied
                               /\ u # t => block'[u].timed_out = block[u].timed_out
      BY <1>1, <2>4, ZenonT(60) DEF WTypes, WaitBlock
    <3>4. pc[t] # "out" /\ block[t].header \in Header
      BY <1>1, <2>2 DEF WTypes, WaitBlock, WaitIInv, WInv, NoDanglingBlock
    <3>5. Satisfied' = Satisfied /\ ExpiredSet' = ExpiredSet \cup {t}
      BY <2>1, <3>3, <3>4 DEF Satisfied, ExpiredSet
    <3>6. t \in Range(waiters[block[t].header]) /\ t \notin Satisfied
      BY <2>4, <3>4 DEF Satisfied, WaitIInv, WInv, Listed
    <3>7. t \in Event!Waiting \ GrantedSet
      BY <3>1, <3>4, <3>6, EventRange DEF Event!Waiting
    <3>8. Event!Expire(t)
      BY <2>1, <3>1, <3>2, <3>5, <3>7 DEF Event!Expire
    <3> QED BY <3>8 DEF Event!EventNext
  <2> QED BY <2>1, <2>2, <2>3, <2>4
<1> QED BY <1>2, <1>3 DEF TickStep

(* KDispatcherHeader::Reset, and the steps that no user of a header sees.  *)
LEMMA ResetImplements ==
    ASSUME Uniprocessor, WaitIInv, WaitIInv', NEW h \in Header, Reset(0, h)
    PROVE  Event!EventNext
<1>1. /\ op[0].kind = "none" /\ UNCHANGED <<waiters, block, pc, op>> /\ WTypes /\ WTypes'
      /\ signalled' = [signalled EXCEPT ![h] = FALSE]
  BY DEF Reset, CanRun, WaitIInv, WInv
<1>2. EventFlag = signalled /\ EventQueue = waiters /\ GrantedSet = Satisfied
  BY <1>1, Mapped DEF FreeMapped
<1>3. EventFlag' = signalled' /\ EventQueue' = waiters' /\ GrantedSet' = Satisfied'
  BY <1>1, MappedNext DEF FreeMapped
<1>4. Satisfied' = Satisfied /\ ExpiredSet' = ExpiredSet
  BY <1>1 DEF Satisfied, ExpiredSet
<1>5. Event!ClearFlag(h)
  BY <1>1, <1>2, <1>3, <1>4 DEF Event!ClearFlag
<1> QED BY <1>5 DEF Event!EventNext

LEMMA OtherStepsUnseen ==
    ASSUME Uniprocessor, WaitIInv, WaitIInv',
           \/ SchedulerStep(0) \/ WaitPark(0) \/ KE_TIME_UpdateSystemTime(0)
           \/ \E t \in Thread : SpuriousUnblock(0, t)
    PROVE  Unseen
<1>1. CASE SchedulerStep(0) \/ \E t \in Thread : SpuriousUnblock(0, t)
  BY <1>1, UnseenWaitVars DEF SchedulerStep, SpuriousUnblock, waitVars
<1>2. WTypes /\ WTypes'
  BY DEF WaitIInv, WInv
<1>3. CASE WaitPark(0)
  <2>1. /\ op[0].kind # "signal" /\ op' = op /\ UNCHANGED <<signalled, waiters, block>>
        /\ pc[current[0]] = "gap" /\ pc' = [pc EXCEPT ![current[0]] = "parked"]
    BY <1>3 DEF WaitPark, WaitIInv, WInv, Exclusive
  <2>2. \A t \in Thread : pc'[t] = "out" <=> pc[t] = "out"
    BY <1>2, <2>1 DEF WTypes
  <2> QED BY <1>2, <2>1, <2>2, UnseenFree
<1>4. CASE KE_TIME_UpdateSystemTime(0)
  <2>1. /\ op[0].kind = "none" /\ op'[0].kind = "expire" /\ UNCHANGED <<signalled, waiters, pc>>
        /\ block' = [t \in Thread |->
                        [block[t] EXCEPT !.remaining = IF @ > 0 THEN @ - 1 ELSE @]]
    BY <1>2, <1>4 DEF KE_TIME_UpdateSystemTime, CanRun, WTypes, Uniprocessor
  <2>2. \A t \in Thread : /\ block'[t].satisfied = block[t].satisfied
                          /\ block'[t].timed_out = block[t].timed_out
    BY <1>2, <2>1 DEF WTypes, WaitBlock
  <2> QED BY <1>2, <2>1, <2>2, UnseenFree
<1> QED BY <1>1, <1>3, <1>4

(* Every step of the wait code is one step of the event, or unseen.        *)
LEMMA WaitNextImplements ==
    ASSUME Uniprocessor, WaitIInv, [WaitNext]_vars
    PROVE  [Event!EventNext]_(Event!eventVars)
<1>1. WaitIInv'
  BY WaitNextInv
<1>2. CASE UNCHANGED vars
  BY <1>2, UnseenWaitVars DEF vars, waitVars, Unseen, Event!eventVars
<1>3. CASE WaitNext
  <2>1. Event!EventNext \/ Unseen
    BY <1>1, <1>3, WaitEnterImplements, WaitResumeImplements, SignalImplements,
       SignalStepUnseen, TickImplements, ResetImplements, OtherStepsUnseen
    DEF WaitNext, Uniprocessor
  <2> QED BY <2>1 DEF Unseen, Event!eventVars
<1> QED BY <1>2, <1>3

LEMMA WaitInitImplements ==
    ASSUME Uniprocessor, WaitInit
    PROVE  Event!EventInit
<1>1. WTypes /\ op[0].kind # "signal"
  BY WaitInitInv DEF WaitIInv, WInv, WaitInit, NoOp, Uniprocessor
<1>2. EventFlag = signalled /\ EventQueue = waiters /\ GrantedSet = Satisfied
  BY <1>1, Mapped DEF FreeMapped
<1>3. Satisfied = {} /\ ExpiredSet = {}
  BY DEF WaitInit, Satisfied, ExpiredSet
<1> QED BY <1>2, <1>3 DEF WaitInit, Event!EventInit

(* On one CPU, for any threads, headers and timeouts, the wait and signal  *)
(* code implements the atomic event of EventSpec: KE_EVENT_Signal takes    *)
(* effect when it takes the wait lock, a wait returns only when released   *)
(* or past its deadline, and a release that races a timeout is not lost.   *)
THEOREM UniprocessorImplementsEvent == Uniprocessor => (WaitSpec => ImplementsEvent)
<1> SUFFICES ASSUME Uniprocessor PROVE WaitSpec => ImplementsEvent
  OBVIOUS
<1>1. WaitInit => WaitIInv /\ Event!EventInit
  BY WaitInitInv, WaitInitImplements
<1>2. WaitIInv /\ [WaitNext]_vars => WaitIInv'
  BY WaitNextInv
<1>3. WaitIInv /\ [WaitNext]_vars => [Event!EventNext]_(Event!eventVars)
  BY WaitNextImplements
<1> QED
  BY <1>1, <1>2, <1>3, PTL DEF WaitSpec, ImplementsEvent, Event!EventSpecification
=============================================================================
