-------------------------------- MODULE Wait --------------------------------
(***************************************************************************)
(* Waiting on dispatcher headers (Kernel/Source/src/wait.cpp, wait.hpp and *)
(* KDispatcherHeader.hpp) on top of the scheduler: KE_SCHED_WaitForHeader  *)
(* with and without a timeout, KE_EVENT_Signal, Reset, and the timer tick  *)
(* that expires timed waits.                                               *)
(*                                                                         *)
(* The wait lock g_lock is held by CPU c exactly while op[c] is not "none" *)
(* (a signal or an expiry that wakes its threads one by one); the critical *)
(* sections that wake nobody are single steps taken while the lock is      *)
(* free.  A thread waits with at most one KWaitBlock, which lives on its   *)
(* stack, so the block is identified with its thread.                      *)
(***************************************************************************)
EXTENDS Scheduler

CONSTANTS
    Header,       \* the KDispatcherHeaders
    manualReset,  \* KDispatcherHeader::manualReset
    MaxTimeout    \* bound: the longest finite timeout, in timer ticks

ASSUME WaitAssumption ==
    /\ Header # {}
    /\ manualReset \in [Header -> BOOLEAN]
    /\ MaxTimeout \in Nat

VARIABLES
    signalled,  \* signalled[h]: KDispatcherHeader::signalled
    waiters,    \* waiters[h]: the header's waiter list, oldest first
    timed,      \* TimedWaitList g_timed, head first
    block,      \* block[t]: the wait block of t
    pc,         \* pc[t]: where t is in KE_SCHED_WaitForHeader
    op          \* op[c]: what c does while it holds g_lock

waitVars == <<signalled, waiters, timed, block, pc, op>>
vars     == <<schedVars, waitVars>>

INFINITE == -1
NoOp     == [kind |-> "none"]

(* "out": not waiting; "gap": g_lock released, not yet marked Blocked;     *)
(* "parked": inside block_current_locked.                                  *)
WaitPc == {"out", "gap", "parked"}

(* remaining is deadline - now, which is what Expire compares; INFINITE    *)
(* for a block that is never put on the timed list.                        *)
WaitBlock == [header : Header, satisfied : BOOLEAN, timed_out : BOOLEAN,
              remaining : {INFINITE} \cup 0..MaxTimeout]

Operation == [kind : {"none", "expire"}]
                \cup [kind : {"signal"}, header : Header, all : BOOLEAN]

FreshBlock(h, timeout) ==
    [header |-> h, satisfied |-> FALSE, timed_out |-> FALSE, remaining |-> timeout]

(* The block of a thread that is not waiting: there is none.               *)
NoBlock == FreshBlock(CHOOSE h \in Header : TRUE, INFINITE)

LockFree == \A c \in CPU : op[c].kind = "none"

(* CPU c runs its thread with interrupts enabled, outside every critical   *)
(* section of this module.                                                 *)
CanRun(c) == Executing(c) /\ op[c].kind = "none" /\ pc[current[c]] = "out"

WaitInit ==
    /\ Init
    /\ signalled \in [Header -> BOOLEAN]
    /\ waiters = [h \in Header |-> <<>>]
    /\ timed = <<>>
    /\ block = [t \in Thread |-> NoBlock]
    /\ pc = [t \in Thread |-> "out"]
    /\ op = [c \in CPU |-> NoOp]

-----------------------------------------------------------------------------
(* KE_SCHED_WaitForHeader up to the first release of g_lock: take the      *)
(* signal, or give up at once when polling, or queue a wait block.         *)
TryAcquire(h) ==
    /\ signalled[h]
    /\ signalled' = [signalled EXCEPT ![h] = manualReset[h]]
    /\ UNCHANGED <<waiters, timed, block, pc>>

PollFails(h, timeout) ==
    /\ ~signalled[h] /\ timeout = 0
    /\ UNCHANGED <<signalled, waiters, timed, block, pc>>

(* Faulty variant: the newest waiter is put first.                         *)
AddWaiterFront(t, h, timeout) ==
    /\ ~signalled[h] /\ timeout # 0
    /\ block' = [block EXCEPT ![t] = FreshBlock(h, timeout)]
    /\ waiters' = [waiters EXCEPT ![h] = <<t>> \o @]
    /\ timed' = IF timeout > 0 THEN <<t>> \o timed ELSE timed
    /\ pc' = [pc EXCEPT ![t] = "gap"]
    /\ UNCHANGED signalled

AddWaiter(t, h, timeout) ==
    /\ ~signalled[h] /\ timeout # 0
    /\ block' = [block EXCEPT ![t] = FreshBlock(h, timeout)]
    /\ waiters' = [waiters EXCEPT ![h] = Append(@, t)]
    /\ timed' = IF timeout > 0 THEN <<t>> \o timed ELSE timed
    /\ pc' = [pc EXCEPT ![t] = "gap"]
    /\ UNCHANGED signalled

WaitEnter(c, h, timeout) ==
    /\ CanRun(c) /\ LockFree /\ current[c] \notin IdleThreads
    /\ TryAcquire(h) \/ PollFails(h, timeout) \/ AddWaiter(current[c], h, timeout)
    /\ UNCHANGED <<schedVars, op>>

(* The loop body: g_lock was released, the thread marks itself Blocked.    *)
WaitPark(c) ==
    /\ pc[current[c]] = "gap"
    /\ block_current_locked(c)
    /\ pc' = [pc EXCEPT ![current[c]] = "parked"]
    /\ UNCHANGED <<signalled, waiters, timed, block, op>>

(* The thread runs again: retake g_lock, and loop or clean up and return.  *)
LoopAgain(t) ==
    /\ ~block[t].satisfied /\ ~block[t].timed_out
    /\ pc' = [pc EXCEPT ![t] = "gap"]
    /\ UNCHANGED <<waiters, timed, block>>

(* RemoveWaiter and TimedWaitList::Remove unlink the first block of t.     *)
Unlink(s, t) ==
    IF \A i \in DOMAIN s : s[i] # t THEN s
    ELSE Without(s, CHOOSE i \in DOMAIN s : s[i] = t /\ \A j \in 1..(i - 1) : s[j] # t)

(* Faulty variant: a timed-out block stays on the header's list.           *)
LeaveWaitKeepsWaiter(t) ==
    /\ block[t].satisfied \/ block[t].timed_out
    /\ timed' = IF block[t].remaining # INFINITE THEN Unlink(timed, t) ELSE timed
    /\ block' = [block EXCEPT ![t] = NoBlock]
    /\ pc' = [pc EXCEPT ![t] = "out"]
    /\ UNCHANGED waiters

LeaveWait(t) ==
    LET h == block[t].header IN
    /\ block[t].satisfied \/ block[t].timed_out
    /\ timed' = IF block[t].remaining # INFINITE THEN Unlink(timed, t) ELSE timed
    /\ waiters' = IF block[t].satisfied THEN waiters
                  ELSE [waiters EXCEPT ![h] = Unlink(@, t)]
    /\ block' = [block EXCEPT ![t] = NoBlock]
    /\ pc' = [pc EXCEPT ![t] = "out"]

WaitResume(c) ==
    /\ Executing(c) /\ LockFree
    /\ pc[current[c]] = "parked"
    /\ LoopAgain(current[c]) \/ LeaveWait(current[c])
    /\ UNCHANGED <<schedVars, signalled, op>>

-----------------------------------------------------------------------------
(* KE_EVENT_Signal, from a thread or from an interrupt: take g_lock.       *)
KE_EVENT_Signal(c, h, wakeAll) ==
    /\ CanRun(c) /\ LockFree
    /\ op' = [op EXCEPT ![c] = [kind |-> "signal", header |-> h,
                                all |-> manualReset[h] \/ wakeAll]]
    /\ UNCHANGED <<schedVars, signalled, waiters, timed, block, pc>>

(* KDispatcherHeader::Signal: release the oldest waiter ...                *)
ReleaseWaiter(c, h) ==
    LET t == Head(waiters[h]) IN
    /\ waiters[h] # <<>>
    /\ waiters' = [waiters EXCEPT ![h] = Tail(@)]
    /\ block' = [block EXCEPT ![t].satisfied = TRUE]
    /\ ready_locked(t)
    /\ op' = IF op[c].all THEN op ELSE [op EXCEPT ![c] = NoOp]
    /\ UNCHANGED <<signalled, timed, pc>>

(* ... or, with nobody (left) to release, settle the signalled flag.       *)
SettleSignal(c, h) ==
    /\ waiters[h] = <<>>
    /\ signalled' = [signalled EXCEPT ![h] = IF op[c].all THEN manualReset[h] ELSE TRUE]
    /\ op' = [op EXCEPT ![c] = NoOp]
    /\ UNCHANGED <<schedVars, waiters, timed, block, pc>>

SignalStep(c) ==
    /\ op[c].kind = "signal"
    /\ ReleaseWaiter(c, op[c].header) \/ SettleSignal(c, op[c].header)

(* KDispatcherHeader::Reset, called without the wait lock.                 *)
Reset(c, h) ==
    /\ CanRun(c)
    /\ signalled' = [signalled EXCEPT ![h] = FALSE]
    /\ UNCHANGED <<schedVars, waiters, timed, block, pc, op>>

-----------------------------------------------------------------------------
UpdateSystemTimeStopped(c) ==
    /\ CanRun(c) /\ LockFree
    /\ op' = [op EXCEPT ![c] = [kind |-> "expire"]]
    /\ UNCHANGED <<schedVars, signalled, waiters, timed, block, pc>>

(* KE_TIME_UpdateSystemTime in the timer interrupt: time advances and      *)
(* wait::tick takes g_lock ...                                             *)
KE_TIME_UpdateSystemTime(c) ==
    /\ CanRun(c) /\ LockFree
    /\ block' = [t \in Thread |->
                    [block[t] EXCEPT !.remaining = IF @ > 0 THEN @ - 1 ELSE @]]
    /\ op' = [op EXCEPT ![c] = [kind |-> "expire"]]
    /\ UNCHANGED <<schedVars, signalled, waiters, timed, pc>>

(* ... TimedWaitList::Expire unlinks each block whose deadline has passed  *)
(* and wakes it unless a signal got there first ...                        *)
IsFirstExpired(i) ==
    /\ block[timed[i]].remaining = 0
    /\ \A j \in 1..(i - 1) : block[timed[j]].remaining # 0

ExpireOne(c) ==
    \E i \in DOMAIN timed :
        LET t == timed[i] IN
        /\ IsFirstExpired(i)
        /\ timed' = Without(timed, i)
        /\ \/ /\ ~block[t].satisfied
              /\ block' = [block EXCEPT ![t].timed_out = TRUE]
              /\ ready_locked(t)
           \/ block[t].satisfied /\ UNCHANGED <<schedVars, block>>
        /\ UNCHANGED <<signalled, waiters, pc, op>>

(* ... and the lock is released and sched::tick charges the quantum.       *)
ExpireDone(c) ==
    /\ \A i \in DOMAIN timed : block[timed[i]].remaining # 0
    /\ op' = [op EXCEPT ![c] = NoOp]
    /\ tick(c)
    /\ UNCHANGED <<signalled, waiters, timed, block, pc>>

TickStep(c) == op[c].kind = "expire" /\ (ExpireOne(c) \/ ExpireDone(c))

-----------------------------------------------------------------------------
(* The scheduler's own operations, outside this module's sections.         *)
SchedulerStep(c) ==
    /\ \/ Reschedule(c)
       \/ HAL_CPU_SwitchContext(c)
       \/ /\ CanRun(c)
          /\ \/ KE_SCHED_Yield(c)
             \/ KE_SCHED_Terminate(c)
             \/ \E t \in Thread : KE_SCHED_CreateThread(c, t)
    /\ UNCHANGED waitVars

(* KE_SCHED_Unblock on any thread: to a waiting thread it is spurious.     *)
SpuriousUnblock(c, t) ==
    /\ CanRun(c) /\ KE_SCHED_Unblock(c, t) /\ state[t] = "Blocked"
    /\ UNCHANGED waitVars

WaitNext ==
    \E c \in CPU :
        \/ SchedulerStep(c)
        \/ WaitPark(c)
        \/ WaitResume(c)
        \/ SignalStep(c)
        \/ KE_TIME_UpdateSystemTime(c)
        \/ TickStep(c)
        \/ \E h \in Header :
              \/ Reset(c, h)
              \/ \E timeout \in {INFINITE} \cup 0..MaxTimeout : WaitEnter(c, h, timeout)
              \/ \E wakeAll \in BOOLEAN : KE_EVENT_Signal(c, h, wakeAll)
        \/ \E t \in Thread : SpuriousUnblock(c, t)

(* A CPU finishes what it started with interrupts masked.  The timer       *)
(* interrupt recurs, and one raised while interrupts are masked stays      *)
(* pending in the interrupt controller, hence the strong fairness.         *)
(* Signals are not assumed to come.                                        *)
WaitFairness ==
    \A c \in CPU :
        /\ WF_vars(Reschedule(c) /\ UNCHANGED waitVars)
        /\ WF_vars(HAL_CPU_SwitchContext(c) /\ UNCHANGED waitVars)
        /\ WF_vars(WaitPark(c))
        /\ WF_vars(WaitResume(c))
        /\ WF_vars(SignalStep(c))
        /\ WF_vars(TickStep(c))
        /\ SF_vars(KE_TIME_UpdateSystemTime(c))

WaitSpec == WaitInit /\ [][WaitNext]_vars /\ WaitFairness

-----------------------------------------------------------------------------
WaitTypeOK ==
    /\ TypeOK
    /\ signalled \in [Header -> BOOLEAN]
    /\ waiters \in [Header -> Seq(Thread)]
    /\ timed \in Seq(Thread)
    /\ block \in [Thread -> WaitBlock]
    /\ pc \in [Thread -> WaitPc]
    /\ op \in [CPU -> Operation]

(* "Check-then-block under the wait lock so a signal cannot slip in        *)
(* between": a thread asleep in a wait is one that somebody will still     *)
(* wake, neither satisfied nor timed out and on the lists that can.        *)
NoLostWakeup ==
    \A t \in Thread :
        pc[t] = "parked" /\ state[t] = "Blocked" =>
            /\ ~block[t].satisfied /\ ~block[t].timed_out
            /\ t \in Range(waiters[block[t].header])
            /\ block[t].remaining # INFINITE => t \in Range(timed)

(* The waiter lists hold each wait block at most once, and only blocks     *)
(* whose thread has not returned: a block on the list after its stack      *)
(* frame is gone would be followed as a dangling pointer.                  *)
NoDanglingBlock ==
    /\ IsInjective(timed)
    /\ \A t \in Range(timed) : pc[t] # "out" /\ block[t].remaining # INFINITE
    /\ \A h \in Header :
          /\ IsInjective(waiters[h])
          /\ \A t \in Range(waiters[h]) :
                pc[t] # "out" /\ block[t].header = h /\ ~block[t].satisfied

(* A signal is never left pending beside a thread that waits for it.       *)
SignalNotStranded == \A h \in Header : signalled[h] => waiters[h] = <<>>

(* A waiter that has been released, or whose wait has a deadline, returns  *)
(* from KE_SCHED_WaitForHeader.                                            *)
ReleasedWaitReturns ==
    \A t \in Thread :
        (pc[t] # "out" /\ (block[t].satisfied \/ block[t].remaining # INFINITE))
            ~> pc[t] = "out"

(* What a waiting thread relies on: a released waiter is made ready, a     *)
(* wait block on a list belongs to a thread inside the wait, and a         *)
(* remembered signal has no waiter.                                        *)
WaitSafe == NoLostWakeup /\ NoDanglingBlock /\ SignalNotStranded

-----------------------------------------------------------------------------
(* Wait implements EventSpec.  A signal takes effect when KE_EVENT_Signal  *)
(* takes the wait lock: the waiters it is about to release count as        *)
(* granted, and the flag it is about to settle as settled, while the       *)
(* releasing loop is still running.                                        *)
Signalling(h) == \E c \in CPU : op[c].kind = "signal" /\ op[c].header = h
SignalsAll(h) == \E c \in CPU : op[c].kind = "signal" /\ op[c].header = h /\ op[c].all

FlagOf(h) ==
    IF SignalsAll(h) THEN manualReset[h]
    ELSE IF Signalling(h) /\ waiters[h] = <<>> THEN TRUE ELSE signalled[h]

QueueOf(h) ==
    IF SignalsAll(h) \/ waiters[h] = <<>> THEN <<>>
    ELSE IF Signalling(h) THEN Tail(waiters[h]) ELSE waiters[h]

GrantedSet ==
    {t \in Thread :
        \/ pc[t] # "out" /\ block[t].satisfied
        \/ \E h \in Header : t \in Range(waiters[h]) \ Range(QueueOf(h))}

EventFlag  == [h \in Header |-> FlagOf(h)]
EventQueue == [h \in Header |-> QueueOf(h)]
ExpiredSet == {t \in Thread : pc[t] # "out" /\ block[t].timed_out}

Event == INSTANCE EventSpec WITH
    flag <- EventFlag, queue <- EventQueue, granted <- GrantedSet, expired <- ExpiredSet

(* The wait and signal code implements the atomic event: one auto-reset    *)
(* signal releases exactly one waiter, oldest first, or is remembered; a   *)
(* wait returns only when released or past its deadline; a release that    *)
(* races a timeout is never lost.                                          *)
ImplementsEvent == Event!EventSpecification
=============================================================================
