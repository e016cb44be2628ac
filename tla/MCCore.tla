------------------------------- MODULE MCCore -------------------------------
(* The scheduler, the ready queue below it, the interrupt record ring and  *)
(* the deferred interrupt dispatch, on one CPU.  They share no variable, so *)
(* a behaviour exercises one of them: focus says which.                    *)
EXTENDS Scheduler, ReadyQueue, SpscRing, InterruptDispatch, TLC

CONSTANTS i0, b0, w1, w2, w3

VARIABLE focus

coreVars == <<schedVars, queueVars, ringVars, dispatchVars, focus>>

(* The idle thread at the bottom; the bootstrap thread and the threads of  *)
(* processes share the level above it.                                     *)
MCIdle == 0 :> i0
MCBoot == 0 :> b0
MCPriority == [t \in Thread |-> IF t = i0 THEN 0 ELSE 1]

(* In the queue one worker is at the level of the bootstrap thread.        *)
MCNodePriority == [t \in Node |-> CASE t = i0 -> 0 [] t \in {b0, w1} -> 1 [] OTHER -> 2]

CoreInit ==
    /\ focus \in {"scheduler", "queue", "ring", "dispatch"}
    /\ Init /\ ListInit /\ RingInit /\ DispatchInit
    /\ focus # "ring" => out = CHOOSE v \in Value : TRUE
    /\ focus # "dispatch" => thread.irq = CHOOSE i \in Irq : TRUE

CoreNext ==
    /\ UNCHANGED focus
    /\ IF focus = "scheduler" THEN Next ELSE UNCHANGED schedVars
    /\ IF focus = "queue" THEN ListNext ELSE UNCHANGED queueVars
    /\ IF focus = "ring" THEN RingNext ELSE UNCHANGED ringVars
    /\ IF focus = "dispatch" THEN DispatchNext ELSE UNCHANGED dispatchVars

(* The fairness of Scheduler and InterruptDispatch for the one in focus.   *)
Scheduled(A) == focus = "scheduler" /\ A /\ UNCHANGED <<queueVars, ringVars, dispatchVars, focus>>
Dispatched(A) == focus = "dispatch" /\ A /\ UNCHANGED <<schedVars, queueVars, ringVars, focus>>

CoreFairness ==
    /\ \A c \in CPU :
          /\ WF_coreVars(Scheduled(Reschedule(c)))
          /\ WF_coreVars(Scheduled(HAL_CPU_SwitchContext(c)))
          /\ WF_coreVars(Scheduled(tick(c)))
    /\ WF_coreVars(Dispatched(SignalRecord))
    /\ WF_coreVars(Dispatched(DispatchThread))

CoreSpec == CoreInit /\ [][CoreNext]_coreVars /\ CoreFairness
=============================================================================
