------------------------------ MODULE MCWaiting ------------------------------
(* What threads wait for: dispatcher headers over the scheduler, the event *)
(* broadcaster with its pump, and the PnP worker with the boot thread that *)
(* waits for it to be quiet.  They share no variable: focus says which of  *)
(* them a behaviour exercises.                                             *)
EXTENDS Wait, EventBroadcaster, Pnp, TLC

CONSTANTS i0, b0, w1, auto, manual

VARIABLE focus

waitingVars == <<vars, broadcastVars, pnpVars, focus>>

-----------------------------------------------------------------------------
(* The bootstrap thread and a worker of its priority, above the idle one.  *)
MCIdle == 0 :> i0
MCBoot == 0 :> b0
MCPriority == [t \in Thread |-> IF t \in IdleThreads THEN 0 ELSE 1]
MCManualReset == [h \in Header |-> h = manual]

-----------------------------------------------------------------------------
(* An ISA bus with a disk controller below it, a class driver that makes   *)
(* volumes of disks, and two legacy devices whose resources clash.         *)
MCPort(start, length, share) == [type |-> "port", start |-> start, length |-> length, share |-> share]
MCIrq(line, share) == [type |-> "irq", start |-> line, length |-> 0, share |-> share]
MCDevices == {"isa", "ata", "disk", "vga", "pad", "vol"}
MCDrivers == {"isa", "ata", "volmgr", "vga", "pad"}
MCHwId == [d \in MCDevices |-> IF d = "vol" THEN "none" ELSE d]
MCClassOf == [d \in MCDevices |-> IF d = "disk" THEN "Disk" ELSE "Unknown"]
MCRequirements ==
    [d \in MCDevices |->
        CASE d = "ata" -> {MCPort(4, 2, "Exclusive"), MCIrq(6, "Shared")}
          [] d = "vga" -> {MCPort(8, 3, "Exclusive"), MCIrq(6, "Exclusive")}
          [] d = "pad" -> {MCPort(10, 1, "Exclusive")}
          [] OTHER -> {}]
MCChildren == [d \in MCDevices |-> CASE d = "isa" -> <<"ata">> [] d = "ata" -> <<"disk">> [] OTHER -> <<>>]
MCVolumes == [d \in MCDevices |-> IF d = "disk" THEN <<"vol">> ELSE <<>>]
MCInterests == [d \in MCDrivers |-> IF d = "volmgr" THEN "Disk" ELSE "none"]
MCScript ==
    <<[op |-> "load", image |-> "isa"], [op |-> "load", image |-> "ata"],
      [op |-> "load", image |-> "volmgr"], [op |-> "root", dev |-> "isa"], [op |-> "quiesce"],
      [op |-> "legacy", image |-> "vga", dev |-> "vga"],
      [op |-> "legacy", image |-> "pad", dev |-> "pad"], [op |-> "quiesce"]>>

-----------------------------------------------------------------------------
WaitingInit ==
    /\ focus \in {"wait", "broadcast", "pnp"}
    /\ WaitInit /\ BroadcastInit /\ PnpInit
    /\ focus # "wait" => signalled = [h \in Header |-> FALSE]
    /\ focus # "broadcast" => pump.record = CHOOSE s \in Source : TRUE

WaitingNext ==
    /\ UNCHANGED focus
    /\ IF focus = "wait" THEN WaitNext ELSE UNCHANGED vars
    /\ IF focus = "broadcast" THEN BroadcastNext ELSE UNCHANGED broadcastVars
    /\ IF focus = "pnp" THEN PnpNext ELSE UNCHANGED pnpVars

(* WaitFairness, BroadcastFairness and PnpFairness for the one in focus.   *)
Waits(A) == focus = "wait" /\ A /\ UNCHANGED <<broadcastVars, pnpVars, focus>>
Broadcasts(A) == focus = "broadcast" /\ A /\ UNCHANGED <<vars, pnpVars, focus>>
Enumerates(A) == focus = "pnp" /\ A /\ UNCHANGED <<vars, broadcastVars, focus>>

WaitingFairness ==
    /\ \A c \in CPU :
          /\ WF_waitingVars(Waits(Reschedule(c) /\ UNCHANGED waitVars))
          /\ WF_waitingVars(Waits(HAL_CPU_SwitchContext(c) /\ UNCHANGED waitVars))
          /\ WF_waitingVars(Waits(WaitPark(c)))
          /\ WF_waitingVars(Waits(WaitResume(c)))
          /\ WF_waitingVars(Waits(SignalStep(c)))
          /\ WF_waitingVars(Waits(TickStep(c)))
          /\ SF_waitingVars(Waits(KE_TIME_UpdateSystemTime(c)))
    /\ WF_waitingVars(Broadcasts(PumpThread)) /\ SF_waitingVars(Broadcasts(CallbackReturns))
    /\ \A c \in Caller : /\ WF_waitingVars(Broadcasts(BroadcastSignal(c)))
                         /\ SF_waitingVars(Broadcasts(UnregisterLoop(c)))
    /\ WF_waitingVars(Enumerates(BootStep)) /\ WF_waitingVars(Enumerates(WorkerStep))

WaitingSpec == WaitingInit /\ [][WaitingNext]_waitingVars /\ WaitingFairness
=============================================================================
