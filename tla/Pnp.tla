-------------------------------- MODULE Pnp --------------------------------
(***************************************************************************)
(* The plug-and-play manager: the boot thread loads drivers and reports    *)
(* devices, the worker thread identifies, binds, arbitrates and starts     *)
(* them and reports the children it finds.  The queue has its own lock,    *)
(* taken and released inside one step; the registry lock is held by the    *)
(* worker over the whole class trigger, so it is a variable.               *)
(***************************************************************************)
EXTENDS Naturals, Sequences

CONSTANTS
  PnpDevice,      \* devices that can be reported
  PnpDriver,      \* names of driver images
  HwId,           \* [PnpDevice -> its hardware id, or "none" when it has none]
  ClassOf,        \* [PnpDevice -> device type of the stack's function device]
  Requirements,   \* [PnpDevice -> set of resource descriptors]
  Children,       \* [PnpDevice -> children its driver reports: StartDevice, then EnumerateBus]
  Volumes,        \* [PnpDevice -> children a class driver creates when started on it]
  Interests,      \* [PnpDriver -> types its entry point registers interest in]
  Script          \* what the boot thread does: a sequence of records

Descriptor == [type : STRING, start : Nat, length : Nat, share : STRING]

(* An entry that reports a device, and one that loads the device's image first. *)
Reports(entry) == entry.op \in {"legacy", "root"}
LoadsImage(entry) == entry.op = "legacy" /\ entry.image # "none"
LegacyDevices == {Script[n].dev : n \in {m \in 1..Len(Script) : LoadsImage(Script[m])}}

(* A legacy entry makes the device it reports: no other entry and no bus
   reports the same one. *)
ASSUME PnpAssumption ==
  /\ Requirements \in [PnpDevice -> SUBSET Descriptor]
  /\ Children \in [PnpDevice -> Seq(PnpDevice \ LegacyDevices)]
  /\ Volumes \in [PnpDevice -> Seq(PnpDevice \ LegacyDevices)]
  /\ Len(Script) \in Nat
  /\ \A n \in 1..Len(Script) :
       /\ Script[n].op \in {"load", "legacy", "root", "quiesce"}
       /\ Reports(Script[n]) => Script[n].dev \in PnpDevice
       /\ LoadsImage(Script[n]) =>
            \A m \in 1..Len(Script) :
              Reports(Script[m]) /\ Script[m].dev = Script[n].dev => m = n

VARIABLES
  drivers,        \* the driver directory of the object manager
  registered,     \* s_registeredDrivers
  interests,      \* s_deviceInterests, as <<type, driver>>
  registryLock,   \* "free" or the thread that holds s_registryLock
  workQueue, workerBusy, workAvailable,
  parentOf,       \* devices attached below a bus
  pnpState, boundTo, filters, granted,
  worker,         \* [pc, dev, todo, back, seen]: children to report, interests seen
  boot            \* [at, pc]: position in Script and step inside the entry

registryVars == <<drivers, registered, interests>>
workVars == <<workQueue, workerBusy, workAvailable>>
deviceVars == <<pnpState, boundTo, filters, granted>>
pnpVars == <<registryVars, registryLock, workVars, parentOf, deviceVars, worker, boot>>

IdleWorker == [pc |-> "take", dev |-> "none", todo |-> <<>>, back |-> "done", seen |-> 0]

PnpInit ==
  /\ drivers = {} /\ registered = {} /\ interests = <<>> /\ registryLock = "free"
  /\ workQueue = <<>> /\ workerBusy = FALSE /\ workAvailable = FALSE
  /\ parentOf = {}
  /\ pnpState = [d \in PnpDevice |-> "None"]
  /\ boundTo = [d \in PnpDevice |-> "none"]
  /\ filters = [d \in PnpDevice |-> <<>>]
  /\ granted = [d \in PnpDevice |-> {}]
  /\ worker = IdleWorker
  /\ boot = [at |-> 1, pc |-> "begin"]

-----------------------------------------------------------------------------
(* The resource arbiter *)

SpanEnd(start, length) == start + (IF length = 0 THEN 0 ELSE length - 1)

RangesOverlap(d, r) ==
  d.start <= SpanEnd(r.start, r.length) /\ r.start <= SpanEnd(d.start, d.length)

ConflictsWithReserved(desc, reserved) ==
  \E r \in reserved : /\ r.type = desc.type
                      /\ RangesOverlap(desc, r)
                      /\ ~(desc.share = "Shared" /\ r.share = "Shared")

Reserved(dev) == UNION {granted[d] : d \in PnpDevice \ {dev}}

TryReserveAlternative(descs, reserved) ==
  [ok |-> \A desc \in descs : ~ConflictsWithReserved(desc, reserved),
   list |-> {[desc EXCEPT !.length = IF @ = 0 THEN 1 ELSE @] : desc \in descs}]

(* The device's previous grant is given up first; no requirements means an
   empty grant. *)
AssignResources(dev) == TryReserveAlternative(Requirements[dev], Reserved(dev))

-----------------------------------------------------------------------------
(* Reporting a device: attached at once, queued, then signalled *)

Attachable(dev) == dev \notin parentOf

Push(dev) ==
  /\ parentOf' = parentOf \union {dev}
  /\ workQueue' = Append(workQueue, dev)
  /\ UNCHANGED <<workerBusy, workAvailable>>

(* The header remembers the signal until a wait consumes it. *)
Signal ==
  /\ workAvailable' = TRUE
  /\ UNCHANGED <<workQueue, workerBusy, parentOf>>

-----------------------------------------------------------------------------
(* The worker thread *)

(* The flag after the worker looked at the queue: busy while it holds an item. *)
Taken(queue, busy) == queue # <<>>

WorkerTake ==
  /\ worker.pc = "take"
  /\ workerBusy' = Taken(workQueue, workerBusy)
  /\ IF workQueue = <<>>
     THEN /\ worker' = [worker EXCEPT !.pc = "idle"]
          /\ UNCHANGED workQueue
     ELSE /\ worker' = [IdleWorker EXCEPT !.pc = "match", !.dev = Head(workQueue)]
          /\ workQueue' = Tail(workQueue)
  /\ UNCHANGED <<registryVars, registryLock, workAvailable, parentOf, deviceVars, boot>>

(* KE_SCHED_WaitForHeader on the auto-reset header: a pending signal is consumed
   at once, otherwise the thread sleeps until one comes. *)
WorkerSleep ==
  /\ worker.pc = "idle" /\ ~workAvailable
  /\ worker' = [worker EXCEPT !.pc = "wait"]
  /\ UNCHANGED <<registryVars, registryLock, workVars, parentOf, deviceVars, boot>>

WorkerWake ==
  /\ worker.pc \in {"idle", "wait"} /\ workAvailable
  /\ workAvailable' = FALSE
  /\ worker' = [worker EXCEPT !.pc = "take"]
  /\ UNCHANGED <<registryVars, registryLock, workQueue, workerBusy, parentOf, deviceVars, boot>>

FindDriverForHardwareId(dev) ==
  IF HwId[dev] \in registered THEN HwId[dev] ELSE "none"

(* A device nobody can name is dropped.  Without a matching driver the device
   counts as started and only the class triggers run. *)
WorkerMatch ==
  /\ worker.pc = "match" /\ registryLock = "free"
  /\ IF HwId[worker.dev] = "none"
     THEN /\ worker' = [worker EXCEPT !.pc = "done"]
          /\ UNCHANGED pnpState
     ELSE IF FindDriverForHardwareId(worker.dev) = "none"
          THEN /\ pnpState' = [pnpState EXCEPT ![worker.dev] = "Started"]
               /\ worker' = [worker EXCEPT !.pc = "trigger"]
          ELSE /\ worker' = [worker EXCEPT !.pc = "bind"]
               /\ UNCHANGED pnpState
  /\ UNCHANGED <<registryVars, registryLock, workVars, parentOf, boundTo, filters, granted, boot>>

(* The requirements cannot be queried or AddDevice refuses: it stays unbound. *)
WorkerAddFails ==
  /\ worker.pc = "bind"
  /\ worker' = [worker EXCEPT !.pc = "done"]
  /\ UNCHANGED <<registryVars, registryLock, workVars, parentOf, deviceVars, boot>>

(* AddDevice, AssignResources and, without a conflict, StartDevice. *)
StateAfterAssign(outcome) == IF outcome.ok THEN "Started" ELSE "StoppedConflicting"

GrantAfter(dev, outcome) ==
  [granted EXCEPT ![dev] = IF outcome.ok THEN outcome.list ELSE {}]

WorkerBind ==
  /\ worker.pc = "bind"
  /\ LET dev == worker.dev
         outcome == AssignResources(dev)
     IN  /\ boundTo' = [boundTo EXCEPT ![dev] = HwId[dev]]
         /\ granted' = GrantAfter(dev, outcome)
         /\ pnpState' = [pnpState EXCEPT ![dev] = StateAfterAssign(outcome)]
         /\ worker' = IF outcome.ok
                      THEN [worker EXCEPT !.pc = "report", !.todo = Children[dev], !.back = "trigger"]
                      ELSE [worker EXCEPT !.pc = "done"]
  /\ UNCHANGED <<registryVars, registryLock, workVars, parentOf, filters, boot>>

(* The children found by KE_PNP_EnumerateBus, or made by a class driver's
   StartDevice, one report each; a child that already has a bus stops the loop. *)
WorkerReport ==
  /\ worker.pc = "report"
  /\ IF worker.todo = <<>> \/ ~Attachable(Head(worker.todo))
     THEN /\ worker' = [worker EXCEPT !.pc = worker.back, !.todo = <<>>]
          /\ UNCHANGED <<workVars, parentOf>>
     ELSE /\ Push(Head(worker.todo))
          /\ worker' = [worker EXCEPT !.pc = "signal", !.todo = Tail(@)]
  /\ UNCHANGED <<registryVars, registryLock, deviceVars, boot>>

WorkerSignal ==
  /\ worker.pc = "signal"
  /\ Signal
  /\ worker' = [worker EXCEPT !.pc = "report"]
  /\ UNCHANGED <<registryVars, registryLock, deviceVars, boot>>

(* TriggerDeviceInterest takes the registry lock for the whole walk over the
   interests; each matching driver stacks a filter and starts. *)
Interested(dev) ==
  SelectSeq(interests, LAMBDA i : i[1] = ClassOf[dev])

WorkerTrigger ==
  /\ worker.pc = "trigger" /\ registryLock = "free"
  /\ registryLock' = "worker"
  /\ worker' = [worker EXCEPT !.pc = "attach"]
  /\ UNCHANGED <<registryVars, workVars, parentOf, deviceVars, boot>>

Attached(driver) ==
  /\ filters' = [filters EXCEPT ![worker.dev] = Append(@, driver)]
  /\ pnpState' = [pnpState EXCEPT ![worker.dev] = "Started"]
  /\ worker' = [worker EXCEPT !.pc = "report", !.back = "attach",
                              !.todo = Volumes[worker.dev], !.seen = @ + 1]

(* The next interested driver is attached, or its AddDevice fails. *)
WorkerAttach ==
  /\ worker.pc = "attach" /\ worker.seen < Len(Interested(worker.dev))
  /\ \/ Attached(Interested(worker.dev)[worker.seen + 1][2])
     \/ worker' = [worker EXCEPT !.seen = @ + 1] /\ UNCHANGED <<filters, pnpState>>
  /\ UNCHANGED <<registryVars, registryLock, workVars, parentOf, boundTo, granted, boot>>

ReleaseForgotten == registryLock' = registryLock

(* The guard of TriggerDeviceInterest is released when it returns. *)
ReleaseRegistry == registryLock' = "free"

WorkerTriggered ==
  /\ worker.pc = "attach" /\ worker.seen = Len(Interested(worker.dev))
  /\ ReleaseRegistry
  /\ worker' = [worker EXCEPT !.pc = "done"]
  /\ UNCHANGED <<registryVars, workVars, parentOf, deviceVars, boot>>

WorkerDone ==
  /\ worker.pc = "done"
  /\ workerBusy' = IF workQueue = <<>> THEN FALSE ELSE workerBusy
  /\ worker' = IdleWorker
  /\ UNCHANGED <<registryVars, registryLock, workQueue, workAvailable, parentOf, deviceVars, boot>>

WorkerStep ==
  \/ WorkerTake \/ WorkerSleep \/ WorkerWake \/ WorkerMatch \/ WorkerAddFails
  \/ WorkerBind \/ WorkerReport \/ WorkerSignal \/ WorkerTrigger \/ WorkerAttach
  \/ WorkerTriggered \/ WorkerDone

-----------------------------------------------------------------------------
(* The boot thread.  Entries of Script: [op |-> "load", image |-> d],
   [op |-> "legacy", image |-> d or "none", dev |-> e], [op |-> "root", dev |-> e]
   and [op |-> "quiesce"]. *)

Entry == Script[boot.at]
Booting == boot.at <= Len(Script)
NextEntry == [at |-> boot.at + 1, pc |-> "begin"]
BootAt(pc) == [boot EXCEPT !.pc = pc]

LoadsFirst(entry) == entry.op = "load" \/ LoadsImage(entry)

(* A legacy entry loads its image before it reports the device. *)
StartsWithLoad(entry) == LoadsFirst(entry)

BootBegin ==
  /\ Booting /\ boot.pc = "begin" /\ Entry.op # "quiesce"
  /\ boot' = BootAt(IF StartsWithLoad(Entry) THEN "entry" ELSE "push")
  /\ UNCHANGED <<registryVars, registryLock, workVars, parentOf, deviceVars, worker>>

(* A driver key without a usable ImagePath, or whose image cannot be loaded. *)
SkipDriver ==
  /\ Booting /\ boot.pc = "begin" /\ Entry.op = "load"
  /\ boot' = NextEntry
  /\ UNCHANGED <<registryVars, registryLock, workVars, parentOf, deviceVars, worker>>

(* A legacy entry that is malformed, not detected, or whose image cannot be loaded. *)
SkipLegacy ==
  /\ Booting /\ boot.pc = "begin" /\ Entry.op = "legacy"
  /\ boot' = NextEntry
  /\ UNCHANGED <<registryVars, registryLock, workVars, parentOf, deviceVars, worker>>

(* KE_DRIVER_Load: the image's entry point, which may register an interest. *)
BootEntryPoint ==
  /\ Booting /\ boot.pc = "entry" /\ registryLock = "free"
  /\ interests' = IF Interests[Entry.image] = "none" THEN interests
                  ELSE Append(interests, <<Interests[Entry.image], Entry.image>>)
  /\ boot' = BootAt("insert")
  /\ UNCHANGED <<drivers, registered, registryLock, workVars, parentOf, deviceVars, worker>>

(* A name already in the directory fails the load, and with it a legacy entry. *)
BootInsert ==
  /\ Booting /\ boot.pc = "insert"
  /\ drivers' = drivers \union {Entry.image}
  /\ boot' = IF Entry.image \in drivers THEN NextEntry ELSE BootAt("register")
  /\ UNCHANGED <<registered, interests, registryLock, workVars, parentOf, deviceVars, worker>>

BootRegister ==
  /\ Booting /\ boot.pc = "register" /\ registryLock = "free"
  /\ registered' = registered \union {Entry.image}
  /\ boot' = IF Entry.op = "legacy" THEN BootAt("push") ELSE NextEntry
  /\ UNCHANGED <<drivers, interests, registryLock, workVars, parentOf, deviceVars, worker>>

BootPush ==
  /\ Booting /\ boot.pc = "push"
  /\ IF Attachable(Entry.dev)
     THEN Push(Entry.dev) /\ boot' = BootAt("signal")
     ELSE boot' = NextEntry /\ UNCHANGED <<workVars, parentOf>>
  /\ UNCHANGED <<registryVars, registryLock, deviceVars, worker>>

BootSignal ==
  /\ Booting /\ boot.pc = "signal"
  /\ Signal
  /\ boot' = NextEntry
  /\ UNCHANGED <<registryVars, registryLock, deviceVars, worker>>

QuiescentQueue == workQueue = <<>>

(* KE_PNP_WaitForQuiescence spins, yielding, until this holds. *)
Quiescent == workQueue = <<>> /\ ~workerBusy

BootQuiesce ==
  /\ Booting /\ boot.pc = "begin" /\ Entry.op = "quiesce" /\ Quiescent
  /\ boot' = NextEntry
  /\ UNCHANGED <<registryVars, registryLock, workVars, parentOf, deviceVars, worker>>

BootStep ==
  \/ BootBegin \/ SkipDriver \/ SkipLegacy
  \/ BootEntryPoint \/ BootInsert \/ BootRegister
  \/ BootPush \/ BootSignal \/ BootQuiesce

PnpNext == BootStep \/ WorkerStep
PnpFairness == WF_pnpVars(BootStep) /\ WF_pnpVars(WorkerStep)
PnpSpec == PnpInit /\ [][PnpNext]_pnpVars /\ PnpFairness

-----------------------------------------------------------------------------
(* Nothing the boot thread waited for is still in flight: between a return of
   KE_PNP_WaitForQuiescence and the next report, every reported device has been
   taken through ProcessDevice and the class triggers of each are over. *)
QuietMeansProcessed ==
  (boot.at > 1 /\ boot.pc = "begin" /\ Script[boot.at - 1].op = "quiesce")
    => /\ workQueue = <<>>
       /\ worker.pc \in {"take", "idle", "wait"}

(* The sticky signal of KE_PNP_ReportNewDevice: a worker asleep with devices in
   the queue has a signal pending, or the reporter is just about to raise it. *)
NoStrandedDevice ==
  (worker.pc = "wait" /\ workQueue # <<>>) => workAvailable \/ boot.pc = "signal"

(* A device has been granted a resource when it holds a descriptor of the
   same type, span and sharing. *)
Holds(dev, desc) ==
  \E r \in granted[dev] :
    /\ r.type = desc.type /\ r.share = desc.share /\ r.start = desc.start
    /\ SpanEnd(r.start, r.length) = SpanEnd(desc.start, desc.length)

(* KE_RES_AssignResources never hands a range to two devices unless both share
   it, and a bound device that runs holds everything it asked for. *)
GrantsDoNotClash ==
  \A d, e \in PnpDevice :
    /\ (d # e) => \A r \in granted[d] : \A s \in granted[e] :
         (r.type = s.type /\ RangesOverlap(r, s)) => (r.share = "Shared" /\ s.share = "Shared")
    /\ (boundTo[d] # "none" /\ pnpState[d] = "Started")
         => \A desc \in Requirements[d] : Holds(d, desc)

(* A legacy entry's own image is registered before the worker can match the
   device it reports: such a device never runs without its driver. *)
LegacyFindsItsDriver ==
  \A n \in 1..Len(Script) :
    LET e == Script[n]
    IN  LoadsImage(e) /\ e.dev \in parentOf => e.image \in registered

(* Once begun, the boot script always reaches its end: no wait for quiescence
   and no lock is waited for forever. *)
BootFinishes == boot # [at |-> 1, pc |-> "begin"] ~> boot.at > Len(Script)

(* What the boot thread relies on after KE_PNP_Quiesce: the tree is        *)
(* enumerated to the end, no device waits for a driver that is there, and  *)
(* no two grants clash.                                                    *)
PnpSafe ==
    /\ QuietMeansProcessed /\ NoStrandedDevice /\ GrantsDoNotClash
    /\ LegacyFindsItsDriver
=============================================================================
