----------------------------- MODULE BootProofs -----------------------------
(***************************************************************************)
(* Two things a boot rests on.  For any devices and drivers, the PnP       *)
(* manager strands no device, is quiet only when every device is           *)
(* processed, and hands out no resource twice.  For any first image and    *)
(* any number of builds and power losses, an update of the disk image      *)
(* survives a loss at any instant and publishes only what was tested.      *)
(***************************************************************************)
EXTENDS Pnp, DiskUpdate, TLAPS

-----------------------------------------------------------------------------
(* The PnP manager.                                                        *)
Resting == {"take", "idle", "wait"}
Started == {"report", "signal", "trigger", "attach"}
Reportable == Seq(PnpDevice \ LegacyDevices)

WorkerState ==
    [pc : Resting \cup Started \cup {"match", "bind", "done"}, dev : PnpDevice \cup {"none"},
     todo : Reportable, back : {"done", "trigger", "attach"}, seen : Nat]
BootState ==
    [at : 1..(Len(Script) + 1), pc : {"begin", "entry", "insert", "register", "push", "signal"}]

DevicesInv ==
    /\ granted \in [PnpDevice -> SUBSET Descriptor] /\ GrantsDoNotClash
    /\ boundTo = [d \in PnpDevice |-> boundTo[d]] /\ pnpState = [d \in PnpDevice |-> pnpState[d]]
    /\ \A d \in PnpDevice : boundTo[d] # "none" => HwId[d] \in registered

(* The busy flag covers a device from the moment it leaves the queue, and  *)
(* a worker that found the queue empty is told of what comes later.  A     *)
(* device that goes on to its class triggers is unbound or holds all that  *)
(* it requires.                                                            *)
WorkerInv ==
    /\ worker \in WorkerState /\ workQueue \in Seq(PnpDevice)
    /\ worker.pc \notin Resting => workerBusy /\ worker.dev \in PnpDevice
    /\ worker.pc \in {"idle", "wait"} /\ workQueue # <<>> => workAvailable \/ boot.pc = "signal"
    /\ worker.pc = "bind" => HwId[worker.dev] \in registered
    /\ worker.pc \in Started /\ boundTo[worker.dev] # "none" =>
         \A desc \in Requirements[worker.dev] : Holds(worker.dev, desc)

(* What an entry loads is registered when its device is reported; only a   *)
(* wait that ended leaves a "quiesce" entry.                               *)
BootInv ==
    /\ boot \in BootState
    /\ boot.pc # "begin" => Booting /\ Entry.op # "quiesce"
    /\ boot.pc \in {"entry", "insert", "register"} => LoadsFirst(Entry)
    /\ boot.pc \in {"push", "signal"} => Reports(Entry) /\ (LoadsImage(Entry) => Entry.image \in registered)
    /\ QuietMeansProcessed /\ LegacyFindsItsDriver

PnpInv == DevicesInv /\ WorkerInv /\ BootInv

LEMMA ScriptFacts ==
    /\ Len(Script) \in Nat
    /\ \A n \in 1..Len(Script) : Script[n].op \in {"load", "legacy", "root", "quiesce"}
BY PnpAssumption

LEMMA InScript ==
    ASSUME boot \in BootState, Booting
    PROVE  boot.at \in 1..Len(Script) /\ Entry.op \in {"load", "legacy", "root", "quiesce"}
<1>1. boot.at \in 1..(Len(Script) + 1) /\ boot.at <= Len(Script)
  BY DEF BootState, Booting
<1>2. boot.at \in 1..Len(Script)
  BY <1>1, ScriptFacts
<1> QED
  BY <1>2, ScriptFacts DEF Entry

(* Steps that bind no device.                                              *)
LEMMA DevicesKept ==
    ASSUME DevicesInv, granted' = granted, boundTo' = boundTo, pnpState' = pnpState,
           registered \subseteq registered'
    PROVE  DevicesInv'
BY DEF DevicesInv, GrantsDoNotClash, Holds

(* A device that is not bound, or holds what it requires, may be started.  *)
LEMMA StartingKeeps ==
    ASSUME DevicesInv, granted' = granted, boundTo' = boundTo, registered' = registered,
           NEW dev \in PnpDevice, pnpState' = [pnpState EXCEPT ![dev] = "Started"],
           boundTo[dev] # "none" => \A desc \in Requirements[dev] : Holds(dev, desc)
    PROVE  DevicesInv'
<1>1. /\ pnpState' = [d \in PnpDevice |-> pnpState'[d]]
      /\ \A d \in PnpDevice : d # dev => pnpState'[d] = pnpState[d]
  BY DEF DevicesInv
<1>2. GrantsDoNotClash'
  BY <1>1 DEF DevicesInv, GrantsDoNotClash, Holds
<1> QED
  BY <1>1, <1>2 DEF DevicesInv

(* The worker between devices.                                             *)
LEMMA RestingStep ==
    ASSUME PnpInv, WorkerTake \/ WorkerSleep \/ WorkerWake \/ WorkerDone
    PROVE  PnpInv'
<1>0. /\ worker \in WorkerState /\ workQueue \in Seq(PnpDevice) /\ boot \in BootState
      /\ IdleWorker \in WorkerState /\ IdleWorker.pc = "take"
  BY DEF PnpInv, WorkerInv, BootInv, IdleWorker, WorkerState, Resting, Reportable
<1>1. UNCHANGED <<registryVars, registryLock, parentOf, deviceVars, boot>>
  BY DEF WorkerTake, WorkerSleep, WorkerWake, WorkerDone
<1>2. DevicesInv'
  BY <1>1, DevicesKept DEF PnpInv, deviceVars, registryVars
<1>3. CASE workQueue' = workQueue /\ worker'.pc \in Resting /\ worker' \in WorkerState
           /\ (worker'.pc \in {"idle", "wait"} /\ workQueue # <<>> => workAvailable' \/ boot.pc = "signal")
  <2>1. WorkerInv'
    BY <1>0, <1>1, <1>3 DEF WorkerInv, Resting, Started
  <2>2. BootInv'
    BY <1>1, <1>3 DEF PnpInv, BootInv, QuietMeansProcessed, LegacyFindsItsDriver, Booting, Entry,
                      Resting, registryVars
  <2> QED
    BY <1>2, <2>1, <2>2 DEF PnpInv
<1>4. CASE WorkerTake
  <2>1. CASE workQueue = <<>>
    <3>1. worker' = [worker EXCEPT !.pc = "idle"] /\ workQueue' = workQueue
      BY <1>4, <2>1 DEF WorkerTake
    <3>2. worker' \in WorkerState /\ worker'.pc = "idle"
      BY <1>0, <3>1 DEF WorkerState, Resting
    <3> QED
      BY <1>3, <2>1, <3>1, <3>2 DEF Resting
  <2>2. CASE workQueue # <<>>
    <3>1. /\ worker' = [IdleWorker EXCEPT !.pc = "match", !.dev = Head(workQueue)]
          /\ workQueue' = Tail(workQueue) /\ workerBusy'
      BY <1>4, <2>2 DEF WorkerTake, Taken
    <3>2. Head(workQueue) \in PnpDevice /\ Tail(workQueue) \in Seq(PnpDevice)
      BY <1>0, <2>2
    <3>3. worker' \in WorkerState /\ worker'.pc = "match" /\ worker'.dev \in PnpDevice
      BY <1>0, <3>1, <3>2 DEF WorkerState
    <3>4. WorkerInv'
      BY <3>1, <3>2, <3>3 DEF WorkerInv, Started
    <3>5. BootInv'
      BY <1>1, <2>2 DEF PnpInv, BootInv, QuietMeansProcessed, LegacyFindsItsDriver, Booting, Entry,
                        registryVars
    <3> QED
      BY <1>2, <3>4, <3>5 DEF PnpInv
  <2> QED
    BY <2>1, <2>2
<1>5. CASE WorkerSleep \/ WorkerWake
  <2>1. /\ workQueue' = workQueue /\ worker.pc \in {"idle", "wait"}
        /\ \/ worker' = [worker EXCEPT !.pc = "wait"] /\ workAvailable' = workAvailable
           \/ worker' = [worker EXCEPT !.pc = "take"]
    BY <1>5 DEF WorkerSleep, WorkerWake, workVars
  <2>2. /\ worker' \in WorkerState /\ worker'.pc \in {"wait", "take"}
        /\ worker'.pc = "wait" => workAvailable' = workAvailable
    BY <1>0, <2>1 DEF WorkerState, Resting
  <2>3. workQueue # <<>> => workAvailable \/ boot.pc = "signal"
    BY <2>1 DEF PnpInv, WorkerInv
  <2> QED
    BY <1>3, <2>1, <2>2, <2>3 DEF Resting
<1>6. CASE WorkerDone
  <2>1. workQueue' = workQueue /\ worker' = IdleWorker
    BY <1>6 DEF WorkerDone
  <2> QED
    BY <1>0, <1>3, <2>1 DEF Resting
<1> QED
  BY <1>4, <1>5, <1>6

(* The worker with a device: the boot thread does not see it quiet.        *)
LEMMA BusyStep ==
    ASSUME PnpInv, worker.pc \notin Resting, UNCHANGED <<registryVars, boot>>,
           \A dev \in LegacyDevices : dev \in parentOf' => dev \in parentOf
    PROVE  BootInv'
<1>1. ~(boot.at > 1 /\ boot.pc = "begin" /\ Script[boot.at - 1].op = "quiesce")
  BY DEF PnpInv, BootInv, QuietMeansProcessed, Resting
<1>2. QuietMeansProcessed'
  BY <1>1 DEF QuietMeansProcessed
<1>3. LegacyFindsItsDriver'
  BY DEF PnpInv, BootInv, LegacyFindsItsDriver, LegacyDevices, registryVars
<1> QED
  BY <1>2, <1>3 DEF PnpInv, BootInv, Booting, Entry, registryVars

(* A step of the worker that changes its own state and no grant.           *)
LEMMA DeviceStep ==
    ASSUME PnpInv, worker.pc \notin Resting, UNCHANGED <<registryVars, parentOf, boot, granted, boundTo>>,
           workQueue' = workQueue, workerBusy' = workerBusy, DevicesInv',
           worker' \in WorkerState, worker'.dev = worker.dev,
           worker'.pc \notin Resting,
           worker'.pc = "bind" => HwId[worker.dev] \in registered,
           worker'.pc \in Started /\ boundTo[worker.dev] # "none" =>
             \A desc \in Requirements[worker.dev] : Holds(worker.dev, desc)
    PROVE  PnpInv'
<1>1. BootInv'
  BY BusyStep
<1>2. workerBusy /\ worker.dev \in PnpDevice
  BY DEF PnpInv, WorkerInv
<1>3. \A desc : Holds(worker.dev, desc) => Holds(worker.dev, desc)'
  BY DEF Holds
<1>4. WorkerInv'
  BY <1>2, <1>3 DEF PnpInv, WorkerInv, Resting, registryVars
<1> QED
  BY <1>1, <1>4 DEF PnpInv

LEMMA MatchStep ==
    ASSUME PnpInv, WorkerMatch \/ WorkerAddFails
    PROVE  PnpInv'
<1>0. /\ worker \in WorkerState /\ worker.pc \in {"match", "bind"} /\ worker.dev \in PnpDevice
      /\ DevicesInv
  BY DEF PnpInv, WorkerInv, WorkerMatch, WorkerAddFails, Resting
<1>1. /\ UNCHANGED <<registryVars, parentOf, boot, granted, boundTo>>
      /\ workQueue' = workQueue /\ workerBusy' = workerBusy
  BY DEF WorkerMatch, WorkerAddFails, workVars, deviceVars
<1>2. registered' = registered
  BY <1>1 DEF registryVars
<1>3. CASE worker' = [worker EXCEPT !.pc = "done"] /\ pnpState' = pnpState
  <2>1. worker' \in WorkerState /\ worker'.pc = "done" /\ worker'.dev = worker.dev
    BY <1>0, <1>3 DEF WorkerState
  <2>2. DevicesInv'
    BY <1>0, <1>1, <1>2, <1>3, DevicesKept
  <2> QED
    BY <1>0, <1>1, <2>1, <2>2, DeviceStep DEF Resting, Started
<1>4. CASE /\ WorkerMatch /\ HwId[worker.dev] # "none" /\ FindDriverForHardwareId(worker.dev) = "none"
           /\ pnpState' = [pnpState EXCEPT ![worker.dev] = "Started"]
           /\ worker' = [worker EXCEPT !.pc = "trigger"]
  <2>1. worker' \in WorkerState /\ worker'.pc = "trigger" /\ worker'.dev = worker.dev
    BY <1>0, <1>4 DEF WorkerState, Started
  <2>2. boundTo[worker.dev] = "none"
    BY <1>0, <1>4 DEF DevicesInv, FindDriverForHardwareId
  <2>3. DevicesInv'
    BY <1>0, <1>1, <1>2, <1>4, <2>2, StartingKeeps
  <2> QED
    BY <1>0, <1>1, <2>1, <2>2, <2>3, DeviceStep DEF Resting, Started
<1>5. CASE /\ WorkerMatch /\ HwId[worker.dev] # "none" /\ FindDriverForHardwareId(worker.dev) # "none"
           /\ pnpState' = pnpState /\ worker' = [worker EXCEPT !.pc = "bind"]
  <2>1. worker' \in WorkerState /\ worker'.pc = "bind" /\ worker'.dev = worker.dev
    BY <1>0, <1>5 DEF WorkerState
  <2>2. HwId[worker.dev] \in registered
    BY <1>5 DEF FindDriverForHardwareId
  <2>3. DevicesInv'
    BY <1>0, <1>1, <1>2, <1>5, DevicesKept
  <2> QED
    BY <1>0, <1>1, <2>1, <2>2, <2>3, DeviceStep DEF Resting, Started
<1> QED
  BY <1>3, <1>4, <1>5 DEF WorkerMatch, WorkerAddFails, deviceVars

LEMMA TriggerStep ==
    ASSUME PnpInv, WorkerTrigger \/ WorkerAttach \/ WorkerTriggered
    PROVE  PnpInv'
<1>0. /\ worker \in WorkerState /\ worker.pc \in {"trigger", "attach"} /\ worker.dev \in PnpDevice
      /\ DevicesInv
      /\ boundTo[worker.dev] # "none" => \A desc \in Requirements[worker.dev] : Holds(worker.dev, desc)
  BY DEF PnpInv, WorkerInv, WorkerTrigger, WorkerAttach, WorkerTriggered, Resting, Started
<1>1. /\ UNCHANGED <<registryVars, parentOf, boot, granted, boundTo>>
      /\ workQueue' = workQueue /\ workerBusy' = workerBusy
  BY DEF WorkerTrigger, WorkerAttach, WorkerTriggered, workVars, deviceVars
<1>2. registered' = registered
  BY <1>1 DEF registryVars
<1>3. ASSUME worker' \in WorkerState, worker'.dev = worker.dev, worker'.pc \in Started \cup {"done"}, DevicesInv'
      PROVE  PnpInv'
  BY <1>0, <1>1, <1>3, DeviceStep DEF Resting, Started
<1>4. pnpState' = pnpState => DevicesInv'
  BY <1>0, <1>1, <1>2, DevicesKept
<1>5. CASE WorkerTrigger \/ WorkerTriggered
  <2>1. /\ worker' = [worker EXCEPT !.pc = "attach"] \/ worker' = [worker EXCEPT !.pc = "done"]
        /\ pnpState' = pnpState
    BY <1>5 DEF WorkerTrigger, WorkerTriggered, deviceVars
  <2>2. worker' \in WorkerState /\ worker'.dev = worker.dev /\ worker'.pc \in Started \cup {"done"}
    BY <1>0, <2>1 DEF WorkerState, Started
  <2> QED
    BY <1>3, <1>4, <2>1, <2>2
<1>6. ASSUME NEW driver, Attached(driver) PROVE PnpInv'
  <2>1. /\ pnpState' = [pnpState EXCEPT ![worker.dev] = "Started"]
        /\ worker' = [worker EXCEPT !.pc = "report", !.back = "attach", !.todo = Volumes[worker.dev],
                                    !.seen = @ + 1]
    BY <1>6 DEF Attached
  <2>2. Volumes[worker.dev] \in Reportable /\ worker.seen + 1 \in Nat
    BY <1>0, PnpAssumption DEF Reportable, WorkerState
  <2>3. worker' \in WorkerState /\ worker'.dev = worker.dev /\ worker'.pc = "report"
    BY <1>0, <2>1, <2>2 DEF WorkerState, Started
  <2>4. DevicesInv'
    BY <1>0, <1>1, <1>2, <2>1, StartingKeeps
  <2> QED
    BY <1>3, <2>3, <2>4 DEF Started
<1>7. CASE worker' = [worker EXCEPT !.seen = @ + 1] /\ UNCHANGED <<filters, pnpState>>
  <2>1. worker.seen + 1 \in Nat
    BY <1>0 DEF WorkerState
  <2>2. worker' \in WorkerState /\ worker'.dev = worker.dev /\ worker'.pc = worker.pc
    BY <1>0, <1>7, <2>1 DEF WorkerState
  <2> QED
    BY <1>0, <1>3, <1>4, <1>7, <2>2 DEF Started
<1> QED
  BY <1>5, <1>6, <1>7 DEF WorkerAttach

LEMMA ReportStep ==
    ASSUME PnpInv, WorkerReport \/ WorkerSignal
    PROVE  PnpInv'
<1>0. /\ worker \in WorkerState /\ worker.pc \in {"report", "signal"} /\ worker.dev \in PnpDevice
      /\ DevicesInv /\ workQueue \in Seq(PnpDevice) /\ workerBusy
      /\ boundTo[worker.dev] # "none" => \A desc \in Requirements[worker.dev] : Holds(worker.dev, desc)
  BY DEF PnpInv, WorkerInv, WorkerReport, WorkerSignal, Resting, Started
<1>1. UNCHANGED <<registryVars, deviceVars, boot>> /\ registered' = registered /\ granted' = granted
      /\ boundTo' = boundTo /\ pnpState' = pnpState
  BY DEF WorkerReport, WorkerSignal, registryVars, deviceVars
<1>2. DevicesInv'
  BY <1>0, <1>1, DevicesKept
<1>3. CASE /\ worker.pc = "report" /\ worker.todo # <<>> /\ Push(Head(worker.todo))
           /\ worker' = [worker EXCEPT !.pc = "signal", !.todo = Tail(@)]
  <2>1. worker.todo \in Reportable /\ Head(worker.todo) \in PnpDevice \ LegacyDevices
        /\ Tail(worker.todo) \in Reportable
    BY <1>0, <1>3 DEF WorkerState, Reportable
  <2>2. /\ parentOf' = parentOf \cup {Head(worker.todo)} /\ workQueue' = Append(workQueue, Head(worker.todo))
        /\ workerBusy' = workerBusy
    BY <1>3 DEF Push
  <2>3. worker' \in WorkerState /\ worker'.dev = worker.dev /\ worker'.pc = "signal"
    BY <1>0, <1>3, <2>1 DEF WorkerState, Started
  <2>4. BootInv'
    BY <1>0, <1>1, <2>1, <2>2, BusyStep DEF Resting
  <2>5. WorkerInv'
    BY <1>0, <1>1, <2>1, <2>2, <2>3 DEF WorkerInv, Resting, Started, Holds
  <2> QED
    BY <1>2, <2>4, <2>5 DEF PnpInv
<1>4. CASE /\ parentOf' = parentOf /\ workQueue' = workQueue /\ workerBusy' = workerBusy
           /\ \/ worker' = [worker EXCEPT !.pc = worker.back, !.todo = <<>>]
              \/ worker' = [worker EXCEPT !.pc = "report"]
  <2>1. <<>> \in Reportable
    BY DEF Reportable
  <2>2. worker' \in WorkerState /\ worker'.dev = worker.dev /\ worker'.pc \in Started \cup {"done"}
    BY <1>0, <1>4, <2>1 DEF WorkerState, Started
  <2> QED
    BY <1>0, <1>1, <1>2, <1>4, <2>2, DeviceStep DEF Resting, Started
<1> QED
  BY <1>3, <1>4 DEF WorkerReport, WorkerSignal, Signal, workVars

(* What an assignment grants: the descriptors asked for, with the same     *)
(* span, and free of conflicts with what the other devices hold.           *)
Granting(desc) == [desc EXCEPT !.length = IF @ = 0 THEN 1 ELSE @]

LEMMA GrantedSpan ==
    ASSUME NEW desc \in Descriptor
    PROVE  /\ Granting(desc) \in Descriptor /\ Granting(desc).type = desc.type
           /\ Granting(desc).share = desc.share /\ Granting(desc).start = desc.start
           /\ SpanEnd(Granting(desc).start, Granting(desc).length) = SpanEnd(desc.start, desc.length)
<1>1. desc.start \in Nat /\ desc.length \in Nat
  BY DEF Descriptor
<1>2. Granting(desc).length = (IF desc.length = 0 THEN 1 ELSE desc.length)
  BY DEF Descriptor, Granting
<1>3. /\ Granting(desc) \in Descriptor /\ Granting(desc).type = desc.type
      /\ Granting(desc).share = desc.share /\ Granting(desc).start = desc.start
  BY DEF Descriptor, Granting
<1>4. SpanEnd(desc.start, Granting(desc).length) = SpanEnd(desc.start, desc.length)
  BY <1>1, <1>2 DEF SpanEnd
<1> QED
  BY <1>3, <1>4

LEMMA BindStep ==
    ASSUME PnpInv, WorkerBind
    PROVE  PnpInv'
<1>d. PICK dev : dev = worker.dev
  OBVIOUS
<1> DEFINE outcome == AssignResources(dev)
           asked == Requirements[dev]
<1>0. /\ worker \in WorkerState /\ worker.pc = "bind" /\ dev \in PnpDevice /\ DevicesInv
      /\ workQueue \in Seq(PnpDevice) /\ workerBusy /\ HwId[dev] \in registered
      /\ granted \in [PnpDevice -> SUBSET Descriptor] /\ asked \in SUBSET Descriptor
      /\ Children[dev] \in Reportable
  BY <1>d, PnpAssumption DEF PnpInv, WorkerInv, WorkerBind, DevicesInv, Resting, Reportable
<1>1. /\ UNCHANGED <<registryVars, parentOf, boot>> /\ registered' = registered
      /\ workQueue' = workQueue /\ workerBusy' = workerBusy
      /\ boundTo' = [boundTo EXCEPT ![dev] = HwId[dev]]
      /\ granted' = [granted EXCEPT ![dev] = IF outcome.ok THEN outcome.list ELSE {}]
      /\ pnpState' = [pnpState EXCEPT ![dev] = IF outcome.ok THEN "Started" ELSE "StoppedConflicting"]
      /\ worker' = IF outcome.ok
                   THEN [worker EXCEPT !.pc = "report", !.todo = Children[dev], !.back = "trigger"]
                   ELSE [worker EXCEPT !.pc = "done"]
  BY <1>d DEF WorkerBind, workVars, registryVars, GrantAfter, StateAfterAssign
<1>2. /\ outcome.ok <=> \A desc \in asked : ~ConflictsWithReserved(desc, Reserved(dev))
      /\ outcome.list = {Granting(desc) : desc \in asked}
  BY DEF AssignResources, TryReserveAlternative, Granting
<1>3. outcome.list \in SUBSET Descriptor
  BY <1>0, <1>2, GrantedSpan
<1> HIDE DEF outcome
<1>4. /\ granted' \in [PnpDevice -> SUBSET Descriptor]
      /\ granted'[dev] = IF outcome.ok THEN outcome.list ELSE {}
      /\ \A d \in PnpDevice : d # dev => granted'[d] = granted[d]
  BY <1>0, <1>1, <1>3
<1>5. /\ boundTo' = [d \in PnpDevice |-> boundTo'[d]]
      /\ \A d \in PnpDevice : boundTo'[d] = IF d = dev THEN HwId[dev] ELSE boundTo[d]
      /\ pnpState' = [d \in PnpDevice |-> pnpState'[d]]
      /\ pnpState'[dev] = IF outcome.ok THEN "Started" ELSE "StoppedConflicting"
      /\ \A d \in PnpDevice : d # dev => pnpState'[d] = pnpState[d]
  BY <1>0, <1>1 DEF DevicesInv
<1>6. ASSUME NEW d \in PnpDevice, d # dev, NEW r \in granted'[dev], NEW t \in granted[d],
             r.type = t.type, RangesOverlap(r, t) \/ RangesOverlap(t, r)
      PROVE  r.share = "Shared" /\ t.share = "Shared"
  <2>1. outcome.ok /\ \E desc \in asked : r = Granting(desc)
    BY <1>2, <1>4, <1>6
  <2>2. PICK desc \in asked : r = Granting(desc)
    BY <2>1
  <2>3. desc \in Descriptor
    BY <1>0, <2>2
  <2>4. /\ r.type = desc.type /\ r.share = desc.share /\ r.start = desc.start
        /\ SpanEnd(r.start, r.length) = SpanEnd(desc.start, desc.length)
    BY <2>2, <2>3, GrantedSpan
  <2>5. RangesOverlap(desc, t)
    BY <1>6, <2>4 DEF RangesOverlap
  <2>6. t \in Reserved(dev)
    BY <1>6 DEF Reserved
  <2>7. ~ConflictsWithReserved(desc, Reserved(dev))
    BY <1>2, <2>1, <2>2
  <2> QED
    BY <1>6, <2>4, <2>5, <2>6, <2>7 DEF ConflictsWithReserved
<1>7. ASSUME outcome.ok, NEW desc \in asked
      PROVE  Holds(dev, desc)'
  <2>1. desc \in Descriptor /\ Granting(desc) \in granted'[dev]
    BY <1>0, <1>2, <1>4, <1>7
  <2> QED
    BY <2>1, GrantedSpan DEF Holds
<1>8. GrantsDoNotClash'
  <2> SUFFICES ASSUME NEW d \in PnpDevice, NEW e \in PnpDevice
               PROVE  /\ d # e => \A r \in granted'[d] : \A t \in granted'[e] :
                           (r.type = t.type /\ RangesOverlap(r, t)) => (r.share = "Shared" /\ t.share = "Shared")
                      /\ (boundTo'[d] # "none" /\ pnpState'[d] = "Started")
                           => \A desc \in Requirements[d] : Holds(d, desc)'
    BY DEF GrantsDoNotClash
  <2>1. ASSUME d # e, NEW r \in granted'[d], NEW t \in granted'[e], r.type = t.type, RangesOverlap(r, t)
        PROVE  r.share = "Shared" /\ t.share = "Shared"
    <3>1. CASE d = dev
      BY <1>4, <1>6, <2>1, <3>1
    <3>2. CASE e = dev
      BY <1>4, <1>6, <2>1, <3>2
    <3>3. CASE d # dev /\ e # dev
      BY <1>0, <1>4, <2>1, <3>3 DEF DevicesInv, GrantsDoNotClash
    <3> QED
      BY <3>1, <3>2, <3>3
  <2>2. ASSUME boundTo'[d] # "none", pnpState'[d] = "Started", NEW desc \in Requirements[d]
        PROVE  Holds(d, desc)'
    <3>1. CASE d = dev
      <4>1. outcome.ok
        BY <1>5, <2>2, <3>1
      <4> QED
        BY <1>7, <2>2, <3>1, <4>1
    <3>2. CASE d # dev
      <4>1. Holds(d, desc)
        BY <1>0, <1>5, <2>2, <3>2 DEF DevicesInv, GrantsDoNotClash
      <4> QED
        BY <1>4, <3>2, <4>1 DEF Holds
    <3> QED
      BY <3>1, <3>2
  <2> QED
    BY <2>1, <2>2
<1>9. DevicesInv'
  BY <1>0, <1>1, <1>4, <1>5, <1>8 DEF DevicesInv
<1>10. BootInv'
  BY <1>0, <1>1, BusyStep DEF Resting
<1>11. WorkerInv'
  <2>1. /\ worker' \in WorkerState /\ worker'.dev = dev /\ worker'.pc \in {"report", "done"}
        /\ worker'.pc = "report" => outcome.ok
    BY <1>0, <1>1, <1>d DEF WorkerState, Started
  <2> QED
    BY <1>0, <1>1, <1>7, <2>1 DEF WorkerInv, Resting, Started
<1> QED
  BY <1>9, <1>10, <1>11 DEF PnpInv

(* The boot thread within an entry, when it reports nothing.               *)
LEMMA EntryStep ==
    ASSUME PnpInv, BootBegin \/ SkipDriver \/ SkipLegacy \/ BootEntryPoint \/ BootInsert \/ BootRegister
                   \/ BootQuiesce
    PROVE  PnpInv'
<1>0. boot \in BootState /\ boot.at \in 1..Len(Script) /\ Len(Script) \in Nat
      /\ Entry.op \in {"load", "legacy", "root", "quiesce"}
  <2>1. boot \in BootState
    BY DEF PnpInv, BootInv
  <2>2. Booting
    BY DEF PnpInv, BootInv, BootBegin, SkipDriver, SkipLegacy, BootEntryPoint, BootInsert,
           BootRegister, BootQuiesce
  <2> QED
    BY <2>1, <2>2, InScript, ScriptFacts
<1>1. /\ UNCHANGED <<workVars, parentOf, deviceVars, worker>> /\ registered \subseteq registered'
      /\ boot.pc # "signal"
  BY DEF BootBegin, SkipDriver, SkipLegacy, BootEntryPoint, BootInsert, BootRegister, BootQuiesce,
         registryVars
<1>2. DevicesInv'
  BY <1>1, DevicesKept DEF PnpInv, deviceVars
<1>3. WorkerInv'
  BY <1>1 DEF PnpInv, WorkerInv, Holds, workVars, deviceVars
<1>4. LegacyFindsItsDriver'
  BY <1>1 DEF PnpInv, BootInv, LegacyFindsItsDriver
<1>5. ASSUME boot' = NextEntry, Entry.op = "quiesce" => workQueue = <<>> /\ worker.pc \in Resting
      PROVE  BootInv'
  <2>1. boot'.at = boot.at + 1 /\ boot'.pc = "begin" /\ boot' \in BootState
    BY <1>0, <1>5 DEF NextEntry, BootState
  <2>2. boot'.at - 1 = boot.at
    BY <1>0, <2>1
  <2>3. QuietMeansProcessed'
    BY <1>1, <1>5, <2>2 DEF QuietMeansProcessed, Resting, Entry, workVars
  <2> QED
    BY <1>4, <2>1, <2>3 DEF BootInv
<1>6. ASSUME NEW pc \in {"entry", "insert", "register", "push"}, boot' = BootAt(pc), Entry.op # "quiesce",
             pc # "push" => LoadsFirst(Entry),
             pc = "push" => Reports(Entry) /\ (LoadsImage(Entry) => Entry.image \in registered')
      PROVE  BootInv'
  <2>1. boot'.at = boot.at /\ boot'.pc = pc /\ boot' \in BootState
    BY <1>0, <1>6 DEF BootAt, BootState
  <2>2. Booting' /\ Entry' = Entry
    BY <1>0, <2>1 DEF Booting, Entry
  <2>3. QuietMeansProcessed'
    BY <2>1 DEF QuietMeansProcessed
  <2> QED
    BY <1>4, <1>6, <2>1, <2>2, <2>3 DEF BootInv
<1>7. BootInv'
  <2>1. CASE BootBegin
    <3>1. CASE LoadsFirst(Entry)
      BY <1>6, <2>1, <3>1 DEF BootBegin, StartsWithLoad
    <3>2. CASE ~LoadsFirst(Entry)
      <4>1. Reports(Entry) /\ ~LoadsImage(Entry) /\ boot' = BootAt("push") /\ Entry.op # "quiesce"
        BY <1>0, <2>1, <3>2 DEF BootBegin, StartsWithLoad, LoadsFirst, Reports
      <4> QED
        BY <1>6, <4>1
    <3> QED
      BY <3>1, <3>2
  <2>2. CASE SkipDriver \/ SkipLegacy
    BY <1>5, <2>2 DEF SkipDriver, SkipLegacy
  <2>3. CASE BootEntryPoint
    <3>1. boot' = BootAt("insert") /\ LoadsFirst(Entry) /\ Entry.op # "quiesce"
      BY <2>3 DEF BootEntryPoint, PnpInv, BootInv
    <3> QED
      BY <1>6, <3>1
  <2>4. CASE BootInsert
    <3>1. LoadsFirst(Entry) /\ Entry.op # "quiesce" /\ (boot' = NextEntry \/ boot' = BootAt("register"))
      BY <2>4 DEF BootInsert, PnpInv, BootInv
    <3> QED
      BY <1>5, <1>6, <3>1
  <2>5. CASE BootRegister
    <3>1. /\ Entry.op # "quiesce" /\ Entry.image \in registered'
          /\ boot' = NextEntry \/ (boot' = BootAt("push") /\ Entry.op = "legacy")
      BY <2>5 DEF BootRegister, PnpInv, BootInv
    <3>2. Entry.op = "legacy" => Reports(Entry)
      BY DEF Reports
    <3> QED
      BY <1>5, <1>6, <3>1, <3>2
  <2>6. CASE BootQuiesce
    <3>1. boot' = NextEntry /\ workQueue = <<>> /\ ~workerBusy
      BY <2>6 DEF BootQuiesce, Quiescent
    <3>2. worker.pc \in Resting
      BY <3>1 DEF PnpInv, WorkerInv
    <3> QED
      BY <1>5, <3>1, <3>2
  <2> QED
    BY <2>1, <2>2, <2>3, <2>4, <2>5, <2>6
<1> QED
  BY <1>2, <1>3, <1>7 DEF PnpInv

(* The boot thread reporting a device.                                     *)
LEMMA BootReportStep ==
    ASSUME PnpInv, BootPush \/ BootSignal
    PROVE  PnpInv'
<1>0. /\ boot \in BootState /\ boot.at \in 1..Len(Script) /\ Len(Script) \in Nat
      /\ Entry.op # "quiesce" /\ Reports(Entry) /\ Entry.dev \in PnpDevice
      /\ LoadsImage(Entry) => Entry.image \in registered
  <2>1. boot.pc \in {"push", "signal"} /\ boot \in BootState /\ Booting
    BY DEF PnpInv, BootInv, BootPush, BootSignal
  <2>2. boot.at \in 1..Len(Script) /\ Len(Script) \in Nat
    BY <2>1, InScript, ScriptFacts
  <2> QED
    BY <2>1, <2>2, PnpAssumption DEF PnpInv, BootInv, Entry
<1>1. /\ UNCHANGED <<registryVars, deviceVars, worker>> /\ registered' = registered
      /\ workerBusy' = workerBusy
  BY DEF BootPush, BootSignal, registryVars, Push, Signal, workVars
<1>2. DevicesInv'
  BY <1>1, DevicesKept DEF PnpInv, deviceVars
<1>3. CASE BootPush /\ Attachable(Entry.dev)
  <2>1. /\ parentOf' = parentOf \cup {Entry.dev} /\ workQueue' = Append(workQueue, Entry.dev)
        /\ boot' = BootAt("signal")
    BY <1>3 DEF BootPush, Push
  <2>2. boot' \in BootState /\ boot'.at = boot.at /\ boot'.pc = "signal"
    BY <1>0, <2>1 DEF BootAt, BootState
  <2>3. Booting' /\ Entry' = Entry
    BY <1>0, <2>2 DEF Booting, Entry
  <2>4. LegacyFindsItsDriver'
    <3> SUFFICES ASSUME NEW n \in 1..Len(Script), LoadsImage(Script[n]), Script[n].dev \in parentOf'
                 PROVE  Script[n].image \in registered'
      BY DEF LegacyFindsItsDriver
    <3>1. CASE Script[n].dev \in parentOf
      BY <1>1, <3>1 DEF PnpInv, BootInv, LegacyFindsItsDriver
    <3>2. CASE Script[n].dev = Script[boot.at].dev
      <4>1. Reports(Script[boot.at]) /\ boot.at \in 1..Len(Script)
        BY <1>0 DEF Entry
      <4>2. boot.at = n
        BY <3>2, <4>1, PnpAssumption
      <4> QED
        BY <1>0, <1>1, <4>2 DEF Entry
    <3> QED
      BY <2>1, <3>1, <3>2 DEF Entry
  <2>5. BootInv'
    BY <1>0, <1>1, <2>2, <2>3, <2>4 DEF BootInv, QuietMeansProcessed
  <2>6. workQueue \in Seq(PnpDevice)
    BY DEF PnpInv, WorkerInv
  <2>8. workQueue' \in Seq(PnpDevice)
    BY <1>0, <2>1, <2>6
  <2>7. WorkerInv'
    BY <1>1, <2>2, <2>8 DEF PnpInv, WorkerInv, Holds, deviceVars
  <2> QED
    BY <1>2, <2>5, <2>7 DEF PnpInv
<1>4. CASE /\ parentOf' = parentOf /\ workQueue' = workQueue /\ boot' = NextEntry
           /\ workAvailable' \/ (workAvailable' = workAvailable /\ boot.pc # "signal")
  <2>1. boot'.at = boot.at + 1 /\ boot'.pc = "begin" /\ boot' \in BootState
    BY <1>0, <1>4 DEF NextEntry, BootState
  <2>2. boot'.at - 1 = boot.at
    BY <1>0, <2>1
  <2>3. QuietMeansProcessed'
    BY <1>0, <2>2 DEF QuietMeansProcessed, Entry
  <2>4. BootInv'
    BY <1>1, <1>4, <2>1, <2>3 DEF PnpInv, BootInv, LegacyFindsItsDriver
  <2>5. WorkerInv'
    BY <1>1, <1>4, <2>1 DEF PnpInv, WorkerInv, Holds, deviceVars
  <2> QED
    BY <1>2, <2>4, <2>5 DEF PnpInv
<1> QED
  BY <1>3, <1>4 DEF BootPush, BootSignal, Signal, workVars

(* A return of KE_PNP_WaitForQuiescence finds every reported device        *)
(* processed, a sleeping worker leaves no device in the queue, no two      *)
(* devices hold a resource they do not share, a running device holds all   *)
(* that it requires, and a legacy device's driver is registered before it. *)
THEOREM PnpIsSafe == PnpSpec => []PnpSafe
<1>1. PnpInit => PnpInv
  <2> SUFFICES ASSUME PnpInit PROVE PnpInv
    OBVIOUS
  <2>1. DevicesInv
    <3>1. \A d \in PnpDevice : granted[d] = {} /\ boundTo[d] = "none"
      BY DEF PnpInit
    <3>2. granted \in [PnpDevice -> SUBSET Descriptor]
      BY DEF PnpInit
    <3>3. boundTo = [d \in PnpDevice |-> boundTo[d]] /\ pnpState = [d \in PnpDevice |-> pnpState[d]]
      BY DEF PnpInit
    <3>4. GrantsDoNotClash
      BY <3>1 DEF GrantsDoNotClash
    <3> QED
      BY <3>1, <3>2, <3>3, <3>4 DEF DevicesInv
  <2>2. WorkerInv
    <3>1. worker = [pc |-> "take", dev |-> "none", todo |-> <<>>, back |-> "done", seen |-> 0]
      BY DEF PnpInit, IdleWorker
    <3>2. worker.pc = "take" /\ "take" \in Resting /\ "take" \notin Started
      BY <3>1 DEF Resting, Started
    <3>3. <<>> \in Reportable /\ workQueue = <<>> /\ workQueue \in Seq(PnpDevice)
      BY DEF PnpInit, Reportable
    <3>4. worker \in WorkerState
      BY <3>1, <3>2, <3>3 DEF WorkerState
    <3> QED
      BY <3>2, <3>3, <3>4 DEF WorkerInv
  <2>3. boot \in BootState /\ boot.pc = "begin" /\ boot.at = 1
    <3>1. boot = [at |-> 1, pc |-> "begin"] /\ 1 \in 1..(Len(Script) + 1)
      BY ScriptFacts DEF PnpInit
    <3> QED
      BY <3>1 DEF BootState
  <2>4. BootInv
    <3>1. QuietMeansProcessed
      BY <2>3 DEF PnpInit, QuietMeansProcessed
    <3>2. LegacyFindsItsDriver
      BY <2>3 DEF PnpInit, LegacyFindsItsDriver
    <3> QED
      BY <2>3, <3>1, <3>2 DEF BootInv
  <2> QED
    BY <2>1, <2>2, <2>4 DEF PnpInv
<1>2. PnpInv /\ [PnpNext]_pnpVars => PnpInv'
  <2> SUFFICES ASSUME PnpInv, [PnpNext]_pnpVars PROVE PnpInv'
    OBVIOUS
  <2>1. CASE UNCHANGED pnpVars
    <3>1. UNCHANGED <<registered, workQueue, workerBusy, workAvailable, parentOf, pnpState, boundTo,
                      granted, worker, boot>>
      BY <2>1 DEF pnpVars, registryVars, workVars, deviceVars
    <3>2. DevicesInv'
      BY <3>1, DevicesKept DEF PnpInv
    <3>3. WorkerInv'
      BY <3>1 DEF PnpInv, WorkerInv, Holds
    <3>4. Booting' = Booting /\ Entry' = Entry
      BY <3>1 DEF Booting, Entry
    <3>5. QuietMeansProcessed' /\ LegacyFindsItsDriver'
      BY <3>1, <3>4 DEF PnpInv, BootInv, QuietMeansProcessed, LegacyFindsItsDriver
    <3>6. BootInv'
      BY <3>1, <3>4, <3>5 DEF PnpInv, BootInv
    <3> QED
      BY <3>2, <3>3, <3>6 DEF PnpInv
  <2>2. CASE PnpNext
    BY <2>2, RestingStep, MatchStep, BindStep, TriggerStep, ReportStep, EntryStep, BootReportStep
    DEF PnpNext, BootStep, WorkerStep
  <2> QED
    BY <2>1, <2>2
<1>3. PnpInv => PnpSafe
  BY DEF PnpInv, DevicesInv, WorkerInv, BootInv, PnpSafe, NoStrandedDevice
<1> QED
  BY <1>1, <1>2, <1>3, PTL DEF PnpSpec

-----------------------------------------------------------------------------
(* The update of the disk image.                                           *)
Files == [content : Content, synced : BOOLEAN, exists : BOOLEAN]
Whole(c) == ~EndsIn(c.menu, "torn")

Tools ==
  [does : {"nothing", "prepare", "publish", "published", "mismatch"}, kind : Kinds,
   at : {"idle", "copy", "install", "verify", "save", "sync", "keep", "replace", "named"},
   seen : Content, build : Nat, late : BOOLEAN]

UpdateTypeOK ==
  /\ image \in [content : Content, synced : BOOLEAN, before : Files]
  /\ candidates \in [Kinds -> Files] /\ snapshots \in [Kinds -> Files]
  /\ backup \in Files /\ staging \in Files
  /\ reports \in [Kinds -> [made : BOOLEAN, source : Content, seen : Content, candidate : Content,
                            build : Nat, base : [source : Content, candidate : Content]]]
  /\ tested \in [Kinds -> [content : Content, ok : BOOLEAN]]
  /\ tool \in Tools
  /\ artifact \in Nat /\ manifest \in Nat

(* A file that a power loss cannot harm, and that holds an image.          *)
Durable(f, c) == f.exists /\ f.synced /\ f.content = c
Kept(c) == Durable(backup, c) \/ \E k \in Kinds : Durable(snapshots[k], c)

(* The image is torn or could be, were the power to fail now.              *)
Exposed ==
  \/ ~Whole(image.content) \/ ~image.synced
  \/ image.before.exists /\ (~Whole(image.before.content) \/ ~image.before.synced)

(* The menu tells the kind that made a candidate.  A refresh starts from   *)
(* an image no unsynced candidate ever replaced.                           *)
ReportsTell ==
  \A k \in Kinds : reports[k].made =>
    /\ k \in {"direct", "cpu_safe", "diag"} => EndsIn(reports[k].candidate.menu, k)
    /\ k = "refresh" => /\ EndsIn(reports[k].source.menu, "console")
                        /\ reports[k].candidate.menu = reports[k].source.menu
                        /\ reports[k].candidate.user = reports[k].source.user

ImageGuarded ==
  /\ Exposed => Kept(replaced)
  /\ EndsIn(image.content.menu, "console") => image.synced

(* What a publishing command knows at each of its steps.                   *)
Publishing(k) ==
  /\ k # "console" /\ reports[k].made /\ BootTested(k)
  /\ tool.at \in {"save", "sync", "keep", "replace"} =>
       /\ candidates[k].content.menu = reports[k].candidate.menu
       /\ k = "refresh" => image.content.menu = reports[k].source.menu
  /\ k = "direct" /\ tool.at = "save" => ~backup.exists
  /\ k = "direct" /\ tool.at = "sync" => backup.exists
  /\ k = "direct" /\ tool.at \in {"keep", "replace"} => Durable(backup, reports[k].source)
  /\ k \in {"cpu_safe", "diag"} /\ tool.at \in {"save", "sync", "keep"} => ~snapshots[k].exists
  /\ k \in {"cpu_safe", "diag"} /\ tool.at = "sync" => staging.exists
  /\ k \in {"cpu_safe", "diag"} /\ tool.at = "keep" => Durable(staging, reports[k].source)
  /\ k \in {"cpu_safe", "diag"} /\ tool.at = "replace" => Durable(snapshots[k], reports[k].source)
  /\ k = "refresh" /\ tool.at \in {"keep", "replace"} =>
       /\ candidates[k].synced
       /\ reports[k].source.user \subseteq candidates[k].content.user
       /\ ~tool.late => image.content = reports[k].source

ToolKnows ==
  /\ tool.does = "prepare" /\ tool.kind = "refresh" => EndsIn(tool.seen.menu, "console")
  /\ tool.does = "publish" => Publishing(tool.kind)
  /\ PublishedIsTested

UpdateInv == UpdateTypeOK /\ ReportsTell /\ ImageGuarded /\ ToolKnows

-----------------------------------------------------------------------------
(* Types.                                                                  *)

LEMMA TornFacts == Torn \in Content /\ ~Whole(Torn)
<1>1. <<"torn">> \in Seq(Blocks) /\ <<"torn">> # <<>> /\ <<"torn">>[Len(<<"torn">>)] = "torn"
      BY DEF Blocks
<1>2. Torn \in Content
      BY <1>1 DEF Torn, Content
<1>3. ~Whole(Torn)
      BY <1>1 DEF Torn, Whole, EndsIn
<1>q. QED
      BY <1>2, <1>3

LEMMA FileFacts ==
    ASSUME NEW f \in Files, NEW c \in Content
    PROVE  /\ NoFile \in Files /\ File(c) \in Files /\ Synced(f) \in Files
           /\ \A g \in AfterLoss(f) : g \in Files
<1>1. NoFile \in Files /\ File(c) \in Files /\ Synced(f) \in Files
      BY TornFacts DEF Files, NoFile, File, Synced
<1>2. [f EXCEPT !.content = Torn, !.synced = TRUE] \in Files
      BY TornFacts DEF Files
<1>q. QED
      BY <1>1, <1>2 DEF AfterLoss

(* The menu of a candidate, and the kind it names.                         *)
LEMMA MenuFacts ==
    ASSUME NEW k \in Kinds, NEW m \in Seq(Blocks)
    PROVE  /\ MenuOf(k, m) \in Seq(Blocks)
           /\ k \in {"direct", "cpu_safe", "diag"} => EndsIn(MenuOf(k, m), k)
           /\ k = "refresh" => MenuOf(k, m) = m
<1>1. Rest(m) \in Seq(Blocks)
      BY DEF Rest
<1>2. \A n \in Seq(Blocks), b \in Blocks : Append(n, b) \in Seq(Blocks) /\ EndsIn(Append(n, b), b)
      BY DEF EndsIn
<1>3. k \in {"direct", "cpu_safe", "diag", "console", "refresh"}
      BY UpdateAssumption
<1>q. QED
      BY <1>1, <1>2, <1>3 DEF MenuOf, Blocks

LEMMA ToolFacts == NoTool \in Tools /\ NoTool.does = "nothing" /\ NoTool.at = "idle"
<1>1. Torn \in Content /\ "direct" \in Kinds /\ 0 \in Nat
      BY TornFacts, UpdateAssumption
<1>2. NoTool \in Tools
      BY <1>1 DEF NoTool, Tools
<1>q. QED
      BY <1>2 DEF NoTool

LEMMA GotoTypes ==
    ASSUME UpdateTypeOK, Goto("install") \/ Goto("verify") \/ Goto("sync") \/ Goto("keep")
                         \/ Goto("replace") \/ Goto("named")
    PROVE  tool' \in Tools
<1>1. PICK at \in {"install", "verify", "sync", "keep", "replace", "named"} :
            tool' = [tool EXCEPT !.at = at]
      BY DEF Goto
<1>2. tool \in Tools
      BY DEF UpdateTypeOK
<1>q. QED
      BY <1>1, <1>2 DEF Tools

(* Writing to an image or to a candidate changes its files only.           *)
LEMMA WriteFacts ==
    ASSUME NEW c \in Content, NEW w \in {"image", "candidate"}
    PROVE  /\ [c EXCEPT !.user = @ \union {w}] \in Content
           /\ [c EXCEPT !.user = @ \union {w}].menu = c.menu
           /\ c.user \subseteq [c EXCEPT !.user = @ \union {w}].user
BY DEF Content

LEMMA UpdateInitTypes == UpdateInit => UpdateTypeOK
<1> SUFFICES ASSUME UpdateInit PROVE UpdateTypeOK
    OBVIOUS
<1> PICK c \in FirstImages : image = [content |-> c, synced |-> TRUE, before |-> NoFile]
    BY DEF UpdateInit
<1>1. c \in Content
      BY UpdateAssumption
<1>2. NoFile \in Files /\ Torn \in Content
      BY TornFacts DEF NoFile, Files
<1>3. image \in [content : Content, synced : BOOLEAN, before : Files]
      BY <1>1, <1>2
<1>4. NoReport \in [made : BOOLEAN, source : Content, seen : Content, candidate : Content,
                    build : Nat, base : [source : Content, candidate : Content]]
      BY <1>2 DEF NoReport, NoBase
<1>5. NotTested \in [content : Content, ok : BOOLEAN]
      BY <1>2 DEF NotTested
<1>6. NoTool \in Tools
      BY <1>2, UpdateAssumption DEF NoTool, Tools
<1>q. QED
      BY <1>2, <1>3, <1>4, <1>5, <1>6, UpdateAssumption DEF UpdateInit, UpdateTypeOK

LEMMA PrepareTypes ==
    ASSUME UpdateTypeOK, NEW k \in Kinds, PrepareSteps(k)
    PROVE  UpdateTypeOK'
<1> USE DEF diskFiles
<1>1. CASE PrepareBegin(k)
      <2>1. tool' \in Tools
            BY <1>1, ToolFacts DEF PrepareBegin, UpdateTypeOK, Tools
      <2>q. QED
            BY <1>1, <2>1 DEF PrepareBegin, UpdateTypeOK
<1>2. CASE PrepareCopy(k)
      <2>1. File(image.content) \in Files
            BY FileFacts DEF UpdateTypeOK
      <2>q. QED
            BY <1>2, <2>1 DEF PrepareCopy, Goto, UpdateTypeOK, Tools
<1>3. CASE PrepareInstall(k)
      <2>0. candidates[k].content \in Content /\ tool.seen \in Content
            BY DEF UpdateTypeOK, Files, Tools
      <2>1. tool.seen.menu \in Seq(Blocks)
            BY <2>0 DEF Content
      <2>2. MenuOf(k, tool.seen.menu) \in Seq(Blocks)
            BY <2>1, MenuFacts
      <2> DEFINE c == [candidates[k].content EXCEPT !.module = artifact,
                                                    !.menu = MenuOf(k, tool.seen.menu)]
      <2>3. c \in Content
            BY <2>0, <2>2 DEF UpdateTypeOK, Content
      <2>4. candidates' = [candidates EXCEPT ![k] = [candidates[k] EXCEPT !.content = c]]
            BY <1>3 DEF PrepareInstall, UpdateTypeOK
      <2> HIDE DEF c
      <2>5. [candidates[k] EXCEPT !.content = c] \in Files
            BY <2>3 DEF UpdateTypeOK, Files
      <2>6. candidates' \in [Kinds -> Files]
            BY <2>4, <2>5 DEF UpdateTypeOK
      <2>7. tool' \in Tools
            BY <1>3, GotoTypes DEF PrepareInstall
      <2>q. QED
            BY <1>3, <2>6, <2>7 DEF PrepareInstall, UpdateTypeOK
<1>4. CASE PrepareReport(k)
      <2>1. candidates[k].content \in Content /\ tool.seen \in Content /\ image.content \in Content
            BY DEF UpdateTypeOK, Files, Tools
      <2>2. Base(k) \in [source : Content, candidate : Content]
            BY TornFacts, UpdateAssumption DEF Base, NoBase, UpdateTypeOK
      <2>3. tool.build \in Nat
            BY DEF UpdateTypeOK, Tools
      <2>4. reports' \in [Kinds -> [made : BOOLEAN, source : Content, seen : Content,
                                   candidate : Content, build : Nat,
                                   base : [source : Content, candidate : Content]]]
            BY <1>4, <2>1, <2>2, <2>3 DEF PrepareReport, UpdateTypeOK
      <2>q. QED
            BY <1>4, <2>4, ToolFacts DEF PrepareReport, UpdateTypeOK
<1>q. QED
      BY <1>1, <1>2, <1>3, <1>4 DEF PrepareSteps

LEMMA PublishTypes ==
    ASSUME UpdateTypeOK, NEW k \in Kinds \ {"console"}, PublishSteps(k)
    PROVE  UpdateTypeOK'
<1> USE DEF diskFiles
<1>0. /\ File(image.content) \in Files /\ NoFile \in Files /\ Synced(backup) \in Files
      /\ Synced(staging) \in Files /\ Synced(candidates[k]) \in Files
      BY FileFacts DEF UpdateTypeOK
<1>1. CASE PublishBegin(k)
      BY <1>1, ToolFacts DEF PublishBegin, UpdateTypeOK, Tools
<1>2. CASE PublishSave(k)
      BY <1>2, <1>0 DEF PublishSave, Goto, UpdateTypeOK, Tools
<1>3. CASE PublishSync(k)
      <2>1. k \in {"direct", "cpu_safe", "diag", "refresh"}
            BY UpdateAssumption
      <2>2. MadeDurable(k)[1] \in Files /\ MadeDurable(k)[2] \in Files /\ MadeDurable(k)[3] \in Files
            BY <1>0, <2>1 DEF MadeDurable, UpdateTypeOK
      <2>q. QED
            BY <1>3, <2>2 DEF PublishSync, Goto, UpdateTypeOK, Tools
<1>4. CASE PublishKeep(k)
      <2>1. snapshots' \in [Kinds -> Files] /\ staging' \in Files
            BY <1>4, <1>0 DEF PublishKeep, UpdateTypeOK
      <2>2. tool' \in Tools
            BY <1>4, GotoTypes DEF PublishKeep
      <2>q. QED
            BY <1>4, <2>1, <2>2 DEF PublishKeep, UpdateTypeOK
<1>5. CASE PublishReplace(k)
      <2>1. candidates[k] \in Files
            BY DEF UpdateTypeOK
      <2>2. image' \in [content : Content, synced : BOOLEAN, before : Files]
            BY <1>5, <2>1 DEF PublishReplace, UpdateTypeOK, Files
      <2>q. QED
            BY <1>5, <1>0, <2>2 DEF PublishReplace, Goto, UpdateTypeOK, Tools
<1>6. CASE PublishDone(k)
      BY <1>6, <1>0, ToolFacts DEF PublishDone, UpdateTypeOK, Tools
<1>q. QED
      BY <1>1, <1>2, <1>3, <1>4, <1>5, <1>6 DEF PublishSteps

LEMMA OtherTypes ==
    ASSUME UpdateTypeOK,
           \/ CommandOver \/ CommandFails \/ Boot \/ Close \/ Build \/ BuildDone
           \/ \E k \in Kinds : BootCandidate(k) \/ Discard(k) \/ \E ok \in BOOLEAN : BootTest(k, ok)
    PROVE  UpdateTypeOK'
<1> USE DEF diskFiles
<1>0. NoFile \in Files /\ NoTool \in Tools
      BY FileFacts, ToolFacts DEF UpdateTypeOK
<1>1. CASE CommandOver
      BY <1>1, <1>0 DEF CommandOver, UpdateTypeOK
<1>2. CASE CommandFails
      <2>1. tool.kind \in Kinds
            BY DEF UpdateTypeOK, Tools
      <2>2. candidates' \in [Kinds -> Files] /\ staging' \in Files
            BY <1>2, <1>0, <2>1 DEF CommandFails, UpdateTypeOK
      <2>q. QED
            BY <1>2, <1>0, <2>2 DEF CommandFails, UpdateTypeOK
<1>3. CASE Boot
      <2> DEFINE c == [image.content EXCEPT !.user = @ \union {"image"}]
      <2>1. image.content \in Content
            BY DEF UpdateTypeOK
      <2>2. c \in Content
            BY <2>1, WriteFacts
      <2>3. image' = [image EXCEPT !.content = c]
            BY <1>3 DEF Boot, UpdateTypeOK
      <2> HIDE DEF c
      <2>4. image' \in [content : Content, synced : BOOLEAN, before : Files]
            BY <2>2, <2>3 DEF UpdateTypeOK
      <2>5. tool' \in Tools
            BY <1>3 DEF Boot, UpdateTypeOK, Tools
      <2>q. QED
            BY <1>3, <2>4, <2>5 DEF Boot, UpdateTypeOK
<1>4. CASE Close
      BY <1>4 DEF Close, UpdateTypeOK
<1>5. CASE Build \/ BuildDone
      <2>1. /\ UNCHANGED <<image, candidates, snapshots, backup, staging, reports, tested, tool>>
            /\ artifact' \in {artifact, artifact + 1} /\ manifest' \in {manifest, artifact}
            BY <1>5 DEF Build, BuildDone
      <2>2. artifact \in Nat /\ manifest \in Nat
            BY DEF UpdateTypeOK
      <2>3. artifact' \in Nat /\ manifest' \in Nat
            BY <2>1, <2>2
      <2>q. QED
            BY <2>1, <2>3 DEF UpdateTypeOK
<1>6. ASSUME NEW k \in Kinds, BootCandidate(k) PROVE UpdateTypeOK'
      <2> DEFINE c == [candidates[k].content EXCEPT !.user = @ \union {"candidate"}]
      <2>1. candidates[k] \in Files /\ candidates[k].content \in Content
            BY DEF UpdateTypeOK, Files
      <2>2. c \in Content
            BY <2>1, WriteFacts
      <2>3. candidates' = [candidates EXCEPT ![k] = [candidates[k] EXCEPT !.content = c]]
            BY <1>6 DEF BootCandidate, UpdateTypeOK
      <2> HIDE DEF c
      <2>4. [candidates[k] EXCEPT !.content = c] \in Files
            BY <2>1, <2>2 DEF Files
      <2>5. candidates' \in [Kinds -> Files]
            BY <2>3, <2>4 DEF UpdateTypeOK
      <2>q. QED
            BY <1>6, <2>5 DEF BootCandidate, UpdateTypeOK
<1>7. ASSUME NEW k \in Kinds, Discard(k) PROVE UpdateTypeOK'
      <2>1. NoReport \in [made : BOOLEAN, source : Content, seen : Content, candidate : Content,
                          build : Nat, base : [source : Content, candidate : Content]]
            BY TornFacts DEF NoReport, NoBase
      <2>2. NotTested \in [content : Content, ok : BOOLEAN]
            BY TornFacts DEF NotTested
      <2>q. QED
            BY <1>7, <1>0, <2>1, <2>2 DEF Discard, UpdateTypeOK
<1>8. ASSUME NEW k \in Kinds, NEW ok \in BOOLEAN, BootTest(k, ok) PROVE UpdateTypeOK'
      <2>1. candidates[k].content \in Content
            BY DEF UpdateTypeOK, Files
      <2>q. QED
            BY <1>8, <2>1 DEF BootTest, UpdateTypeOK
<1>q. QED
      BY <1>1, <1>2, <1>3, <1>4, <1>5, <1>6, <1>7, <1>8

LEMMA PowerLossTypes == ASSUME UpdateTypeOK, PowerLoss PROVE UpdateTypeOK'
<1>1. \A f \in Files : \A g \in AfterLoss(f) : g \in Files
      BY FileFacts, TornFacts
<1>2. backup' \in Files /\ staging' \in Files
      BY <1>1 DEF PowerLoss, UpdateTypeOK
<1>3. candidates' \in [Kinds -> Files]
      BY <1>1 DEF PowerLoss, UpdateTypeOK
<1>4. image' \in [content : Content, synced : BOOLEAN, before : Files]
      <2>1. image.content \in Content /\ image.synced \in BOOLEAN /\ image.before \in Files
            BY DEF UpdateTypeOK
      <2>2. [content |-> image.content, synced |-> image.synced, exists |-> TRUE] \in Files
            BY <2>1 DEF Files
      <2>3. PICK f \in Files : image' = [content |-> f.content, synced |-> TRUE, before |-> NoFile]
            BY <1>1, <2>1, <2>2 DEF PowerLoss
      <2>4. NoFile \in Files /\ f.content \in Content
            BY TornFacts DEF NoFile, Files
      <2>q. QED
            BY <2>3, <2>4
<1>q. QED
      BY <1>2, <1>3, <1>4, ToolFacts DEF PowerLoss, UpdateTypeOK

-----------------------------------------------------------------------------
(* The inductive invariant.                                                *)

LEMMA GuardUnchanged ==
    ASSUME ImageGuarded, UNCHANGED <<image, backup, snapshots, replaced>>
    PROVE  ImageGuarded'
BY DEF ImageGuarded, Exposed, Kept

LEMMA ToolKnowsKept ==
    ASSUME ToolKnows,
           UNCHANGED <<image, candidates, backup, snapshots, staging, reports, tested, tool>>
    PROVE  ToolKnows'
<1>1. ASSUME NEW k, Publishing(k) PROVE Publishing(k)'
      <2>1. BootTested(k) => BootTested(k)'
            BY DEF BootTested
      <2>2. k # "console" /\ reports'[k].made /\ BootTested(k)'
            BY <1>1, <2>1 DEF Publishing
      <2>3. tool'.at \in {"save", "sync", "keep", "replace"} =>
              /\ candidates'[k].content.menu = reports'[k].candidate.menu
              /\ k = "refresh" => image'.content.menu = reports'[k].source.menu
            BY <1>1 DEF Publishing
      <2>q. QED
            BY <1>1, <2>2, <2>3 DEF Publishing, Durable
<1>2. PublishedIsTested'
      BY DEF ToolKnows, PublishedIsTested
<1>q. QED
      BY <1>1, <1>2 DEF ToolKnows

LEMMA UpdateInitInv == UpdateInit => UpdateInv
<1> SUFFICES ASSUME UpdateInit PROVE UpdateInv
    OBVIOUS
<1> PICK c \in FirstImages : image = [content |-> c, synced |-> TRUE, before |-> NoFile]
    BY DEF UpdateInit
<1>1. UpdateTypeOK
      BY UpdateInitTypes
<1>2. ReportsTell
      BY DEF UpdateInit, ReportsTell, NoReport
<1>3. ImageGuarded
      <2>1. image.content = c /\ image.synced /\ image.before = NoFile
            OBVIOUS
      <2>q. QED
            BY <2>1, UpdateAssumption DEF ImageGuarded, Exposed, Whole, NoFile
<1>4. ToolKnows
      BY DEF UpdateInit, ToolKnows, NoTool, PublishedIsTested
<1>q. QED
      BY <1>1, <1>2, <1>3, <1>4 DEF UpdateInv

LEMMA PrepareInv ==
    ASSUME UpdateInv, NEW k \in Kinds, PrepareSteps(k)
    PROVE  ReportsTell' /\ ImageGuarded' /\ ToolKnows'
<1> USE DEF diskFiles
<1>0. UpdateTypeOK /\ ReportsTell /\ ImageGuarded /\ ToolKnows
      BY DEF UpdateInv
<1>1. CASE PrepareBegin(k)
      <2>1. ReportsTell' /\ ImageGuarded'
            BY <1>0, <1>1, GuardUnchanged DEF PrepareBegin, ReportsTell
      <2>2. tool'.does = "prepare" /\ tool'.kind = k /\ tool'.seen = image.content
            BY <1>1 DEF PrepareBegin, NoTool
      <2>3. k = "refresh" => EndsIn(image.content.menu, "console")
            BY <1>1 DEF PrepareBegin, Suits, SuitsRefresh
      <2>q. QED
            BY <2>1, <2>2, <2>3 DEF ToolKnows, PublishedIsTested
<1>2. CASE PrepareCopy(k) \/ PrepareInstall(k)
      <2>1. ReportsTell' /\ ImageGuarded'
            BY <1>0, <1>2, GuardUnchanged DEF PrepareCopy, PrepareInstall, ReportsTell
      <2>2. tool'.does = "prepare" /\ tool'.kind = k /\ tool'.seen = tool.seen /\ tool.kind = k
            BY <1>0, <1>2 DEF PrepareCopy, PrepareInstall, ToolAt, Goto, UpdateTypeOK, Tools
      <2>3. tool.does = "prepare"
            BY <1>2 DEF PrepareCopy, PrepareInstall, ToolAt
      <2>q. QED
            BY <1>0, <2>1, <2>2, <2>3 DEF ToolKnows, PublishedIsTested
<1>3. CASE PrepareReport(k)
      <2>1. tool.does = "prepare" /\ tool.kind = k
            BY <1>3 DEF PrepareReport, ToolAt
      <2>2. tool.seen \in Content
            BY <1>0 DEF UpdateTypeOK, Tools
      <2>3. tool.seen.menu \in Seq(Blocks)
            BY <2>2 DEF Content
      <2>4. /\ candidates[k].content.menu = MenuOf(k, tool.seen.menu)
            /\ candidates[k].content.user = tool.seen.user
            BY <1>3, <2>2 DEF PrepareReport, VerifiedCandidate, Content
      <2>5. /\ reports'[k].candidate = candidates[k].content
            /\ k = "refresh" => reports'[k].source = tool.seen
            /\ \A j \in Kinds \ {k} : reports'[j] = reports[j]
            BY <1>0, <1>3 DEF PrepareReport, UpdateTypeOK, Refreshing
      <2>6. ReportsTell'
            <3> DEFINE Tells(j) ==
                  /\ j \in {"direct", "cpu_safe", "diag"} => EndsIn(reports'[j].candidate.menu, j)
                  /\ j = "refresh" => /\ EndsIn(reports'[j].source.menu, "console")
                                      /\ reports'[j].candidate.menu = reports'[j].source.menu
                                      /\ reports'[j].candidate.user = reports'[j].source.user
            <3>1. k = "refresh" => EndsIn(tool.seen.menu, "console")
                  BY <1>0, <2>1 DEF ToolKnows
            <3>2. Tells(k)
                  BY <2>3, <2>4, <2>5, <3>1, MenuFacts
            <3>3. \A j \in Kinds \ {k} : reports'[j].made => Tells(j)
                  BY <1>0, <2>5 DEF ReportsTell
            <3>q. QED
                  BY <3>2, <3>3 DEF ReportsTell
      <2>7. ImageGuarded'
            BY <1>0, <1>3, GuardUnchanged DEF PrepareReport
      <2>8. ToolKnows'
            BY <1>3 DEF PrepareReport, ToolKnows, PublishedIsTested, NoTool
      <2>q. QED
            BY <2>6, <2>7, <2>8
<1>q. QED
      BY <1>1, <1>2, <1>3 DEF PrepareSteps

LEMMA PublishBeginInv ==
    ASSUME UpdateInv, NEW k \in Kinds \ {"console"}, PublishBegin(k)
    PROVE  ReportsTell' /\ ImageGuarded' /\ ToolKnows'
<1> USE DEF diskFiles
<1>0. UpdateTypeOK /\ ReportsTell /\ ImageGuarded /\ ToolKnows
      BY DEF UpdateInv
<1>1. ReportsTell' /\ ImageGuarded'
      BY <1>0, GuardUnchanged DEF PublishBegin, ReportsTell
<1>2. tool'.does = "publish" /\ tool'.kind = k /\ tool'.at = "save"
      BY DEF PublishBegin, NoTool
<1>3. Publishing(k)'
      BY <1>2 DEF PublishBegin, Publishing, BootTested, OriginalKept
<1>q. QED
      BY <1>1, <1>2, <1>3 DEF ToolKnows, PublishedIsTested

LEMMA PublishSaveInv ==
    ASSUME UpdateInv, NEW k \in Kinds \ {"console"}, PublishSave(k)
    PROVE  ReportsTell' /\ ImageGuarded' /\ ToolKnows'
<1>0. UpdateTypeOK /\ ReportsTell /\ ImageGuarded /\ ToolKnows
      BY DEF UpdateInv
<1>1. tool.does = "publish" /\ tool.kind = k /\ tool.at = "save" /\ Publishing(k)
      BY <1>0 DEF PublishSave, ToolAt, ToolKnows
<1>2. tool'.does = "publish" /\ tool'.kind = k /\ tool'.at = "sync"
      BY <1>0, <1>1 DEF PublishSave, Goto, UpdateTypeOK, Tools
<1>3. ReportsTell'
      BY <1>0 DEF PublishSave, ReportsTell
<1>4. ImageGuarded'
      <2>1. Kept(replaced) => Kept(replaced)'
            BY <1>1 DEF PublishSave, Publishing, Kept, Durable
      <2>q. QED
            BY <1>0, <2>1 DEF PublishSave, ImageGuarded, Exposed
<1>5. (k = "direct" => backup'.exists) /\ (k \in {"cpu_safe", "diag"} => staging'.exists)
      BY DEF PublishSave, File
<1>6. Publishing(k)'
      BY <1>1, <1>2, <1>5 DEF PublishSave, Publishing, BootTested
<1>q. QED
      BY <1>2, <1>3, <1>4, <1>6 DEF ToolKnows, PublishedIsTested

LEMMA PublishSyncInv ==
    ASSUME UpdateInv, NEW k \in Kinds \ {"console"}, PublishSync(k)
    PROVE  ReportsTell' /\ ImageGuarded' /\ ToolKnows'
<1>0. UpdateTypeOK /\ ReportsTell /\ ImageGuarded /\ ToolKnows
      BY DEF UpdateInv
<1>1. tool.does = "publish" /\ tool.kind = k /\ tool.at = "sync" /\ Publishing(k)
      BY <1>0 DEF PublishSync, ToolAt, ToolKnows
<1>2. tool'.does = "publish" /\ tool'.kind = k /\ tool'.at = "keep"
      BY <1>0, <1>1 DEF PublishSync, Goto, UpdateTypeOK, Tools
<1>3. k \in {"direct", "cpu_safe", "diag", "refresh"}
      BY UpdateAssumption
<1>4. /\ backup' = IF k = "direct" THEN Synced(backup) ELSE backup
      /\ staging' = IF k \in {"cpu_safe", "diag"} THEN Synced(staging) ELSE staging
      /\ candidates'[k] = IF k = "refresh" THEN Synced(candidates[k]) ELSE candidates[k]
      BY <1>0, <1>3 DEF PublishSync, MadeDurable, UpdateTypeOK
<1>5. /\ backup'.exists = backup.exists /\ backup'.content = backup.content
      /\ backup.synced => backup'.synced
      /\ staging'.exists = staging.exists /\ staging'.content = staging.content
      /\ candidates'[k].content = candidates[k].content
      /\ k = "direct" => backup'.synced
      /\ k \in {"cpu_safe", "diag"} => staging'.synced
      /\ k = "refresh" => candidates'[k].synced
      BY <1>0, <1>4 DEF Synced, UpdateTypeOK, Files
<1>6. ReportsTell'
      BY <1>0 DEF PublishSync, ReportsTell
<1>7. ImageGuarded'
      <2>1. Kept(replaced) => Kept(replaced)'
            BY <1>5 DEF PublishSync, Kept, Durable
      <2>q. QED
            BY <1>0, <2>1 DEF PublishSync, ImageGuarded, Exposed
<1>8. k = "refresh" => reports[k].source.user \subseteq candidates[k].content.user
      BY <1>0, <1>1 DEF PublishSync, ReportsTell, Publishing
<1>9. Publishing(k)'
      BY <1>1, <1>2, <1>5, <1>8 DEF PublishSync, LastLook, Publishing, BootTested, Durable
<1>q. QED
      BY <1>2, <1>6, <1>7, <1>9 DEF ToolKnows, PublishedIsTested

LEMMA PublishKeepInv ==
    ASSUME UpdateInv, NEW k \in Kinds \ {"console"}, PublishKeep(k)
    PROVE  ReportsTell' /\ ImageGuarded' /\ ToolKnows'
<1>0. UpdateTypeOK /\ ReportsTell /\ ImageGuarded /\ ToolKnows
      BY DEF UpdateInv
<1>1. tool.does = "publish" /\ tool.kind = k /\ tool.at = "keep" /\ Publishing(k)
      BY <1>0 DEF PublishKeep, ToolAt, ToolKnows
<1>2. tool'.does = "publish" /\ tool'.kind = k /\ tool'.at = "replace" /\ tool'.late = tool.late
      BY <1>0, <1>1 DEF PublishKeep, Goto, UpdateTypeOK, Tools
<1>3. ReportsTell'
      BY <1>0 DEF PublishKeep, ReportsTell
<1>4. /\ k \in {"cpu_safe", "diag"} => snapshots'[k] = staging
      /\ \A j \in Kinds : snapshots[j].exists => snapshots'[j] = snapshots[j]
      BY <1>0, <1>1 DEF PublishKeep, Publishing, UpdateTypeOK
<1>5. ImageGuarded'
      <2>1. Kept(replaced) => Kept(replaced)'
            BY <1>4 DEF PublishKeep, Kept, Durable
      <2>q. QED
            BY <1>0, <2>1 DEF PublishKeep, ImageGuarded, Exposed
<1>6. Publishing(k)'
      BY <1>1, <1>2, <1>4 DEF PublishKeep, Publishing, BootTested, Durable
<1>q. QED
      BY <1>2, <1>3, <1>5, <1>6 DEF ToolKnows, PublishedIsTested

(* The image replaced by a new loader is kept; a refresh replaces an image *)
(* that a power loss cannot harm by another.                               *)
LEMMA PublishReplaceInv ==
    ASSUME UpdateInv, NEW k \in Kinds \ {"console"}, PublishReplace(k)
    PROVE  ReportsTell' /\ ImageGuarded' /\ ToolKnows'
<1>0. UpdateTypeOK /\ ReportsTell /\ ImageGuarded /\ ToolKnows
      BY DEF UpdateInv
<1>1. tool.does = "publish" /\ tool.kind = k /\ tool.at = "replace" /\ Publishing(k)
      BY <1>0 DEF PublishReplace, ToolAt, ToolKnows
<1>2. tool'.does = "publish" /\ tool'.kind = k /\ tool'.at = "named"
      BY <1>0, <1>1 DEF PublishReplace, Goto, UpdateTypeOK, Tools
<1>3. k \in {"direct", "cpu_safe", "diag", "refresh"}
      BY UpdateAssumption
<1>4. ReportsTell'
      BY <1>0 DEF PublishReplace, ReportsTell
<1>5. /\ image'.content = candidates[k].content /\ image'.synced = candidates[k].synced
      /\ image'.before.content = image.content /\ image'.before.synced = image.synced
      BY DEF PublishReplace
<1>6. ASSUME k = "refresh" PROVE ImageGuarded'
      <2>1. EndsIn(image.content.menu, "console") /\ EndsIn(candidates[k].content.menu, "console")
            BY <1>0, <1>1, <1>6 DEF Publishing, ReportsTell
      <2>2. Whole(image.content) /\ Whole(candidates[k].content)
            BY <2>1 DEF Whole, EndsIn
      <2>3. image.synced /\ candidates[k].synced
            BY <1>0, <1>1, <1>6, <2>1 DEF ImageGuarded, Publishing
      <2>q. QED
            BY <1>5, <2>2, <2>3 DEF ImageGuarded, Exposed
<1>7. ASSUME k # "refresh" PROVE ImageGuarded'
      <2>1. Kept(reports[k].source)
            BY <1>1, <1>3, <1>7 DEF Publishing, Kept
      <2>2. Kept(replaced)'
            BY <2>1 DEF PublishReplace, Kept
      <2>3. EndsIn(candidates[k].content.menu, k)
            BY <1>0, <1>1, <1>3, <1>7 DEF Publishing, ReportsTell
      <2>4. ~EndsIn(candidates[k].content.menu, "console")
            BY <2>3 DEF EndsIn
      <2>q. QED
            BY <1>5, <2>2, <2>4 DEF ImageGuarded
<1>8. ImageGuarded'
      BY <1>6, <1>7
<1>9. Publishing(k)'
      BY <1>1, <1>2 DEF PublishReplace, Publishing, BootTested
<1>q. QED
      BY <1>2, <1>4, <1>8, <1>9 DEF ToolKnows, PublishedIsTested

LEMMA PublishDoneInv ==
    ASSUME UpdateInv, NEW k \in Kinds \ {"console"}, PublishDone(k)
    PROVE  ReportsTell' /\ ImageGuarded' /\ ToolKnows'
<1>0. UpdateTypeOK /\ ReportsTell /\ ImageGuarded /\ ToolKnows
      BY DEF UpdateInv
<1>1. tool.does = "publish" /\ tool.kind = k /\ BootTested(k)
      BY <1>0 DEF PublishDone, ToolAt, ToolKnows, Publishing
<1>2. /\ tool'.does \in {"published", "mismatch"} /\ tool'.kind = k /\ tool'.seen = image.content
      /\ tool'.does = "published" => image.content = reports[k].candidate
      BY DEF PublishDone, NoTool
<1>3. ReportsTell'
      BY <1>0 DEF PublishDone, ReportsTell
<1>4. ImageGuarded'
      <2>1. image'.content = image.content /\ image'.synced = image.synced /\ ~image'.before.exists
            BY <1>0 DEF PublishDone, UpdateTypeOK, NoFile
      <2>2. Kept(replaced)' = Kept(replaced)
            BY DEF PublishDone, Kept
      <2>q. QED
            BY <1>0, <2>1, <2>2 DEF ImageGuarded, Exposed
<1>5. PublishedIsTested'
      BY <1>1, <1>2 DEF PublishDone, PublishedIsTested, BootTested
<1>q. QED
      BY <1>2, <1>3, <1>4, <1>5 DEF ToolKnows

LEMMA PublishInv ==
    ASSUME UpdateInv, NEW k \in Kinds \ {"console"}, PublishSteps(k)
    PROVE  ReportsTell' /\ ImageGuarded' /\ ToolKnows'
BY PublishBeginInv, PublishSaveInv, PublishSyncInv, PublishKeepInv, PublishReplaceInv,
   PublishDoneInv DEF PublishSteps

-----------------------------------------------------------------------------
(* The emulator writes to the image while a command may be publishing.     *)
LEMMA EmulatorInv ==
    ASSUME UpdateInv, Boot
    PROVE  ReportsTell' /\ ImageGuarded' /\ ToolKnows'
<1>0. UpdateTypeOK /\ ReportsTell /\ ImageGuarded /\ ToolKnows
      BY DEF UpdateInv
<1>1. /\ image'.content.menu = image.content.menu /\ image'.synced = image.synced
      /\ image'.before = image.before
      BY <1>0 DEF Boot, UpdateTypeOK, Content
<1>2. /\ tool'.does = tool.does /\ tool'.kind = tool.kind /\ tool'.at = tool.at
      /\ tool'.seen = tool.seen
      /\ tool'.late = (tool.does = "publish" /\ tool.at \in {"keep", "replace"})
      BY <1>0 DEF Boot, UpdateTypeOK, Tools
<1>3. ReportsTell'
      BY <1>0 DEF Boot, ReportsTell
<1>4. ImageGuarded'
      <2>1. Kept(replaced)' = Kept(replaced)
            BY DEF Boot, Kept
      <2>q. QED
            BY <1>0, <1>1, <2>1 DEF ImageGuarded, Exposed, Whole
<1>5. ASSUME tool.does = "publish" PROVE Publishing(tool.kind)'
      <2> PICK k : k = tool.kind
          OBVIOUS
      <2>1. Publishing(k) /\ tool'.kind = k
            BY <1>0, <1>2, <1>5 DEF ToolKnows
      <2>2. Publishing(k)'
            BY <1>1, <1>2, <1>5, <2>1 DEF Boot, Publishing, BootTested
      <2>q. QED
            BY <2>1, <2>2
<1>6. PublishedIsTested'
      BY <1>0, <1>2 DEF Boot, ToolKnows, PublishedIsTested
<1>q. QED
      BY <1>0, <1>2, <1>3, <1>4, <1>5, <1>6 DEF ToolKnows

(* Someone boots the candidate that is being published.                    *)
LEMMA BootCandidateInv ==
    ASSUME UpdateInv, NEW k \in Kinds, BootCandidate(k)
    PROVE  ReportsTell' /\ ImageGuarded' /\ ToolKnows'
<1>0. UpdateTypeOK /\ ReportsTell /\ ImageGuarded /\ ToolKnows
      BY DEF UpdateInv
<1>1. ReportsTell' /\ ImageGuarded'
      BY <1>0, GuardUnchanged DEF BootCandidate, ReportsTell
<1>2. \A j \in Kinds : /\ candidates'[j].content.menu = candidates[j].content.menu
                       /\ candidates[j].content.user \subseteq candidates'[j].content.user
                       /\ candidates'[j].synced = candidates[j].synced
      <2> SUFFICES ASSUME NEW j \in Kinds
                   PROVE  /\ candidates'[j].content.menu = candidates[j].content.menu
                          /\ candidates[j].content.user \subseteq candidates'[j].content.user
                          /\ candidates'[j].synced = candidates[j].synced
          OBVIOUS
      <2>1. CASE j # k
            BY <1>0, <2>1 DEF BootCandidate, UpdateTypeOK
      <2>2. CASE j = k
            <3>1. candidates[k] \in Files /\ candidates[k].content \in Content
                  BY <1>0 DEF UpdateTypeOK, Files
            <3>2. candidates'[k] = [candidates[k] EXCEPT !.content.user = @ \union {"candidate"}]
                  BY <1>0 DEF BootCandidate, UpdateTypeOK
            <3>q. QED
                  BY <2>2, <3>1, <3>2 DEF Files, Content
      <2>q. QED
            BY <2>1, <2>2
<1>3. ASSUME tool.does = "publish" PROVE Publishing(tool.kind)'
      <2> PICK j \in Kinds : j = tool.kind
          BY <1>0 DEF UpdateTypeOK, Tools
      <2>1. Publishing(j) /\ tool'.kind = j
            BY <1>0, <1>3 DEF ToolKnows, BootCandidate
      <2>2. Publishing(j)'
            BY <1>2, <2>1 DEF BootCandidate, Publishing, BootTested
      <2>q. QED
            BY <2>1, <2>2
<1>q. QED
      BY <1>0, <1>1, <1>3 DEF BootCandidate, ToolKnows, PublishedIsTested

(* A candidate that was tested is not tested again.                        *)
LEMMA BootTestInv ==
    ASSUME UpdateInv, NEW k \in Kinds, NEW ok \in BOOLEAN, BootTest(k, ok)
    PROVE  ReportsTell' /\ ImageGuarded' /\ ToolKnows'
<1> USE DEF diskFiles
<1>0. UpdateTypeOK /\ ReportsTell /\ ImageGuarded /\ ToolKnows
      BY DEF UpdateInv
<1>1. ReportsTell' /\ ImageGuarded'
      BY <1>0, GuardUnchanged DEF BootTest, ReportsTell
<1>2. \A j \in Kinds : tested[j].ok => tested'[j] = tested[j]
      <2>1. ~tested[k].ok
            <3>1. tested[k] = NotTested
                  BY DEF BootTest
            <3>2. ~NotTested.ok
                  BY DEF NotTested
            <3>q. QED
                  BY <3>1, <3>2
      <2>2. \A j \in Kinds \ {k} : tested'[j] = tested[j]
            BY <1>0 DEF BootTest, UpdateTypeOK
      <2>q. QED
            BY <2>1, <2>2
<1>3. ASSUME tool.does = "publish" PROVE Publishing(tool.kind)'
      <2> PICK j \in Kinds : j = tool.kind
          BY <1>0 DEF UpdateTypeOK, Tools
      <2>1. Publishing(j) /\ tool'.kind = j
            BY <1>0, <1>3 DEF ToolKnows, BootTest
      <2>2. Publishing(j)'
            BY <1>2, <2>1 DEF BootTest, Publishing, BootTested
      <2>q. QED
            BY <2>1, <2>2
<1>4. PublishedIsTested'
      <2>1. tool.kind \in Kinds /\ tool' = tool
            BY <1>0 DEF UpdateTypeOK, Tools, BootTest
      <2>q. QED
            BY <1>0, <1>2, <2>1 DEF ToolKnows, PublishedIsTested
<1>q. QED
      BY <1>0, <1>1, <1>3, <1>4 DEF BootTest, ToolKnows

LEMMA OtherInv ==
    ASSUME UpdateInv, \/ CommandOver \/ CommandFails \/ Close \/ Build \/ BuildDone
                      \/ \E k \in Kinds : Discard(k)
    PROVE  ReportsTell' /\ ImageGuarded' /\ ToolKnows'
<1> USE DEF diskFiles
<1>0. UpdateTypeOK /\ ReportsTell /\ ImageGuarded /\ ToolKnows
      BY DEF UpdateInv
<1>1. ImageGuarded'
      BY <1>0, GuardUnchanged DEF CommandOver, CommandFails, Close, Build, BuildDone, Discard
<1>2. CASE CommandOver \/ CommandFails
      <2>0. reports' = reports /\ tool' = NoTool
            BY <1>2 DEF CommandOver, CommandFails
      <2>1. reports' = reports /\ tool'.does = "nothing"
            BY <2>0, ToolFacts
      <2>2. ReportsTell'
            BY <1>0, <2>1 DEF ReportsTell
      <2>3. ToolKnows'
            BY <2>1 DEF ToolKnows, PublishedIsTested
      <2>q. QED
            BY <1>1, <2>2, <2>3
<1>3. CASE Close \/ Build \/ BuildDone
      <2>1. UNCHANGED <<image, candidates, backup, snapshots, staging, reports, tested, tool>>
            BY <1>3 DEF Close, Build, BuildDone
      <2>q. QED
            <3>1. ReportsTell'
                  BY <1>0, <2>1 DEF ReportsTell
            <3>2. ToolKnows'
                  BY <1>0, <2>1, ToolKnowsKept
            <3>q. QED
                  BY <1>1, <3>1, <3>2
<1>4. ASSUME NEW k \in Kinds, Discard(k) PROVE ReportsTell' /\ ToolKnows'
      <2>1. \A j \in Kinds : reports'[j].made => reports'[j] = reports[j] /\ reports[j].made
            BY <1>0, <1>4 DEF Discard, NoReport, UpdateTypeOK
      <2>2. ReportsTell'
            BY <1>0, <2>1 DEF ReportsTell
      <2>3. tool' = NoTool
            BY <1>4 DEF Discard
      <2>q. QED
            BY <2>2, <2>3, ToolFacts DEF ToolKnows, PublishedIsTested
<1>q. QED
      BY <1>1, <1>2, <1>3, <1>4

(* A power loss tears an image only when it was exposed, and no copy that  *)
(* was made durable.                                                       *)
LEMMA PowerLossInv ==
    ASSUME UpdateInv, PowerLoss
    PROVE  ReportsTell' /\ ImageGuarded' /\ ToolKnows'
<1>0. UpdateTypeOK /\ ReportsTell /\ ImageGuarded /\ ToolKnows
      BY DEF UpdateInv
<1>1. ReportsTell' /\ ToolKnows'
      <2>1. reports' = reports /\ tool'.does = "nothing"
            BY ToolFacts DEF PowerLoss
      <2>2. ReportsTell'
            BY <1>0, <2>1 DEF ReportsTell
      <2>3. ToolKnows'
            BY <2>1 DEF ToolKnows, PublishedIsTested
      <2>q. QED
            BY <2>2, <2>3
<1>2. \A f \in Files : f.synced => AfterLoss(f) = {f}
      BY DEF AfterLoss
<1>3. Kept(replaced) => Kept(replaced)'
      <2>0. backup' \in AfterLoss(backup) /\ snapshots' = snapshots /\ replaced' = replaced
            BY DEF PowerLoss
      <2>1. backup.synced => backup' = backup
            <3>1. backup \in Files
                  BY <1>0 DEF UpdateTypeOK
            <3>q. QED
                  BY <1>2, <2>0, <3>1
      <2>q. QED
            BY <2>0, <2>1 DEF Kept, Durable
<1>4. image'.synced /\ ~image'.before.exists
      <2>1. PICK c : image' = [content |-> c, synced |-> TRUE, before |-> NoFile]
            BY DEF PowerLoss
      <2>2. ~NoFile.exists
            BY DEF NoFile
      <2>q. QED
            BY <2>1, <2>2
<1>5. ASSUME ~Exposed PROVE Whole(image'.content)
      <2> DEFINE now == [content |-> image.content, synced |-> image.synced, exists |-> TRUE]
      <2>1. image.content \in Content /\ image.synced \in BOOLEAN /\ image.before \in Files
            BY <1>0 DEF UpdateTypeOK
      <2>2. now \in Files /\ now.synced /\ Whole(now.content)
            BY <1>5, <2>1 DEF Files, Exposed
      <2>3. image.before.exists => image.before.synced /\ Whole(image.before.content)
            BY <1>5 DEF Exposed
      <2> HIDE DEF now
      <2>4. PICK g \in {now, image.before} :
              (g = now \/ image.before.exists) /\ \E f \in AfterLoss(g) : image'.content = f.content
            <3>1. PICK keepName \in IF image.before.exists THEN BOOLEAN ELSE {TRUE} :
                    \E f \in AfterLoss(IF keepName THEN now ELSE image.before) :
                      image' = [content |-> f.content, synced |-> TRUE, before |-> NoFile]
                  BY DEF PowerLoss, now
            <3>2. PICK f \in AfterLoss(IF keepName THEN now ELSE image.before) :
                    image' = [content |-> f.content, synced |-> TRUE, before |-> NoFile]
                  BY <3>1
            <3>3. image'.content = f.content
                  BY <3>2
            <3>4. CASE keepName
                  BY <3>2, <3>3, <3>4
            <3>5. CASE ~keepName
                  <4>1. image.before.exists
                        BY <3>5
                  <4>q. QED
                        BY <3>2, <3>3, <3>5, <4>1
            <3>q. QED
                  BY <3>4, <3>5
      <2>5. g \in Files /\ g.synced /\ Whole(g.content)
            BY <2>1, <2>2, <2>3, <2>4
      <2>q. QED
            BY <1>2, <2>4, <2>5
<1>6. ImageGuarded'
      BY <1>0, <1>3, <1>4, <1>5 DEF ImageGuarded, Exposed
<1>q. QED
      BY <1>1, <1>6

LEMMA UpdateNextInv == UpdateInv /\ [UpdateNext]_updateVars => UpdateInv'
<1> SUFFICES ASSUME UpdateInv, [UpdateNext]_updateVars PROVE UpdateInv'
    OBVIOUS
<1>0. UpdateTypeOK
      BY DEF UpdateInv
<1>1. ASSUME NEW k \in Kinds, PrepareSteps(k) PROVE UpdateInv'
      BY <1>0, <1>1, PrepareTypes, PrepareInv DEF UpdateInv
<1>2. ASSUME NEW k \in Kinds \ {"console"}, PublishSteps(k) PROVE UpdateInv'
      BY <1>0, <1>2, PublishTypes, PublishInv DEF UpdateInv
<1>3. ASSUME NEW k \in Kinds, BootCandidate(k) \/ Discard(k) \/ \E ok \in BOOLEAN : BootTest(k, ok)
      PROVE  UpdateInv'
      BY <1>0, <1>3, OtherTypes, BootCandidateInv, BootTestInv, OtherInv DEF UpdateInv
<1>4. CASE CommandOver \/ CommandFails \/ Boot \/ Close \/ Build \/ BuildDone
      BY <1>0, <1>4, OtherTypes, OtherInv, EmulatorInv DEF UpdateInv
<1>5. CASE PowerLoss
      BY <1>0, <1>5, PowerLossTypes, PowerLossInv DEF UpdateInv
<1>6. CASE UNCHANGED updateVars
      <2>1. UNCHANGED <<image, candidates, backup, snapshots, staging, reports, tested, artifact,
                        manifest, tool, replaced>>
            BY <1>6 DEF updateVars, diskFiles
      <2>0. UpdateTypeOK /\ ReportsTell /\ ImageGuarded /\ ToolKnows
            BY <1>0 DEF UpdateInv
      <2>2. UpdateTypeOK'
            BY <2>0, <2>1 DEF UpdateTypeOK
      <2>3. ReportsTell' /\ ImageGuarded'
            <3>1. ReportsTell'
                  BY <2>0, <2>1 DEF ReportsTell
            <3>q. QED
                  BY <2>0, <2>1, <3>1, GuardUnchanged
      <2>4. ToolKnows'
            BY <2>0, <2>1, ToolKnowsKept
      <2>q. QED
            BY <2>2, <2>3, <2>4 DEF UpdateInv
<1>7. ASSUME \/ prepare \/ prepare_update \/ prepare_diagnostics \/ prepare_console
             \/ prepare_existing_menu_candidate
      PROVE  UpdateInv'
      BY <1>1, <1>7 DEF prepare, prepare_update, prepare_diagnostics, prepare_console,
                        prepare_existing_menu_candidate, PrepareSteps
<1>8. ASSUME publish \/ publish_update \/ publish_diagnostics \/ publish_refreshed_candidate
      PROVE  UpdateInv'
      BY <1>2, <1>8 DEF publish, publish_update, publish_diagnostics, publish_refreshed_candidate,
                        PublishSteps
<1>q. QED
      BY <1>3, <1>4, <1>5, <1>6, <1>7, <1>8 DEF UpdateNext

(* Whenever the power fails during an update the image, or the image it    *)
(* replaced, is whole, and a command only reports as published the image   *)
(* that was boot-tested.                                                   *)
THEOREM UpdateIsSurvivable == UpdateSpec => []UpdateSurvivable
<1>1. UpdateInv => UpdateSurvivable
      <2> SUFFICES ASSUME UpdateInv PROVE UpdateSurvivable
          OBVIOUS
      <2>1. image.content = Torn => Kept(replaced)
            BY TornFacts DEF UpdateInv, ImageGuarded, Exposed
      <2>q. QED
            BY <2>1 DEF UpdateInv, ToolKnows, UpdateSurvivable, PowerLossSurvivable, Kept, Durable
<1>q. QED
      BY UpdateInitInv, UpdateNextInv, <1>1, PTL DEF UpdateSpec

LEMMA ReplaceOnly ==
    ASSUME UpdateTypeOK, UpdateNext, tool.does = "publish", tool.kind = "refresh",
           tool.at = "replace", tool'.at = "named"
    PROVE  PublishReplace("refresh")
<1> USE DEF ToolAt
<1>0. tool # NoTool /\ NoTool.at = "idle"
      BY ToolFacts
<1>1. ~CommandOver /\ ~CommandFails /\ ~PowerLoss
      BY <1>0 DEF CommandOver, CommandFails, PowerLoss
<1>2. ~Boot
      BY DEF Boot, UpdateTypeOK, Tools
<1>3. ~Close /\ ~Build /\ ~BuildDone
      BY DEF Close, Build, BuildDone
<1>4. \A k \in Kinds : ~(BootCandidate(k) \/ Discard(k) \/ \E ok \in BOOLEAN : BootTest(k, ok))
      BY <1>0 DEF BootCandidate, Discard, BootTest
<1>5. \A k \in Kinds : ~PrepareSteps(k)
      BY <1>0 DEF PrepareSteps, PrepareBegin, PrepareCopy, PrepareInstall, PrepareReport
<1>6. \A k \in Kinds : PublishSteps(k) => PublishReplace("refresh")
      BY <1>0 DEF PublishSteps, PublishBegin, PublishSave, PublishSync, PublishKeep, PublishReplace,
                  PublishDone
<1>7. ~(prepare \/ prepare_update \/ prepare_diagnostics \/ prepare_console
         \/ prepare_existing_menu_candidate)
      BY <1>5 DEF prepare, prepare_update, prepare_diagnostics, prepare_console,
                  prepare_existing_menu_candidate, PrepareSteps
<1>8. publish \/ publish_update \/ publish_diagnostics \/ publish_refreshed_candidate
      BY <1>1, <1>2, <1>3, <1>4, <1>7 DEF UpdateNext
<1>q. QED
      BY <1>6, <1>8 DEF publish, publish_update, publish_diagnostics, publish_refreshed_candidate,
                        PublishSteps

(* A refresh that replaces the image keeps every file the emulator wrote   *)
(* to it before the tool looked at it for the last time.                   *)
THEOREM RefreshKeepsAllWrites == UpdateSpec => [][RefreshKeepsWrites]_updateVars
<1>1. UpdateInv /\ [UpdateNext]_updateVars => [RefreshKeepsWrites]_updateVars
      <2> SUFFICES ASSUME UpdateInv, UpdateNext, ToolAt("publish", "refresh", "replace"),
                          tool'.at = "named", ~tool.late
                   PROVE  image.content.user \subseteq image'.content.user
          BY DEF RefreshKeepsWrites
      <2>1. tool.does = "publish" /\ tool.kind = "refresh" /\ tool.at = "replace" /\ Publishing("refresh")
            BY DEF ToolAt, UpdateInv, ToolKnows
      <2>2. PublishReplace("refresh")
            BY <2>1, ReplaceOnly DEF UpdateInv
      <2>q. QED
            BY <2>1, <2>2 DEF PublishReplace, Publishing
<1>q. QED
      BY UpdateInitInv, UpdateNextInv, <1>1, PTL DEF UpdateSpec
=============================================================================
