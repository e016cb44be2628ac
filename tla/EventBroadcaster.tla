-------------------------- MODULE EventBroadcaster --------------------------
(***************************************************************************)
(* The event broadcaster (Kernel/Source/src/event_broadcaster.cpp): any    *)
(* context queues a broadcast and signals an auto-reset header; the pump   *)
(* thread pops it, snapshots the ids of the interested subscribers, and    *)
(* looks each one up again before it calls it without the lock.  Critical  *)
(* sections of s_queueLock and s_subscribersLock are single steps; what    *)
(* can come between two of them can come between two steps.                *)
(***************************************************************************)
EXTENDS Integers, SequencesExt

CONSTANTS
    Source, Caller,          \* event sources; threads other than the pump
    kEventQueueCapacity, kMaxFanOut,
    MaxToken                 \* bound: registrations of one behaviour

ASSUME BroadcastAssumption ==
    kEventQueueCapacity \in Nat /\ kMaxFanOut \in Nat /\ MaxToken \in Nat

VARIABLES
    s_queue,        \* sources of the queued records, oldest first
    pumpWake,       \* s_pumpWake: signalled, and whether the pump waits on it
    s_subscribers,  \* the subscriber list, in order of registration
    s_nextTokenId,
    pump,           \* the pump thread: pc, record, ids still to dispatch
    caller,         \* a caller: idle, about to signal, or in the wait loop
    unregistered    \* tokens whose unregistration returned to its caller

broadcastVars ==
    <<s_queue, pumpWake, s_subscribers, s_nextTokenId, pump, caller, unregistered>>

EventSubscriber ==
    [id : 1..MaxToken, source : Source, dead : BOOLEAN, activeCalls : 0..1]
PumpState ==
    [pc : {"pop", "wait", "asleep", "snapshot", "next", "callback", "signal"},
     record : Source, ids : Seq(1..MaxToken)]
CallerState == [pc : {"idle", "signal", "drain"}, id : 0..MaxToken]

(* FindSubscriberLocked, as a set of one or no position, and the node that *)
(* a loop over the list erases.                                            *)
Find(id) == {k \in DOMAIN s_subscribers : s_subscribers[k].id = id}
Erase(k) == RemoveAt(s_subscribers, k)
Erased(id) ==
    IF Find(id) = {} THEN s_subscribers ELSE Erase(CHOOSE k \in Find(id) : TRUE)
Registered == {s_subscribers[k].id : k \in DOMAIN s_subscribers}

BroadcastInit ==
    /\ s_queue = <<>> /\ s_subscribers = <<>> /\ s_nextTokenId = 1
    /\ pumpWake = [signalled |-> TRUE, waiting |-> FALSE]
    /\ pump \in [pc : {"pop"}, record : Source, ids : {<<>>}]
    /\ caller = [c \in Caller |-> [pc |-> "idle", id |-> 0]]
    /\ unregistered = {}

-----------------------------------------------------------------------------
(* KE_EVENT_Signal on the auto-reset s_pumpWake.                           *)
SignalPump ==
    pumpWake' = [signalled |-> ~pumpWake.waiting, waiting |-> FALSE]

HasRoom == Len(s_queue) < kEventQueueCapacity

(* broadcast: queue the record, then signal; a full queue drops the record *)
(* and returns.  The pump may broadcast from within a callback.            *)
Enqueue(s) ==
    /\ HasRoom
    /\ s_queue' = Append(s_queue, s)
    /\ UNCHANGED <<pumpWake, s_subscribers, s_nextTokenId, unregistered>>

Broadcast(c, s) ==
    /\ caller[c].pc = "idle" /\ caller' = [caller EXCEPT ![c].pc = "signal"]
    /\ Enqueue(s) /\ UNCHANGED pump

BroadcastFromCallback(s) ==
    /\ pump.pc = "callback" /\ pump' = [pump EXCEPT !.pc = "signal"]
    /\ Enqueue(s) /\ UNCHANGED caller

BroadcastSignal(c) ==
    /\ caller[c].pc = "signal" /\ caller' = [caller EXCEPT ![c].pc = "idle"]
    /\ SignalPump
    /\ UNCHANGED <<s_queue, s_subscribers, s_nextTokenId, pump, unregistered>>

CallbackSignal ==
    /\ pump.pc = "signal" /\ pump' = [pump EXCEPT !.pc = "callback"]
    /\ SignalPump
    /\ UNCHANGED <<s_queue, s_subscribers, s_nextTokenId, caller, unregistered>>

(* KE_EVENT_RegisterInterest, by a caller or by the running callback.      *)
RegisterInterest(s) ==
    /\ s_nextTokenId <= MaxToken
    /\ \/ pump.pc = "callback"
       \/ \E c \in Caller : caller[c].pc = "idle"
    /\ s_subscribers' = Append(s_subscribers,
          [id |-> s_nextTokenId, source |-> s, dead |-> FALSE, activeCalls |-> 0])
    /\ s_nextTokenId' = s_nextTokenId + 1
    /\ UNCHANGED <<s_queue, pumpWake, pump, caller, unregistered>>

-----------------------------------------------------------------------------
(* KE_EVENT_UnregisterInterest.  The token is moved out of its holder, so  *)
(* an id is unregistered once: it must not be dead yet.                    *)
Unregisterable(id) ==
    \E k \in Find(id) : ~s_subscribers[k].dead

(* The callback unregisters the token it runs for: only marked dead.       *)
UnregisterSelf ==
    LET id == Head(pump.ids) IN
    /\ pump.pc = "callback" /\ Unregisterable(id)
    /\ \E k \in Find(id) : s_subscribers' = [s_subscribers EXCEPT ![k].dead = TRUE]
    /\ UNCHANGED <<s_queue, pumpWake, s_nextTokenId, pump, caller, unregistered>>

(* Nobody is in its callback: erased at once.                              *)
UnregisterIdle(id) ==
    /\ \/ \E c \in Caller : caller[c].pc = "idle"
       \/ pump.pc = "callback" /\ Head(pump.ids) # id
    /\ Unregisterable(id)
    /\ \E k \in Find(id) :
          s_subscribers[k].activeCalls = 0 /\ s_subscribers' = Erase(k)
    /\ unregistered' = unregistered \cup {id}
    /\ UNCHANGED <<s_queue, pumpWake, s_nextTokenId, pump, caller>>

(* Its callback runs: marked dead, then the caller yields and looks again. *)
UnregisterBusy(c, id) ==
    /\ caller[c].pc = "idle" /\ Unregisterable(id)
    /\ \E k \in Find(id) :
          /\ s_subscribers[k].activeCalls > 0
          /\ s_subscribers' = [s_subscribers EXCEPT ![k].dead = TRUE]
    /\ caller' = [caller EXCEPT ![c] = [pc |-> "drain", id |-> id]]
    /\ UNCHANGED <<s_queue, pumpWake, s_nextTokenId, pump, unregistered>>

(* Faulty variant: a subscriber that was reaped meanwhile is waited for.   *)
MayLeaveFound(id) == \E k \in Find(id) : s_subscribers[k].activeCalls = 0
MayLeave(id) == \A k \in Find(id) : s_subscribers[k].activeCalls = 0

UnregisterLoop(c) ==
    LET id == caller[c].id IN
    /\ caller[c].pc = "drain" /\ MayLeave(id)
    /\ s_subscribers' = Erased(id)
    /\ caller' = [caller EXCEPT ![c] = [pc |-> "idle", id |-> 0]]
    /\ unregistered' = unregistered \cup {id}
    /\ UNCHANGED <<s_queue, pumpWake, s_nextTokenId, pump>>

-----------------------------------------------------------------------------
PumpTo(pc) == pump' = [pump EXCEPT !.pc = pc]

(* EventThread: PopRecord, or wait on the header when the queue is empty.  *)
PopBroadcast ==
    /\ pump.pc = "pop"
    /\ \/ s_queue = <<>> /\ PumpTo("wait") /\ UNCHANGED s_queue
       \/ /\ s_queue # <<>> /\ s_queue' = Tail(s_queue)
          /\ pump' = [pump EXCEPT !.pc = "snapshot", !.record = Head(s_queue)]
    /\ UNCHANGED <<pumpWake, s_subscribers, s_nextTokenId, caller, unregistered>>

WaitForHeader ==
    \/ /\ pumpWake.signalled /\ PumpTo("pop")
       /\ pumpWake' = [pumpWake EXCEPT !.signalled = FALSE]
    \/ /\ ~pumpWake.signalled /\ PumpTo("asleep")
       /\ pumpWake' = [pumpWake EXCEPT !.waiting = TRUE]

PumpWait ==
    /\ \/ pump.pc = "wait" /\ WaitForHeader
       \/ pump.pc = "asleep" /\ ~pumpWake.waiting /\ PumpTo("pop") /\ UNCHANGED pumpWake
    /\ UNCHANGED <<s_queue, s_subscribers, s_nextTokenId, caller, unregistered>>

(* Dispatch: the ids of the live subscribers of the source, at most        *)
(* kMaxFanOut of them ...                                                  *)
Wants(s) ==
    LET Wanted(k) == ~s_subscribers[k].dead /\ s_subscribers[k].source = s
        ids[k \in 0..Len(s_subscribers)] ==
          IF k = 0 THEN <<>>
          ELSE IF Wanted(k) /\ Len(ids[k - 1]) < kMaxFanOut
          THEN Append(ids[k - 1], s_subscribers[k].id) ELSE ids[k - 1]
    IN  ids[Len(s_subscribers)]

Snapshot ==
    /\ pump.pc = "snapshot"
    /\ pump' = [pump EXCEPT !.pc = "next", !.ids = Wants(pump.record)]
    /\ UNCHANGED <<s_queue, pumpWake, s_subscribers, s_nextTokenId, caller, unregistered>>

(* Faulty variant: the subscriber is called without being looked up again. *)
StillWantedStale(id) == TRUE
StillWanted(id) == \E k \in Find(id) : ~s_subscribers[k].dead

SkipId == pump' = [pump EXCEPT !.ids = Tail(@)]

(* ... each looked up again, pinned and called ...                         *)
DispatchNextId ==
    /\ pump.pc = "next"
    /\ \/ pump.ids = <<>> /\ PumpTo("pop") /\ UNCHANGED s_subscribers
       \/ /\ pump.ids # <<>> /\ ~StillWanted(Head(pump.ids))
          /\ SkipId /\ UNCHANGED s_subscribers
       \/ /\ pump.ids # <<>> /\ StillWanted(Head(pump.ids)) /\ PumpTo("callback")
          /\ s_subscribers' = [k \in DOMAIN s_subscribers |->
                IF k \in Find(Head(pump.ids))
                THEN [s_subscribers[k] EXCEPT !.activeCalls = @ + 1]
                ELSE s_subscribers[k]]
    /\ UNCHANGED <<s_queue, pumpWake, s_nextTokenId, caller, unregistered>>

(* ReleaseSubscriberLocked: drop the pin, reap a dead subscriber.          *)
ReleaseSubscriberLocked(id) ==
    IF \E k \in Find(id) : s_subscribers[k].dead /\ s_subscribers[k].activeCalls <= 1
    THEN Erased(id)
    ELSE [k \in DOMAIN s_subscribers |->
             IF k \in Find(id) /\ s_subscribers[k].activeCalls > 0
             THEN [s_subscribers[k] EXCEPT !.activeCalls = @ - 1] ELSE s_subscribers[k]]

(* ... and released when the callback returns.                             *)
CallbackReturns ==
    /\ pump.pc = "callback"
    /\ s_subscribers' = ReleaseSubscriberLocked(Head(pump.ids))
    /\ pump' = [pump EXCEPT !.pc = "next", !.ids = Tail(@)]
    /\ UNCHANGED <<s_queue, pumpWake, s_nextTokenId, caller, unregistered>>

-----------------------------------------------------------------------------
PumpThread ==
    PopBroadcast \/ PumpWait \/ Snapshot \/ DispatchNextId \/ CallbackSignal

BroadcastNext ==
    \/ PumpThread \/ CallbackReturns \/ UnregisterSelf
    \/ \E s \in Source : RegisterInterest(s) \/ BroadcastFromCallback(s)
    \/ \E id \in Registered :
          UnregisterIdle(id) \/ \E c \in Caller : UnregisterBusy(c, id)
    \/ \E c \in Caller :
          \/ BroadcastSignal(c) \/ UnregisterLoop(c)
          \/ \E s \in Source : Broadcast(c, s)

(* The pump and the callers keep running, and a callback returns in the    *)
(* end; what a callback may do before is not bounded, hence SF.            *)
BroadcastFairness ==
    /\ WF_broadcastVars(PumpThread) /\ SF_broadcastVars(CallbackReturns)
    /\ \A c \in Caller :
          WF_broadcastVars(BroadcastSignal(c)) /\ SF_broadcastVars(UnregisterLoop(c))

BroadcastSpec == BroadcastInit /\ [][BroadcastNext]_broadcastVars /\ BroadcastFairness

-----------------------------------------------------------------------------
BroadcastTypeOK ==
    /\ s_queue \in Seq(Source) /\ Len(s_queue) <= kEventQueueCapacity
    /\ pumpWake \in [signalled : BOOLEAN, waiting : BOOLEAN]
    /\ s_subscribers \in Seq(EventSubscriber)
    /\ s_nextTokenId \in 1..(MaxToken + 1)
    /\ pump \in PumpState /\ caller \in [Caller -> CallerState]
    /\ unregistered \subseteq 1..MaxToken

(* "once this function returns the caller is guaranteed no callback for    *)
(* this token is running or can start" (event_broadcaster.cpp:331-334):    *)
(* the pump is never inside the callback of an unregistered token.         *)
NoCallbackAfterUnregister ==
    pump.pc \in {"callback", "signal"} => Head(pump.ids) \notin unregistered

(* A subscriber that was marked dead goes with its last callback: a dead   *)
(* one left behind would hold its buffer for ever, and its id is freed     *)
(* for no later token.                                                     *)
DeadOnlyWhileCalled ==
    \A k \in DOMAIN s_subscribers :
        s_subscribers[k].dead =>
            /\ s_subscribers[k].activeCalls > 0
            /\ pump.pc \in {"callback", "signal"} /\ Head(pump.ids) = s_subscribers[k].id

(* The pump does not sleep beside a queued broadcast unless the one who    *)
(* queued it is about to signal.                                           *)
NoStrandedBroadcast ==
    pumpWake.waiting /\ s_queue # <<>> => \E c \in Caller : caller[c].pc = "signal"

(* Every unregistration returns and every queued broadcast is taken up.    *)
UnregisterReturns == \A c \in Caller : caller[c].pc = "drain" ~> caller[c].pc = "idle"
BroadcastsDelivered == s_queue # <<>> ~> pump.pc = "snapshot"

(* What users of the event broadcaster rely on: a subscriber that has      *)
(* unregistered is never called again, entries are freed only when no      *)
(* callback runs, and nothing queued is left without a wake-up.            *)
BroadcastSafe ==
    /\ BroadcastTypeOK /\ NoCallbackAfterUnregister
    /\ DeadOnlyWhileCalled /\ NoStrandedBroadcast

(* Unregister always returns and every queued broadcast is taken up by the *)
(* pump.                                                                   *)
BroadcastProgress == UnregisterReturns /\ BroadcastsDelivered
=============================================================================
