------------------------------ MODULE EventSpec ------------------------------
(***************************************************************************)
(* What a dispatcher header promises its users, with every operation       *)
(* atomic (the comments of KDispatcherHeader.hpp and scheduler.hpp):       *)
(* manual-reset stays signalled and releases every waiter; auto-reset      *)
(* releases the oldest waiter or, with none waiting, remembers the signal. *)
(* A wait ends once it is granted or its deadline has passed, and a grant  *)
(* that comes before the return wins over the deadline.                    *)
(***************************************************************************)
EXTENDS Integers, Sequences

CONSTANTS Thread, Header, manualReset

VARIABLES
    flag,     \* flag[h]: the header is signalled
    queue,    \* queue[h]: the threads waiting for h, oldest first
    granted,  \* the threads released and not yet returned
    expired   \* the threads whose deadline passed, not yet returned

eventVars == <<flag, queue, granted, expired>>

Members(q) == {q[i] : i \in DOMAIN q}
Waiting == granted \cup UNION {Members(queue[h]) : h \in Header}

EventInit ==
    /\ flag \in [Header -> BOOLEAN]
    /\ queue = [h \in Header |-> <<>>]
    /\ granted = {} /\ expired = {}

(* A wait on a signalled header returns at once, consuming an auto-reset.  *)
Acquire(h) ==
    /\ flag[h]
    /\ flag' = [flag EXCEPT ![h] = manualReset[h]]
    /\ UNCHANGED <<queue, granted, expired>>

Join(t, h) ==
    /\ ~flag[h] /\ t \notin Waiting
    /\ queue' = [queue EXCEPT ![h] = Append(@, t)]
    /\ UNCHANGED <<flag, granted, expired>>

SignalAll(h) ==
    /\ granted' = granted \cup Members(queue[h])
    /\ queue' = [queue EXCEPT ![h] = <<>>]
    /\ flag' = [flag EXCEPT ![h] = manualReset[h]]
    /\ UNCHANGED expired

SignalOne(h) ==
    /\ ~manualReset[h]
    /\ \/ /\ queue[h] = <<>>
          /\ flag' = [flag EXCEPT ![h] = TRUE]
          /\ UNCHANGED <<queue, granted>>
       \/ /\ queue[h] # <<>>
          /\ granted' = granted \cup {Head(queue[h])}
          /\ queue' = [queue EXCEPT ![h] = Tail(@)]
          /\ UNCHANGED flag
    /\ UNCHANGED expired

ClearFlag(h) ==
    /\ flag' = [flag EXCEPT ![h] = FALSE]
    /\ UNCHANGED <<queue, granted, expired>>

Expire(t) ==
    /\ t \in Waiting \ granted
    /\ expired' = expired \cup {t}
    /\ UNCHANGED <<flag, queue, granted>>

(* A thread that was not granted still is in its queue, and leaves it.     *)
LeaveQueue(t) ==
    \E h \in Header : \E i \in DOMAIN queue[h] :
        /\ queue[h][i] = t
        /\ queue' = [queue EXCEPT ![h] = SubSeq(@, 1, i - 1) \o SubSeq(@, i + 1, Len(@))]

Return(t) ==
    /\ t \in granted \cup expired
    /\ granted' = granted \ {t}
    /\ expired' = expired \ {t}
    /\ IF t \in granted THEN UNCHANGED queue ELSE LeaveQueue(t)
    /\ UNCHANGED flag

EventNext ==
    \/ \E h \in Header : Acquire(h) \/ SignalAll(h) \/ SignalOne(h) \/ ClearFlag(h)
    \/ \E t \in Thread : Expire(t) \/ Return(t) \/ \E h \in Header : Join(t, h)

EventSpecification == EventInit /\ [][EventNext]_eventVars
=============================================================================
