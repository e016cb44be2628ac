--------------------------- MODULE BroadcastProofs ---------------------------
(***************************************************************************)
(* What the users of the event broadcaster rely on, for any callers and    *)
(* event sources: it never calls an unregistered subscriber, frees a       *)
(* subscriber only when no callback runs and strands no broadcast.         *)
(***************************************************************************)
EXTENDS EventBroadcaster, SeqLemmas

Calling == pump.pc \in {"callback", "signal"}

(* A list of subscribers beside the next token n, the unregistered tokens  *)
(* u, and the token h that is called, if c: tokens are used once, a        *)
(* registered one is not unregistered, and the only one that is pinned is  *)
(* the one that is called; a dead one is.                                  *)
ListOK(s, n, u, c, h) ==
    /\ s \in Seq(EventSubscriber) /\ n \in 1..(MaxToken + 1)
    /\ u \subseteq 1..MaxToken /\ \A x \in u : x < n
    /\ \A j, k \in 1..Len(s) : s[j].id = s[k].id => j = k
    /\ \A k \in 1..Len(s) : /\ s[k].id < n /\ s[k].id \notin u
                            /\ s[k].activeCalls > 0 => c /\ s[k].id = h
                            /\ s[k].dead => s[k].activeCalls > 0
    /\ c => \E k \in 1..Len(s) : s[k].id = h /\ s[k].activeCalls = 1

SomeoneSignals == \E c \in Caller : caller[c].pc = "signal"

PumpInv ==
    /\ pump \in PumpState /\ (Calling => pump.ids # <<>>)
    /\ pumpWake \in [signalled : BOOLEAN, waiting : BOOLEAN]
    /\ pumpWake.waiting => pump.pc = "asleep"
    /\ s_queue \in Seq(Source) /\ Len(s_queue) <= kEventQueueCapacity
    /\ s_queue # <<>> => \/ pump.pc # "wait" \/ pumpWake.signalled \/ SomeoneSignals
    /\ s_queue # <<>> => ~pumpWake.waiting \/ SomeoneSignals

CallersInv ==
    /\ caller \in [Caller -> CallerState]
    /\ \A c \in Caller : caller[c].pc = "drain" => caller[c].id # 0 /\ caller[c].id < s_nextTokenId

SubscribersInv == ListOK(s_subscribers, s_nextTokenId, unregistered, Calling, Head(pump.ids))

BroadcastInv == PumpInv /\ CallersInv /\ SubscribersInv

-----------------------------------------------------------------------------
(* The subscribers that are left when one is erased.                       *)
WithoutOne(r, s, k) ==
    /\ r \in Seq(EventSubscriber)
    /\ \A i, j \in 1..Len(r) : r[i].id = r[j].id => i = j
    /\ \A j \in 1..Len(r) : \E i \in 1..Len(s) : i # k /\ r[j] = s[i] /\ s[i].id # s[k].id
    /\ \A i \in 1..Len(s) : s[i].id # s[k].id => \E j \in 1..Len(r) : r[j] = s[i]

LEMMA Erasing ==
    ASSUME NEW s \in Seq(EventSubscriber), NEW k \in 1..Len(s),
           \A i, j \in 1..Len(s) : s[i].id = s[j].id => i = j
    PROVE  WithoutOne(RemoveAt(s, k), s, k)
<1> DEFINE r == RemoveAt(s, k)
           n == Len(s)
<1>1. n \in Nat /\ k \in 1..n
  OBVIOUS
<1>2. /\ r \in Seq(EventSubscriber) /\ Len(r) = n - 1
      /\ \A j \in 1..(n - 1) : r[j] = IF j < k THEN s[j] ELSE s[j + 1]
  BY DroppedElements DEF RemoveAt, Dropped
<1> HIDE DEF r, n
<1>3. ASSUME NEW j \in 1..Len(r)
      PROVE  /\ j \in 1..n /\ j + 1 \in 1..n
             /\ j < k => r[j] = s[j]
             /\ ~(j < k) => r[j] = s[j + 1]
  BY <1>1, <1>2
<1>4. \A i, j \in 1..Len(r) : r[i].id = r[j].id => i = j
  <2> SUFFICES ASSUME NEW i \in 1..Len(r), NEW j \in 1..Len(r), r[i].id = r[j].id
               PROVE  i = j
    OBVIOUS
  <2>1. i \in Int /\ j \in Int /\ k \in Int
    BY <1>1, <1>3
  <2>2. CASE i < k /\ j < k
    BY <1>3, <2>2 DEF n
  <2>3. CASE i < k /\ ~(j < k)
    <3>1. i \in 1..n /\ j + 1 \in 1..n /\ s[i].id = s[j + 1].id
      BY <1>3, <2>3
    <3>2. i = j + 1
      BY <3>1 DEF n
    <3> QED
      BY <2>1, <2>3, <3>2
  <2>4. CASE ~(i < k) /\ j < k
    <3>1. i + 1 \in 1..n /\ j \in 1..n /\ s[i + 1].id = s[j].id
      BY <1>3, <2>4
    <3>2. i + 1 = j
      BY <3>1 DEF n
    <3> QED
      BY <2>1, <2>4, <3>2
  <2>5. CASE ~(i < k) /\ ~(j < k)
    <3>1. i + 1 \in 1..n /\ j + 1 \in 1..n /\ s[i + 1].id = s[j + 1].id
      BY <1>3, <2>5
    <3>2. i + 1 = j + 1
      BY <3>1 DEF n
    <3> QED
      BY <2>1, <3>2
  <2> QED
    BY <2>2, <2>3, <2>4, <2>5
<1>5. ASSUME NEW j \in 1..Len(r)
      PROVE  \E i \in 1..n : i # k /\ r[j] = s[i]
  <2>1. j \in Int /\ k \in Int
    BY <1>1, <1>3
  <2>2. CASE j < k
    BY <1>3, <2>1, <2>2
  <2>3. CASE ~(j < k)
    <3>1. j + 1 # k
      BY <2>1, <2>3
    <3> QED
      BY <1>3, <2>3, <3>1
  <2> QED
    BY <2>2, <2>3
<1>6. ASSUME NEW i \in 1..n, i # k
      PROVE  \E j \in 1..Len(r) : r[j] = s[i]
  <2>1. CASE i < k
    BY <1>1, <1>2, <2>1
  <2>2. CASE ~(i < k)
    <3>1. i - 1 \in 1..(n - 1) /\ ~(i - 1 < k) /\ (i - 1) + 1 = i
      BY <1>1, <1>6, <2>2
    <3> QED
      BY <1>2, <3>1
  <2> QED
    BY <2>1, <2>2
<1>7. \A j \in 1..Len(r) : \E i \in 1..Len(s) : i # k /\ r[j] = s[i] /\ s[i].id # s[k].id
  BY <1>5 DEF n
<1>8. \A i \in 1..Len(s) : s[i].id # s[k].id => \E j \in 1..Len(r) : r[j] = s[i]
  BY <1>6 DEF n
<1> QED
  BY <1>2, <1>4, <1>7, <1>8 DEF r, WithoutOne

(* A subscriber that is not called is erased when it unregisters ...       *)
LEMMA ErasedIdle ==
    ASSUME NEW s, NEW n, NEW u, NEW c, NEW h, ListOK(s, n, u, c, h),
           NEW k \in 1..Len(s), s[k].activeCalls = 0
    PROVE  ListOK(RemoveAt(s, k), n, u \cup {s[k].id}, c, h)
<1> DEFINE r == RemoveAt(s, k)
<1>0. WithoutOne(r, s, k)
  BY Erasing DEF ListOK
<1>1. /\ r \in Seq(EventSubscriber)
      /\ \A i, j \in 1..Len(r) : r[i].id = r[j].id => i = j
      /\ \A j \in 1..Len(r) : \E i \in 1..Len(s) : i # k /\ r[j] = s[i] /\ s[i].id # s[k].id
      /\ \A i \in 1..Len(s) : s[i].id # s[k].id => \E j \in 1..Len(r) : r[j] = s[i]
  BY <1>0 DEF WithoutOne
<1>2. s[k] \in EventSubscriber /\ s[k].id < n /\ s[k].id \in 1..MaxToken
  <2>1. s[k] \in EventSubscriber /\ s[k].id < n
    BY DEF ListOK
  <2> QED
    BY <2>1 DEF EventSubscriber
<1>3. c => h # s[k].id
  <2> SUFFICES ASSUME c PROVE h # s[k].id
    OBVIOUS
  <2>1. PICK i \in 1..Len(s) : s[i].id = h /\ s[i].activeCalls = 1
    BY DEF ListOK
  <2>2. i # k
    BY <2>1
  <2> QED
    BY <2>1, <2>2 DEF ListOK
<1> HIDE DEF r
<1>4. ASSUME NEW j \in 1..Len(r)
      PROVE  /\ r[j].id < n /\ r[j].id \notin u \cup {s[k].id}
             /\ r[j].activeCalls > 0 => c /\ r[j].id = h
             /\ r[j].dead => r[j].activeCalls > 0
  <2>1. PICK i \in 1..Len(s) : r[j] = s[i] /\ s[i].id # s[k].id
    BY <1>1
  <2> QED
    BY <2>1 DEF ListOK
<1>5. c => \E j \in 1..Len(r) : r[j].id = h /\ r[j].activeCalls = 1
  <2> SUFFICES ASSUME c PROVE \E j \in 1..Len(r) : r[j].id = h /\ r[j].activeCalls = 1
    OBVIOUS
  <2>1. PICK i \in 1..Len(s) : s[i].id = h /\ s[i].activeCalls = 1
    BY DEF ListOK
  <2>2. PICK j \in 1..Len(r) : r[j] = s[i]
    BY <1>1, <1>3, <2>1
  <2> QED
    BY <2>1, <2>2
<1>6. u \cup {s[k].id} \subseteq 1..MaxToken /\ \A x \in u \cup {s[k].id} : x < n
  BY <1>2 DEF ListOK
<1>7. n \in 1..(MaxToken + 1)
  BY DEF ListOK
<1>8. ListOK(r, n, u \cup {s[k].id}, c, h)
  BY <1>1, <1>4, <1>5, <1>6, <1>7 DEF ListOK
<1> QED
  BY <1>8 DEF r

(* ... and a dead one when its callback returns.                           *)
LEMMA ErasedCalled ==
    ASSUME NEW s, NEW n, NEW u, NEW h, ListOK(s, n, u, TRUE, h),
           NEW k \in 1..Len(s), s[k].id = h, NEW g
    PROVE  ListOK(RemoveAt(s, k), n, u, FALSE, g)
<1> DEFINE r == RemoveAt(s, k)
<1>0. WithoutOne(r, s, k)
  BY Erasing DEF ListOK
<1>1. /\ r \in Seq(EventSubscriber)
      /\ \A i, j \in 1..Len(r) : r[i].id = r[j].id => i = j
      /\ \A j \in 1..Len(r) : \E i \in 1..Len(s) : i # k /\ r[j] = s[i] /\ s[i].id # s[k].id
  BY <1>0 DEF WithoutOne
<1> HIDE DEF r
<1>2. ASSUME NEW j \in 1..Len(r)
      PROVE  r[j].id < n /\ r[j].id \notin u /\ ~(r[j].activeCalls > 0) /\ ~r[j].dead
  <2>1. PICK i \in 1..Len(s) : r[j] = s[i] /\ s[i].id # s[k].id
    BY <1>1
  <2> QED
    BY <2>1 DEF ListOK
<1>3. ListOK(r, n, u, FALSE, g)
  BY <1>1, <1>2 DEF ListOK
<1> QED
  BY <1>3 DEF r

(* Marking one dead that is called, pinning the one to call, dropping the  *)
(* pin, and a new registration.                                            *)
LEMMA MarkedDead ==
    ASSUME NEW s, NEW n, NEW u, NEW c, NEW h, ListOK(s, n, u, c, h),
           NEW k \in 1..Len(s), s[k].activeCalls > 0
    PROVE  ListOK([s EXCEPT ![k].dead = TRUE], n, u, c, h)
<1> DEFINE r == [s EXCEPT ![k].dead = TRUE]
<1>1. s \in Seq(EventSubscriber) /\ Len(s) \in Nat
  BY DEF ListOK
<1>2. \A j \in 1..Len(s) : s[j] \in EventSubscriber
  BY <1>1
<1>3. [s[k] EXCEPT !.dead = TRUE] \in EventSubscriber
  BY <1>2 DEF EventSubscriber
<1>4. r \in Seq(EventSubscriber) /\ Len(r) = Len(s)
  BY <1>1, <1>3
<1>5. \A j \in 1..Len(s) : r[j].id = s[j].id /\ r[j].activeCalls = s[j].activeCalls
                           /\ (j # k => r[j].dead = s[j].dead)
  <2> TAKE j \in 1..Len(s)
  <2>1. CASE j = k
    <3>0. DOMAIN s = 1..Len(s) /\ k \in DOMAIN s
      BY <1>1
    <3>1. r[k] = [s[k] EXCEPT !.dead = TRUE]
      BY <3>0
    <3> QED
      BY <1>2, <2>1, <3>1 DEF EventSubscriber
  <2>2. CASE j # k
    BY <1>1, <2>2
  <2> QED
    BY <2>1, <2>2
<1> HIDE DEF r
<1>6. ListOK(r, n, u, c, h)
  BY <1>4, <1>5 DEF ListOK
<1> QED
  BY <1>6 DEF r

LEMMA Pinned ==
    ASSUME NEW s, NEW n, NEW u, NEW g, ListOK(s, n, u, FALSE, g), NEW h, NEW r,
           r = [k \in 1..Len(s) |-> IF s[k].id = h THEN [s[k] EXCEPT !.activeCalls = @ + 1] ELSE s[k]],
           \E k \in 1..Len(s) : s[k].id = h
    PROVE  ListOK(r, n, u, TRUE, h)
<1>1. s \in Seq(EventSubscriber) /\ Len(s) \in Nat
  BY DEF ListOK
<1>2. \A j \in 1..Len(s) : s[j] \in EventSubscriber /\ s[j].activeCalls = 0 /\ ~s[j].dead
  <2> TAKE j \in 1..Len(s)
  <2>1. s[j] \in EventSubscriber /\ ~(s[j].activeCalls > 0) /\ ~s[j].dead
    BY <1>1 DEF ListOK
  <2> QED
    BY <2>1 DEF EventSubscriber
<1>3. \A j \in 1..Len(s) : /\ r[j] \in EventSubscriber /\ r[j].id = s[j].id /\ ~r[j].dead
                           /\ r[j].activeCalls = IF s[j].id = h THEN 1 ELSE 0
  <2> TAKE j \in 1..Len(s)
  <2>1. CASE s[j].id = h
    <3>1. r[j] = [s[j] EXCEPT !.activeCalls = 0 + 1]
      BY <1>2, <2>1
    <3> QED
      BY <1>2, <2>1, <3>1 DEF EventSubscriber
  <2>2. CASE s[j].id # h
    BY <1>2, <2>2
  <2> QED
    BY <2>1, <2>2
<1>4. r \in Seq(EventSubscriber) /\ Len(r) = Len(s)
  BY <1>1, <1>3
<1>5. \E k \in 1..Len(r) : r[k].id = h /\ r[k].activeCalls = 1
  <2>1. PICK k \in 1..Len(s) : s[k].id = h
    OBVIOUS
  <2> QED
    BY <1>3, <1>4, <2>1
<1>6. \A k \in 1..Len(r) : /\ r[k].id < n /\ r[k].id \notin u /\ ~r[k].dead
                           /\ r[k].activeCalls > 0 => r[k].id = h
  BY <1>3, <1>4 DEF ListOK
<1>7. \A j, k \in 1..Len(r) : r[j].id = r[k].id => j = k
  BY <1>3, <1>4 DEF ListOK
<1> QED
  BY <1>4, <1>5, <1>6, <1>7 DEF ListOK

LEMMA Unpinned ==
    ASSUME NEW s, NEW n, NEW u, NEW h, ListOK(s, n, u, TRUE, h), NEW g, NEW r,
           r = [k \in 1..Len(s) |-> IF s[k].id = h /\ s[k].activeCalls > 0
                                    THEN [s[k] EXCEPT !.activeCalls = @ - 1] ELSE s[k]],
           \A k \in 1..Len(s) : s[k].id = h => ~s[k].dead
    PROVE  ListOK(r, n, u, FALSE, g)
<1>1. s \in Seq(EventSubscriber) /\ Len(s) \in Nat
  BY DEF ListOK
<1>2. \A j \in 1..Len(s) : /\ s[j] \in EventSubscriber /\ s[j].activeCalls \in 0..1 /\ ~s[j].dead
                           /\ s[j].id # h => s[j].activeCalls = 0
  <2> TAKE j \in 1..Len(s)
  <2>1. s[j] \in EventSubscriber /\ (s[j].activeCalls > 0 => s[j].id = h) /\ ~s[j].dead
    BY <1>1 DEF ListOK
  <2> QED
    BY <2>1 DEF EventSubscriber
<1>3. \A j \in 1..Len(s) : /\ r[j] \in EventSubscriber /\ r[j].id = s[j].id /\ ~r[j].dead
                           /\ r[j].activeCalls = 0
  <2> TAKE j \in 1..Len(s)
  <2>1. CASE s[j].id = h /\ s[j].activeCalls = 1
    <3>1. r[j] = [s[j] EXCEPT !.activeCalls = 1 - 1]
      BY <1>2, <2>1
    <3> QED
      BY <1>2, <2>1, <3>1 DEF EventSubscriber
  <2>2. CASE s[j].activeCalls = 0
    BY <1>2, <2>2
  <2> QED
    BY <1>2, <2>1, <2>2
<1>4. r \in Seq(EventSubscriber) /\ Len(r) = Len(s)
  BY <1>1, <1>3
<1> QED
  BY <1>3, <1>4 DEF ListOK

LEMMA NewlyRegistered ==
    ASSUME NEW s, NEW n, NEW u, NEW c, NEW h, ListOK(s, n, u, c, h), n <= MaxToken, NEW x \in Source
    PROVE  ListOK(Append(s, [id |-> n, source |-> x, dead |-> FALSE, activeCalls |-> 0]), n + 1, u, c, h)
<1> DEFINE a == [id |-> n, source |-> x, dead |-> FALSE, activeCalls |-> 0]
           r == Append(s, a)
<1>1. s \in Seq(EventSubscriber) /\ Len(s) \in Nat /\ n \in 1..(MaxToken + 1) /\ MaxToken \in Nat
  BY BroadcastAssumption DEF ListOK
<1>2. a \in EventSubscriber /\ a.id = n /\ ~a.dead /\ a.activeCalls = 0
  BY <1>1 DEF EventSubscriber
<1> HIDE DEF a
<1>3. /\ r \in Seq(EventSubscriber) /\ Len(r) = Len(s) + 1 /\ r[Len(s) + 1] = a
      /\ \A i \in 1..Len(s) : r[i] = s[i]
  BY <1>1, <1>2
<1> HIDE DEF r
<1>4. \A i \in 1..Len(s) : s[i].id \in Int /\ s[i].id < n /\ r[i].id = s[i].id
  <2> TAKE i \in 1..Len(s)
  <2>1. s[i] \in EventSubscriber
    BY <1>1
  <2> QED
    BY <1>3, <2>1 DEF EventSubscriber, ListOK
<1>5. \A k \in 1..Len(r) : k \in 1..Len(s) \/ k = Len(s) + 1
  BY <1>1, <1>3
<1>6. \A j, k \in 1..Len(r) : r[j].id = r[k].id => j = k
  <2> SUFFICES ASSUME NEW j \in 1..Len(r), NEW k \in 1..Len(r), r[j].id = r[k].id PROVE j = k
    OBVIOUS
  <2>1. CASE j \in 1..Len(s) /\ k \in 1..Len(s)
    BY <1>4, <2>1 DEF ListOK
  <2>2. CASE j = Len(s) + 1 /\ k \in 1..Len(s)
    BY <1>1, <1>2, <1>3, <1>4, <2>2
  <2>3. CASE j \in 1..Len(s) /\ k = Len(s) + 1
    BY <1>1, <1>2, <1>3, <1>4, <2>3
  <2> QED
    BY <1>5, <2>1, <2>2, <2>3
<1>7. n + 1 \in 1..(MaxToken + 1) /\ u \subseteq 1..MaxToken /\ n \notin u /\ \A y \in u : y < n + 1
  BY <1>1 DEF ListOK
<1>8. ASSUME NEW k \in 1..Len(r)
      PROVE  /\ r[k].id < n + 1 /\ r[k].id \notin u
             /\ r[k].activeCalls > 0 => c /\ r[k].id = h
             /\ r[k].dead => r[k].activeCalls > 0
  <2>1. CASE k \in 1..Len(s)
    <3>1. s[k].id < n + 1
      BY <1>1, <1>4, <2>1
    <3> QED
      BY <1>3, <2>1, <3>1 DEF ListOK
  <2>2. CASE k = Len(s) + 1
    BY <1>1, <1>2, <1>3, <1>7, <2>2
  <2> QED
    BY <1>5, <2>1, <2>2
<1>9. c => \E k \in 1..Len(r) : r[k].id = h /\ r[k].activeCalls = 1
  <2> SUFFICES ASSUME c PROVE \E k \in 1..Len(r) : r[k].id = h /\ r[k].activeCalls = 1
    OBVIOUS
  <2>1. PICK i \in 1..Len(s) : s[i].id = h /\ s[i].activeCalls = 1
    BY DEF ListOK
  <2>2. i \in 1..Len(r) /\ r[i] = s[i]
    BY <1>1, <1>3
  <2> QED
    BY <2>1, <2>2
<1>10. ListOK(r, n + 1, u, c, h)
  BY <1>3, <1>6, <1>7, <1>8, <1>9 DEF ListOK
<1> QED
  BY <1>10 DEF r, a

(* The ids that Dispatch snapshots are tokens.                             *)
LEMMA WantsFacts ==
    ASSUME NEW s, s_subscribers \in Seq(EventSubscriber)
    PROVE  Wants(s) \in Seq(1..MaxToken)
<1> DEFINE V == Seq(1..MaxToken)
           n == Len(s_subscribers)
           Wanted(k) == ~s_subscribers[k].dead /\ s_subscribers[k].source = s
           Is(F) == F = [k \in 0..n |->
                           IF k = 0 THEN <<>>
                           ELSE IF Wanted(k) /\ Len(F[k - 1]) < kMaxFanOut
                           THEN Append(F[k - 1], s_subscribers[k].id) ELSE F[k - 1]]
           ids == CHOOSE F : Is(F)
           g == [p \in (1..n) \X V |-> IF Wanted(p[1]) /\ Len(p[2]) < kMaxFanOut
                                       THEN Append(p[2], s_subscribers[p[1]].id) ELSE p[2]]
<1>1. n \in Nat /\ <<>> \in V
  OBVIOUS
<1>2. \A k \in 1..n : s_subscribers[k].id \in 1..MaxToken
  <2>1. \A k \in 1..n : s_subscribers[k] \in EventSubscriber
    OBVIOUS
  <2> QED
    BY <2>1 DEF EventSubscriber
<1>a. \A v \in V, k \in 1..n : Append(v, s_subscribers[k].id) \in V
  BY <1>2
<1>3. g \in [(1..n) \X V -> V]
  <2> HIDE DEF V
  <2> QED
    BY <1>a
<1>4. \E F : Recursive(F, V, <<>>, n, g)
  <2> HIDE DEF V, n, g
  <2> QED
    BY <1>1, <1>3, RecursionExists
<1>5. ASSUME NEW F, Recursive(F, V, <<>>, n, g) PROVE Is(F)
  <2>1. /\ F \in [0..n -> V] /\ F[0] = <<>>
        /\ \A i \in 1..n : F[i] = g[<<i, F[i - 1]>>]
    BY <1>5 DEF Recursive
  <2>2. \A i \in 1..n : F[i - 1] \in V
    <3> HIDE DEF V
    <3> QED
      BY <1>1, <2>1
  <2>3. \A i \in 1..n : F[i] = IF Wanted(i) /\ Len(F[i - 1]) < kMaxFanOut
                               THEN Append(F[i - 1], s_subscribers[i].id) ELSE F[i - 1]
    <3> TAKE i \in 1..n
    <3>1. <<i, F[i - 1]>> \in (1..n) \X V
      BY <2>2
    <3> QED
      BY <2>1, <3>1
  <2>4. \A k \in 0..n : F[k] = IF k = 0 THEN <<>>
                               ELSE IF Wanted(k) /\ Len(F[k - 1]) < kMaxFanOut
                               THEN Append(F[k - 1], s_subscribers[k].id) ELSE F[k - 1]
    <3> TAKE k \in 0..n
    <3>1. CASE k = 0
      BY <2>1, <3>1
    <3>2. CASE k # 0
      <4>1. k \in 1..n
        BY <1>1, <3>2
      <4> QED
        BY <2>3, <3>2, <4>1
    <3> QED
      BY <3>1, <3>2
  <2> QED
    BY <2>1, <2>4
<1>6. Is(ids)
  <2> HIDE DEF Is
  <2> QED
    BY <1>4, <1>5
<1>7. Wants(s) = ids[n]
  BY DEF Wants
<1> HIDE DEF ids
<1>b. \A k \in 0..n : ids[k] = IF k = 0 THEN <<>>
                               ELSE IF Wanted(k) /\ Len(ids[k - 1]) < kMaxFanOut
                               THEN Append(ids[k - 1], s_subscribers[k].id) ELSE ids[k - 1]
  BY <1>6
<1> HIDE DEF V, n
<1> DEFINE Bad == {k \in 0..n : ids[k] \notin V}
<1>8. Bad = {}
  <2> SUFFICES ASSUME Bad # {} PROVE FALSE
    OBVIOUS
  <2>1. Bad \subseteq Nat
    BY <1>1
  <2>2. PICK k \in Bad : \A y \in Bad : k <= y
    <3> HIDE DEF Bad
    <3> QED
      BY <2>1, LeastNatural
  <2>3. ids[0] = <<>>
    BY <1>1, <1>b
  <2>4. k \in 1..n /\ k - 1 \in 0..n /\ k - 1 \notin Bad
    <3>1. k \in 0..n /\ ids[k] \notin V
      BY <2>2
    <3>2. k # 0
      BY <1>1, <2>3, <3>1
    <3>3. k \in 1..n /\ k - 1 \in 0..n /\ ~(k <= k - 1)
      BY <1>1, <3>1, <3>2
    <3> QED
      BY <2>2, <3>3
  <2>5. ids[k - 1] \in V
    BY <2>4
  <2>6. ids[k] = ids[k - 1] \/ ids[k] = Append(ids[k - 1], s_subscribers[k].id)
    <3>1. k \in 0..n /\ k # 0
      BY <1>1, <2>4
    <3> QED
      BY <1>b, <3>1
  <2>7. ids[k] \in V
    BY <1>a, <2>4, <2>5, <2>6
  <2> QED
    BY <2>2, <2>7
<1>9. ids[n] \in V
  BY <1>1, <1>8
<1> QED
  BY <1>7, <1>9 DEF V

-----------------------------------------------------------------------------
(* The steps.  BroadcastFrom collects what every step starts from.         *)
LEMMA SubscriberTypes ==
    ASSUME BroadcastInv
    PROVE  /\ s_subscribers \in Seq(EventSubscriber) /\ DOMAIN s_subscribers = 1..Len(s_subscribers)
           /\ \A id : Find(id) = {k \in 1..Len(s_subscribers) : s_subscribers[k].id = id}
           /\ \A id : \A k \in Find(id) : Find(id) = {k}
           /\ \A k \in 1..Len(s_subscribers) : s_subscribers[k].activeCalls \in 0..1
           /\ s_nextTokenId \in 1..(MaxToken + 1)
<1>1. s_subscribers \in Seq(EventSubscriber) /\ DOMAIN s_subscribers = 1..Len(s_subscribers)
  BY DEF BroadcastInv, SubscribersInv, ListOK
<1>2. \A id : Find(id) = {k \in 1..Len(s_subscribers) : s_subscribers[k].id = id}
  BY <1>1 DEF Find
<1>3. \A id : \A k \in Find(id) : Find(id) = {k}
  BY <1>2 DEF BroadcastInv, SubscribersInv, ListOK
<1>4. \A k \in 1..Len(s_subscribers) : s_subscribers[k].activeCalls \in 0..1
  <2>1. \A k \in 1..Len(s_subscribers) : s_subscribers[k] \in EventSubscriber
    BY <1>1
  <2> QED
    BY <2>1 DEF EventSubscriber
<1> QED
  BY <1>1, <1>2, <1>3, <1>4 DEF BroadcastInv, SubscribersInv, ListOK

(* A broadcast is queued; its queuer signals next.                         *)
LEMMA EnqueueStep ==
    ASSUME BroadcastInv,
           (\E c \in Caller, s \in Source : Broadcast(c, s)) \/ (\E s \in Source : BroadcastFromCallback(s))
    PROVE  BroadcastInv'
<1>1. ASSUME NEW s \in Source, Enqueue(s)
      PROVE  /\ s_queue' \in Seq(Source) /\ Len(s_queue') <= kEventQueueCapacity
             /\ pumpWake' = pumpWake /\ s_subscribers' = s_subscribers
             /\ s_nextTokenId' = s_nextTokenId /\ unregistered' = unregistered
  <2>1. s_queue \in Seq(Source) /\ Len(s_queue) \in Nat /\ kEventQueueCapacity \in Nat
    BY BroadcastAssumption DEF BroadcastInv, PumpInv
  <2>2. s_queue' = Append(s_queue, s) /\ Len(s_queue) < kEventQueueCapacity
    BY <1>1 DEF Enqueue, HasRoom
  <2> QED
    BY <1>1, <2>1, <2>2 DEF Enqueue
<1>2. ASSUME NEW c \in Caller, NEW s \in Source, Broadcast(c, s) PROVE BroadcastInv'
  <2>1. /\ pump' = pump /\ caller' = [caller EXCEPT ![c].pc = "signal"] /\ Enqueue(s)
    BY <1>2 DEF Broadcast
  <2>2. /\ caller' \in [Caller -> CallerState] /\ caller'[c].pc = "signal"
        /\ \A d \in Caller : caller'[d].pc = "drain" => caller'[d] = caller[d]
    <3>1. caller \in [Caller -> CallerState]
      BY DEF BroadcastInv, CallersInv
    <3>2. [caller[c] EXCEPT !.pc = "signal"] \in CallerState
      BY <3>1 DEF CallerState
    <3>3. caller' = [caller EXCEPT ![c] = [caller[c] EXCEPT !.pc = "signal"]]
      BY <2>1
    <3>4. [caller[c] EXCEPT !.pc = "signal"].pc = "signal"
      BY <3>1 DEF CallerState
    <3> QED
      BY <3>1, <3>2, <3>3, <3>4
  <2>3. SomeoneSignals'
    BY <2>2 DEF SomeoneSignals
  <2>4. PumpInv'
    BY <1>1, <2>1, <2>3 DEF BroadcastInv, PumpInv, Calling
  <2>5. CallersInv'
    BY <1>1, <2>1, <2>2 DEF BroadcastInv, CallersInv
  <2>6. SubscribersInv'
    BY <1>1, <2>1 DEF BroadcastInv, SubscribersInv, Calling
  <2> QED
    BY <2>4, <2>5, <2>6 DEF BroadcastInv
<1>3. ASSUME NEW s \in Source, BroadcastFromCallback(s) PROVE BroadcastInv'
  <2>1. /\ pump.pc = "callback" /\ pump' = [pump EXCEPT !.pc = "signal"] /\ caller' = caller /\ Enqueue(s)
    BY <1>3 DEF BroadcastFromCallback
  <2>2. pump' \in PumpState /\ pump'.pc = "signal" /\ pump'.ids = pump.ids
    BY <2>1 DEF BroadcastInv, PumpInv, PumpState
  <2>3. Calling /\ Calling'
    BY <2>1, <2>2 DEF Calling
  <2>4. PumpInv'
    BY <1>1, <2>1, <2>2, <2>3 DEF BroadcastInv, PumpInv
  <2>5. CallersInv'
    BY <1>1, <2>1 DEF BroadcastInv, CallersInv
  <2>6. SubscribersInv'
    BY <1>1, <2>1, <2>2, <2>3 DEF BroadcastInv, SubscribersInv
  <2> QED
    BY <2>4, <2>5, <2>6 DEF BroadcastInv
<1> QED
  BY <1>2, <1>3

LEMMA SignalledStep ==
    ASSUME BroadcastInv, CallbackSignal \/ \E c \in Caller : BroadcastSignal(c)
    PROVE  BroadcastInv'
<1>0. pumpWake \in [signalled : BOOLEAN, waiting : BOOLEAN] /\ pump \in PumpState
  BY DEF BroadcastInv, PumpInv
<1>1. ASSUME SignalPump
      PROVE  /\ pumpWake' \in [signalled : BOOLEAN, waiting : BOOLEAN]
             /\ ~pumpWake'.waiting /\ (pumpWake.waiting \/ pumpWake'.signalled)
  BY <1>0, <1>1 DEF SignalPump
<1>2. CASE CallbackSignal
  <2>1. /\ pump.pc = "signal" /\ pump' = [pump EXCEPT !.pc = "callback"] /\ SignalPump
        /\ UNCHANGED <<s_queue, s_subscribers, s_nextTokenId, caller, unregistered>>
    BY <1>2 DEF CallbackSignal
  <2>2. pump' \in PumpState /\ pump'.pc = "callback" /\ pump'.ids = pump.ids
    BY <1>0, <2>1 DEF PumpState
  <2>3. Calling /\ Calling'
    BY <2>1, <2>2 DEF Calling
  <2>4. PumpInv'
    BY <1>1, <2>1, <2>2, <2>3 DEF BroadcastInv, PumpInv
  <2>5. CallersInv'
    BY <2>1 DEF BroadcastInv, CallersInv
  <2>6. SubscribersInv'
    BY <2>1, <2>2, <2>3 DEF BroadcastInv, SubscribersInv
  <2> QED
    BY <2>4, <2>5, <2>6 DEF BroadcastInv
<1>3. ASSUME NEW c \in Caller, BroadcastSignal(c) PROVE BroadcastInv'
  <2>1. /\ caller' = [caller EXCEPT ![c].pc = "idle"] /\ SignalPump
        /\ UNCHANGED <<s_queue, s_subscribers, s_nextTokenId, pump, unregistered>>
    BY <1>3 DEF BroadcastSignal
  <2>2. /\ caller' \in [Caller -> CallerState]
        /\ \A d \in Caller : caller'[d].pc = "drain" => caller'[d] = caller[d]
    <3>1. caller \in [Caller -> CallerState]
      BY DEF BroadcastInv, CallersInv
    <3>2. [caller[c] EXCEPT !.pc = "idle"] \in CallerState
      BY <3>1 DEF CallerState
    <3>3. caller' = [caller EXCEPT ![c] = [caller[c] EXCEPT !.pc = "idle"]]
      BY <2>1
    <3>4. [caller[c] EXCEPT !.pc = "idle"].pc = "idle"
      BY <3>1 DEF CallerState
    <3> QED
      BY <3>1, <3>2, <3>3, <3>4
  <2>3. pump.pc = "wait" => pumpWake'.signalled
    BY <1>1, <2>1 DEF BroadcastInv, PumpInv
  <2>4. PumpInv'
    BY <1>1, <2>1, <2>3 DEF BroadcastInv, PumpInv, Calling
  <2>5. CallersInv'
    BY <2>1, <2>2 DEF BroadcastInv, CallersInv
  <2>6. SubscribersInv'
    BY <2>1 DEF BroadcastInv, SubscribersInv, Calling
  <2> QED
    BY <2>4, <2>5, <2>6 DEF BroadcastInv
<1> QED
  BY <1>2, <1>3

(* Registrations and unregistrations leave the pump alone.                 *)
LEMMA ListStep ==
    ASSUME BroadcastInv, UNCHANGED <<s_queue, pumpWake, pump>>,
           caller' = caller \/ \E c \in Caller : caller[c].pc # "signal" /\ \E x \in CallerState :
             /\ caller' = [caller EXCEPT ![c] = x]
             /\ x.pc = "drain" => x.id # 0 /\ x.id < s_nextTokenId,
           s_nextTokenId' \in Int, s_nextTokenId <= s_nextTokenId',
           ListOK(s_subscribers', s_nextTokenId', unregistered', Calling, Head(pump.ids))
    PROVE  BroadcastInv'
<1>0. caller \in [Caller -> CallerState] /\ s_nextTokenId \in Int
  BY SubscriberTypes DEF BroadcastInv, CallersInv
<1>1. /\ caller' \in [Caller -> CallerState]
      /\ \A d \in Caller : caller'[d].pc = "drain" => caller'[d].id # 0 /\ caller'[d].id < s_nextTokenId
      /\ SomeoneSignals => SomeoneSignals'
  <2>1. CASE caller' = caller
    BY <2>1 DEF BroadcastInv, CallersInv, SomeoneSignals
  <2>2. ASSUME NEW c \in Caller, caller[c].pc # "signal", NEW x \in CallerState,
               caller' = [caller EXCEPT ![c] = x], x.pc = "drain" => x.id # 0 /\ x.id < s_nextTokenId
        PROVE  <1>1!1 /\ <1>1!2 /\ <1>1!3
    <3>1. caller' \in [Caller -> CallerState] /\ \A d \in Caller : caller'[d] = IF d = c THEN x ELSE caller[d]
      BY <1>0, <2>2
    <3> QED
      BY <2>2, <3>1 DEF BroadcastInv, CallersInv, SomeoneSignals
  <2> QED
    BY <2>1, <2>2
<1>2. CallersInv'
  <2> SUFFICES ASSUME NEW d \in Caller, caller'[d].pc = "drain"
               PROVE  caller'[d].id # 0 /\ caller'[d].id < s_nextTokenId'
    BY <1>1 DEF CallersInv
  <2>1. caller'[d].id \in Int
    <3>1. caller'[d] \in CallerState
      BY <1>1
    <3> QED
      BY <3>1, BroadcastAssumption DEF CallerState
  <2> QED
    BY <1>0, <1>1, <2>1
<1>3. PumpInv'
  BY <1>1 DEF BroadcastInv, PumpInv, Calling
<1>4. SubscribersInv'
  BY DEF SubscribersInv, Calling
<1> QED
  BY <1>2, <1>3, <1>4 DEF BroadcastInv

LEMMA RegistrationStep ==
    ASSUME BroadcastInv,
           \/ UnregisterSelf \/ \E s \in Source : RegisterInterest(s)
           \/ \E id \in Registered : UnregisterIdle(id) \/ \E c \in Caller : UnregisterBusy(c, id)
           \/ \E c \in Caller : UnregisterLoop(c)
    PROVE  BroadcastInv'
<1> DEFINE n == s_nextTokenId
           h == Head(pump.ids)
<1>0. /\ ListOK(s_subscribers, n, unregistered, Calling, h) /\ n \in Int /\ n <= n
      /\ \A id : \A k \in Find(id) : k \in 1..Len(s_subscribers) /\ s_subscribers[k].id = id
      /\ \A id : \A k \in Find(id) : Find(id) = {k}
  BY SubscriberTypes DEF BroadcastInv, SubscribersInv
<1>i. ASSUME NEW k \in 1..Len(s_subscribers)
      PROVE  /\ s_subscribers[k].id \in 1..MaxToken /\ s_subscribers[k].id < n
             /\ s_subscribers[k].activeCalls \in 0..1
  <2>1. s_subscribers[k] \in EventSubscriber
    BY SubscriberTypes
  <2> QED
    BY <1>0, <2>1 DEF ListOK, EventSubscriber
<1>1. CASE UnregisterSelf
  <2>1. PICK k \in Find(h) : s_subscribers' = [s_subscribers EXCEPT ![k].dead = TRUE]
    BY <1>1 DEF UnregisterSelf
  <2>2. UNCHANGED <<s_queue, pumpWake, s_nextTokenId, pump, caller, unregistered>> /\ Calling
    BY <1>1 DEF UnregisterSelf, Calling
  <2>3. s_subscribers[k].activeCalls > 0
    <3>1. PICK i \in 1..Len(s_subscribers) : s_subscribers[i].id = h /\ s_subscribers[i].activeCalls = 1
      BY <1>0, <2>2 DEF ListOK
    <3>2. i = k
      BY <1>0, <2>1, <3>1 DEF ListOK
    <3> QED
      BY <3>1, <3>2
  <2>4. ListOK(s_subscribers', n, unregistered, Calling, h)
    BY <1>0, <2>1, <2>3, MarkedDead
  <2> QED
    BY <1>0, <2>2, <2>4, ListStep
<1>2. ASSUME NEW s \in Source, RegisterInterest(s) PROVE BroadcastInv'
  <2>1. /\ n <= MaxToken /\ s_nextTokenId' = n + 1
        /\ s_subscribers' = Append(s_subscribers, [id |-> n, source |-> s, dead |-> FALSE, activeCalls |-> 0])
        /\ UNCHANGED <<s_queue, pumpWake, pump, caller, unregistered>>
    BY <1>2 DEF RegisterInterest
  <2>2. ListOK(s_subscribers', n + 1, unregistered, Calling, h)
    BY <1>0, <2>1, NewlyRegistered
  <2>3. s_nextTokenId' \in Int /\ s_nextTokenId <= s_nextTokenId'
    BY <1>0, <2>1
  <2> QED
    BY <2>1, <2>2, <2>3, ListStep
<1>3. ASSUME NEW id \in Registered, UnregisterIdle(id) PROVE BroadcastInv'
  <2>1. PICK k \in Find(id) : s_subscribers[k].activeCalls = 0 /\ s_subscribers' = RemoveAt(s_subscribers, k)
    BY <1>3 DEF UnregisterIdle, Erase
  <2>2. /\ unregistered' = unregistered \cup {id}
        /\ UNCHANGED <<s_queue, pumpWake, s_nextTokenId, pump, caller>>
    BY <1>3 DEF UnregisterIdle
  <2>3. ListOK(s_subscribers', n, unregistered \cup {id}, Calling, h)
    BY <1>0, <2>1, ErasedIdle
  <2> QED
    BY <1>0, <2>2, <2>3, ListStep
<1>4. ASSUME NEW id \in Registered, NEW c \in Caller, UnregisterBusy(c, id) PROVE BroadcastInv'
  <2>1. PICK k \in Find(id) : /\ s_subscribers[k].activeCalls > 0
                              /\ s_subscribers' = [s_subscribers EXCEPT ![k].dead = TRUE]
    BY <1>4 DEF UnregisterBusy
  <2>2. /\ caller[c].pc = "idle" /\ caller' = [caller EXCEPT ![c] = [pc |-> "drain", id |-> id]]
        /\ UNCHANGED <<s_queue, pumpWake, s_nextTokenId, pump, unregistered>>
    BY <1>4 DEF UnregisterBusy
  <2>3. ListOK(s_subscribers', n, unregistered, Calling, h)
    BY <1>0, <2>1, MarkedDead
  <2>4. id \in 1..MaxToken /\ id < n
    BY <1>0, <1>i, <2>1
  <2> DEFINE x == [pc |-> "drain", id |-> id]
  <2>5. x \in CallerState /\ x.id # 0 /\ x.id < n
    BY <2>4, BroadcastAssumption DEF CallerState
  <2>6. caller[c].pc # "signal" /\ caller' = [caller EXCEPT ![c] = x]
    BY <2>2
  <2> HIDE DEF x
  <2> QED
    BY <1>0, <2>2, <2>3, <2>5, <2>6, ListStep
<1>5. ASSUME NEW c \in Caller, UnregisterLoop(c) PROVE BroadcastInv'
  <2> DEFINE id == caller[c].id
             x == [pc |-> "idle", id |-> 0]
  <2>1. /\ caller[c].pc = "drain" /\ MayLeave(id) /\ s_subscribers' = Erased(id)
        /\ caller' = [caller EXCEPT ![c] = x] /\ unregistered' = unregistered \cup {id}
        /\ UNCHANGED <<s_queue, pumpWake, s_nextTokenId, pump>>
    BY <1>5 DEF UnregisterLoop
  <2>2. x \in CallerState /\ x.pc # "drain" /\ caller[c].pc # "signal"
    BY <2>1, BroadcastAssumption DEF CallerState
  <2>3. id \in 1..MaxToken /\ id < n
    <3>1. caller[c] \in CallerState /\ id # 0 /\ id < n
      BY <2>1 DEF BroadcastInv, CallersInv
    <3> QED
      BY <3>1, BroadcastAssumption DEF CallerState
  <2> HIDE DEF x
  <2>4. ListOK(s_subscribers', n, unregistered \cup {id}, Calling, h)
    <3> HIDE DEF id
    <3>1. CASE Find(id) = {}
      <4>1. s_subscribers' = s_subscribers
        BY <2>1, <3>1 DEF Erased
      <4>2. \A k \in 1..Len(s_subscribers) : s_subscribers[k].id # id
        BY <3>1, SubscriberTypes, ZenonT(60)
      <4> QED
        BY <1>0, <2>3, <4>1, <4>2 DEF ListOK
    <3>2. CASE Find(id) # {}
      <4>1. PICK k : k \in Find(id) /\ s_subscribers' = RemoveAt(s_subscribers, k)
        BY <2>1, <3>2 DEF Erased, Erase
      <4>2. s_subscribers[k].activeCalls = 0
        BY <2>1, <4>1 DEF MayLeave
      <4> QED
        BY <1>0, <4>1, <4>2, ErasedIdle
    <3> QED
      BY <3>1, <3>2
  <2> HIDE DEF id
  <2> QED
    BY <1>0, <2>1, <2>2, <2>4, ListStep
<1> QED
  BY <1>1, <1>2, <1>3, <1>4, <1>5

(* The pump and the callback it runs leave the callers alone.              *)
LEMMA PumpKeepsCallers ==
    ASSUME BroadcastInv, UNCHANGED <<s_nextTokenId, caller, unregistered>>
    PROVE  CallersInv' /\ (SomeoneSignals' <=> SomeoneSignals)
BY DEF BroadcastInv, CallersInv, SomeoneSignals

LEMMA PumpWaitStep ==
    ASSUME BroadcastInv, PopBroadcast \/ PumpWait \/ Snapshot
    PROVE  BroadcastInv'
<1>0. /\ pump \in PumpState /\ s_queue \in Seq(Source) /\ Len(s_queue) <= kEventQueueCapacity
      /\ pumpWake \in [signalled : BOOLEAN, waiting : BOOLEAN]
  BY DEF BroadcastInv, PumpInv
<1>1. UNCHANGED <<s_subscribers, s_nextTokenId, caller, unregistered>>
  BY DEF PopBroadcast, PumpWait, Snapshot
<1>c. CallersInv' /\ (SomeoneSignals' <=> SomeoneSignals)
  BY <1>1, PumpKeepsCallers
<1>s. ASSUME ~Calling, ~Calling' PROVE SubscribersInv'
  BY <1>1, <1>s DEF BroadcastInv, SubscribersInv, ListOK
<1>2. CASE PopBroadcast
  <2>1. pump.pc = "pop" /\ pumpWake' = pumpWake
    BY <1>2 DEF PopBroadcast
  <2>2. CASE s_queue = <<>>
    <3>1. s_queue' = <<>> /\ pump' = [pump EXCEPT !.pc = "wait"]
      BY <1>2, <2>2 DEF PopBroadcast, PumpTo
    <3>2. pump' \in PumpState /\ pump'.pc = "wait"
      BY <1>0, <3>1 DEF PumpState
    <3>3. PumpInv'
      BY <1>0, <2>1, <2>2, <3>1, <3>2 DEF BroadcastInv, PumpInv, Calling
    <3> QED
      BY <1>c, <1>s, <2>1, <3>2, <3>3 DEF BroadcastInv, Calling
  <2>3. CASE s_queue # <<>>
    <3>1. s_queue' = Tail(s_queue) /\ pump' = [pump EXCEPT !.pc = "snapshot", !.record = Head(s_queue)]
      BY <1>2, <2>3 DEF PopBroadcast
    <3>2. Head(s_queue) \in Source /\ s_queue' \in Seq(Source) /\ Len(s_queue') <= kEventQueueCapacity
      BY <1>0, <2>3, <3>1, BroadcastAssumption
    <3>3. pump' \in PumpState /\ pump'.pc = "snapshot"
      BY <1>0, <3>1, <3>2 DEF PumpState
    <3>4. PumpInv'
      BY <1>0, <2>1, <3>2, <3>3 DEF BroadcastInv, PumpInv, Calling
    <3> QED
      BY <1>c, <1>s, <2>1, <3>3, <3>4 DEF BroadcastInv, Calling
  <2> QED
    BY <2>2, <2>3
<1>3. CASE PumpWait
  <2>1. pump.pc \in {"wait", "asleep"} /\ s_queue' = s_queue
    BY <1>3 DEF PumpWait
  <2>2. CASE pump' = [pump EXCEPT !.pc = "pop"] /\ pumpWake' \in {pumpWake, [pumpWake EXCEPT !.signalled = FALSE]}
             /\ ~pumpWake.waiting
    <3>1. pump' \in PumpState /\ pump'.pc = "pop"
      BY <1>0, <2>2 DEF PumpState
    <3>2. pumpWake' \in [signalled : BOOLEAN, waiting : BOOLEAN] /\ ~pumpWake'.waiting
      BY <1>0, <2>2
    <3>3. PumpInv'
      BY <1>0, <2>1, <3>1, <3>2 DEF BroadcastInv, PumpInv, Calling
    <3> QED
      BY <1>c, <1>s, <2>1, <3>1, <3>3 DEF BroadcastInv, Calling
  <2>3. CASE /\ pump.pc = "wait" /\ ~pumpWake.signalled /\ pump' = [pump EXCEPT !.pc = "asleep"]
             /\ pumpWake' = [pumpWake EXCEPT !.waiting = TRUE]
    <3>1. pump' \in PumpState /\ pump'.pc = "asleep"
      BY <1>0, <2>3 DEF PumpState
    <3>2. pumpWake' \in [signalled : BOOLEAN, waiting : BOOLEAN]
      BY <1>0, <2>3
    <3>3. s_queue # <<>> => SomeoneSignals
      BY <2>3 DEF BroadcastInv, PumpInv
    <3>4. PumpInv'
      BY <1>0, <1>c, <2>1, <3>1, <3>2, <3>3 DEF PumpInv, Calling
    <3> QED
      BY <1>c, <1>s, <2>1, <3>1, <3>4 DEF BroadcastInv, Calling
  <2>4. pump.pc = "wait" => ~pumpWake.waiting
    BY DEF BroadcastInv, PumpInv
  <2> QED
    BY <1>3, <2>2, <2>3, <2>4 DEF PumpWait, WaitForHeader, PumpTo
<1>4. CASE Snapshot
  <2>1. /\ pump.pc = "snapshot" /\ s_queue' = s_queue /\ pumpWake' = pumpWake
        /\ pump' = [pump EXCEPT !.pc = "next", !.ids = Wants(pump.record)]
    BY <1>4 DEF Snapshot
  <2>2. Wants(pump.record) \in Seq(1..MaxToken)
    BY SubscriberTypes, WantsFacts
  <2>3. pump' \in PumpState /\ pump'.pc = "next"
    BY <1>0, <2>1, <2>2 DEF PumpState
  <2>4. PumpInv'
    BY <1>0, <2>1, <2>3 DEF BroadcastInv, PumpInv, Calling
  <2> QED
    BY <1>c, <1>s, <2>1, <2>3, <2>4 DEF BroadcastInv, Calling
<1> QED
  BY <1>2, <1>3, <1>4

LEMMA DispatchStep ==
    ASSUME BroadcastInv, DispatchNextId
    PROVE  BroadcastInv'
<1> DEFINE h == Head(pump.ids)
<1>0. /\ pump \in PumpState /\ s_queue \in Seq(Source) /\ Len(s_queue) <= kEventQueueCapacity
      /\ pumpWake \in [signalled : BOOLEAN, waiting : BOOLEAN]
  BY DEF BroadcastInv, PumpInv
<1>1. pump.pc = "next" /\ UNCHANGED <<s_queue, pumpWake, s_nextTokenId, caller, unregistered>>
  BY DEF DispatchNextId
<1>2. CallersInv' /\ (SomeoneSignals' <=> SomeoneSignals)
  BY <1>1, PumpKeepsCallers
<1>3. ~Calling /\ ~pumpWake.waiting /\ ListOK(s_subscribers, s_nextTokenId, unregistered, FALSE, h)
  BY <1>1 DEF BroadcastInv, PumpInv, SubscribersInv, ListOK, Calling
<1>4. CASE s_subscribers' = s_subscribers /\ pump' \in PumpState /\ pump'.pc \in {"pop", "next"}
  <2>1. ~Calling'
    BY <1>4 DEF Calling
  <2>2. ListOK(s_subscribers', s_nextTokenId', unregistered', Calling', Head(pump'.ids))
    BY <1>1, <1>3, <1>4, <2>1 DEF ListOK
  <2>3. PumpInv'
    BY <1>0, <1>1, <1>3, <1>4, <2>1 DEF PumpInv
  <2> QED
    BY <1>2, <2>2, <2>3 DEF BroadcastInv, SubscribersInv
<1>5. CASE pump.ids = <<>> /\ PumpTo("pop") /\ UNCHANGED s_subscribers
  <2>1. pump' \in PumpState /\ pump'.pc = "pop"
    BY <1>0, <1>5 DEF PumpState, PumpTo
  <2> QED
    BY <1>4, <1>5, <2>1
<1>6. CASE pump.ids # <<>> /\ SkipId /\ UNCHANGED s_subscribers
  <2>1. pump.ids \in Seq(1..MaxToken) /\ Tail(pump.ids) \in Seq(1..MaxToken)
    BY <1>0, <1>6 DEF PumpState
  <2>2. pump' \in PumpState /\ pump'.pc = "next"
    BY <1>0, <1>1, <1>6, <2>1 DEF PumpState, SkipId
  <2> QED
    BY <1>4, <1>6, <2>2
<1>7. CASE /\ pump.ids # <<>> /\ StillWanted(h) /\ PumpTo("callback")
           /\ s_subscribers' = [k \in DOMAIN s_subscribers |->
                IF k \in Find(h) THEN [s_subscribers[k] EXCEPT !.activeCalls = @ + 1]
                ELSE s_subscribers[k]]
  <2>1. pump' \in PumpState /\ pump'.pc = "callback" /\ pump'.ids = pump.ids
    BY <1>0, <1>7 DEF PumpState, PumpTo
  <2>2. /\ s_subscribers' = [k \in 1..Len(s_subscribers) |->
                IF s_subscribers[k].id = h THEN [s_subscribers[k] EXCEPT !.activeCalls = @ + 1]
                ELSE s_subscribers[k]]
        /\ \E k \in 1..Len(s_subscribers) : s_subscribers[k].id = h
    <3> HIDE DEF h
    <3>1. DOMAIN s_subscribers = 1..Len(s_subscribers)
          /\ Find(h) = {k \in 1..Len(s_subscribers) : s_subscribers[k].id = h}
      BY SubscriberTypes
    <3> QED
      BY <1>7, <3>1 DEF StillWanted
  <2>3. ListOK(s_subscribers', s_nextTokenId, unregistered, TRUE, h)
    <3> HIDE DEF h
    <3> QED
      BY <1>3, <2>2, Pinned
  <2>4. Calling' /\ Head(pump'.ids) = h /\ pump'.ids # <<>>
    BY <1>7, <2>1 DEF Calling
  <2>5. SubscribersInv'
    BY <1>1, <2>3, <2>4 DEF SubscribersInv, ListOK
  <2>6. PumpInv'
    BY <1>0, <1>1, <1>3, <2>1, <2>4 DEF PumpInv
  <2> QED
    BY <1>2, <2>5, <2>6 DEF BroadcastInv
<1> QED
  BY <1>5, <1>6, <1>7 DEF DispatchNextId

LEMMA ReturnStep ==
    ASSUME BroadcastInv, CallbackReturns
    PROVE  BroadcastInv'
<1> DEFINE h == Head(pump.ids)
           g == Head(pump'.ids)
<1>0. /\ pump \in PumpState /\ s_queue \in Seq(Source) /\ Len(s_queue) <= kEventQueueCapacity
      /\ pumpWake \in [signalled : BOOLEAN, waiting : BOOLEAN]
  BY DEF BroadcastInv, PumpInv
<1>1. /\ pump.pc = "callback" /\ UNCHANGED <<s_queue, pumpWake, s_nextTokenId, caller, unregistered>>
      /\ s_subscribers' = ReleaseSubscriberLocked(h)
      /\ pump' = [pump EXCEPT !.pc = "next", !.ids = Tail(@)]
  BY DEF CallbackReturns
<1>2. CallersInv' /\ (SomeoneSignals' <=> SomeoneSignals)
  BY <1>1, PumpKeepsCallers
<1>3. Calling /\ pump.ids # <<>> /\ ~pumpWake.waiting
      /\ ListOK(s_subscribers, s_nextTokenId, unregistered, TRUE, h)
  BY <1>1 DEF BroadcastInv, PumpInv, SubscribersInv, ListOK, Calling
<1>4. pump' \in PumpState /\ pump'.pc = "next" /\ ~Calling'
  <2>1. pump.ids \in Seq(1..MaxToken) /\ Tail(pump.ids) \in Seq(1..MaxToken)
    BY <1>0, <1>3 DEF PumpState
  <2>2. pump' \in PumpState /\ pump'.pc = "next"
    BY <1>0, <1>1, <2>1 DEF PumpState
  <2> QED
    BY <2>2 DEF Calling
<1>5. ListOK(s_subscribers', s_nextTokenId, unregistered, FALSE, g)
  <2> HIDE DEF h, g
  <2>1. /\ DOMAIN s_subscribers = 1..Len(s_subscribers)
        /\ Find(h) = {k \in 1..Len(s_subscribers) : s_subscribers[k].id = h}
    BY SubscriberTypes
  <2>2. CASE \E k \in Find(h) : s_subscribers[k].dead /\ s_subscribers[k].activeCalls <= 1
    <3>1. PICK k : k \in Find(h) /\ s_subscribers' = RemoveAt(s_subscribers, k)
      BY <1>1, <2>2 DEF ReleaseSubscriberLocked, Erased, Erase
    <3>2. k \in 1..Len(s_subscribers) /\ s_subscribers[k].id = h
      BY <2>1, <3>1
    <3> QED
      BY <1>3, <3>1, <3>2, ErasedCalled
  <2>3. CASE ~\E k \in Find(h) : s_subscribers[k].dead /\ s_subscribers[k].activeCalls <= 1
    <3>1. s_subscribers' = [k \in 1..Len(s_subscribers) |->
             IF s_subscribers[k].id = h /\ s_subscribers[k].activeCalls > 0
             THEN [s_subscribers[k] EXCEPT !.activeCalls = @ - 1] ELSE s_subscribers[k]]
      BY <1>1, <2>1, <2>3 DEF ReleaseSubscriberLocked
    <3>2. \A k \in 1..Len(s_subscribers) : s_subscribers[k].id = h => ~s_subscribers[k].dead
      <4> SUFFICES ASSUME NEW k \in 1..Len(s_subscribers), s_subscribers[k].id = h
                   PROVE  ~s_subscribers[k].dead
        OBVIOUS
      <4>1. k \in Find(h) /\ s_subscribers[k].activeCalls \in 0..1
        BY <2>1, SubscriberTypes
      <4>2. s_subscribers[k].activeCalls <= 1
        BY <4>1
      <4> QED
        BY <2>3, <4>1, <4>2
    <3> QED
      BY <1>3, <3>1, <3>2, Unpinned
  <2> QED
    BY <2>2, <2>3
<1>6. SubscribersInv'
  BY <1>1, <1>4, <1>5 DEF SubscribersInv, ListOK
<1>7. PumpInv'
  BY <1>0, <1>1, <1>3, <1>4 DEF PumpInv
<1> QED
  BY <1>2, <1>6, <1>7 DEF BroadcastInv

(* A subscriber that has unregistered is never called again, a dead one is *)
(* freed with its last callback, and no broadcast is left in the queue of  *)
(* a sleeping pump without a caller about to signal it.                    *)
THEOREM BroadcastIsSafe == BroadcastSpec => []BroadcastSafe
<1>1. BroadcastInit => BroadcastInv
  <2> SUFFICES ASSUME BroadcastInit PROVE BroadcastInv
    OBVIOUS
  <2>1. /\ pump \in PumpState /\ pump.pc = "pop" /\ ~Calling
    <3>1. PICK r \in Source : pump = [pc |-> "pop", record |-> r, ids |-> <<>>]
      BY DEF BroadcastInit
    <3>2. <<>> \in Seq(1..MaxToken)
      OBVIOUS
    <3>3. pump \in PumpState /\ pump.pc = "pop"
      BY <3>1, <3>2 DEF PumpState
    <3> QED
      BY <3>3 DEF Calling
  <2>2. PumpInv
    BY <2>1, BroadcastAssumption DEF BroadcastInit, PumpInv
  <2>3. CallersInv
    BY BroadcastAssumption DEF BroadcastInit, CallersInv, CallerState
  <2>4. SubscribersInv
    BY <2>1, BroadcastAssumption DEF BroadcastInit, SubscribersInv, ListOK
  <2> QED
    BY <2>2, <2>3, <2>4 DEF BroadcastInv
<1>2. BroadcastInv /\ [BroadcastNext]_broadcastVars => BroadcastInv'
  <2> SUFFICES ASSUME BroadcastInv, [BroadcastNext]_broadcastVars PROVE BroadcastInv'
    OBVIOUS
  <2>1. CASE UNCHANGED broadcastVars
    BY <2>1 DEF broadcastVars, BroadcastInv, PumpInv, CallersInv, SubscribersInv, ListOK, Calling,
                SomeoneSignals
  <2>2. CASE BroadcastNext
    BY <2>2, EnqueueStep, SignalledStep, RegistrationStep, PumpWaitStep, DispatchStep, ReturnStep
    DEF BroadcastNext, PumpThread
  <2> QED
    BY <2>1, <2>2
<1>3. BroadcastInv => BroadcastSafe
  <2> SUFFICES ASSUME BroadcastInv PROVE BroadcastSafe
    OBVIOUS
  <2>1. /\ ListOK(s_subscribers, s_nextTokenId, unregistered, Calling, Head(pump.ids))
        /\ DOMAIN s_subscribers = 1..Len(s_subscribers)
    BY SubscriberTypes DEF BroadcastInv, SubscribersInv
  <2>2. BroadcastTypeOK
    BY <2>1 DEF BroadcastInv, PumpInv, CallersInv, ListOK, BroadcastTypeOK
  <2>3. NoCallbackAfterUnregister
    BY <2>1 DEF ListOK, NoCallbackAfterUnregister, Calling
  <2>4. DeadOnlyWhileCalled
    BY <2>1 DEF ListOK, DeadOnlyWhileCalled, Calling
  <2>5. NoStrandedBroadcast
    BY DEF BroadcastInv, PumpInv, NoStrandedBroadcast, SomeoneSignals
  <2> QED
    BY <2>2, <2>3, <2>4, <2>5 DEF BroadcastSafe
<1> QED
  BY <1>1, <1>2, <1>3, PTL DEF BroadcastSpec
=============================================================================
