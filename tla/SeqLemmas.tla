----------------------------- MODULE SeqLemmas -----------------------------
(***************************************************************************)
(* Facts about queues kept as sequences without repetitions, used by the   *)
(* proofs about the scheduler and the wait code: what Append, Tail and     *)
(* dropping an element do to the set of elements, and that they keep it    *)
(* repetition-free; and, by least counterexamples, what a filter over a    *)
(* sequence keeps.                                                         *)
(***************************************************************************)
EXTENDS Integers, Sequences, Functions, SequenceTheorems, WellFoundedInduction, TLAPS

(* The elements of a sequence over S are in S.                             *)
LEMMA RangeFacts ==
    ASSUME NEW S, NEW s \in Seq(S)
    PROVE  Range(s) \subseteq S
  BY DEF Range

(* Appending a thread that is not queued adds it, once.                    *)
LEMMA AppendFacts ==
    ASSUME NEW S, NEW s \in Seq(S), NEW x \in S
    PROVE  /\ Append(s, x) \in Seq(S)
           /\ Append(s, x) # <<>>
           /\ Range(Append(s, x)) = Range(s) \cup {x}
           /\ IsInjective(s) /\ x \notin Range(s) => IsInjective(Append(s, x))
<1>1. /\ Append(s, x) \in Seq(S)
      /\ Len(Append(s, x)) = Len(s) + 1
      /\ \A i \in 1..Len(s) : Append(s, x)[i] = s[i]
      /\ Append(s, x)[Len(s) + 1] = x
      /\ Len(s) \in Nat
  OBVIOUS
<1>2. /\ DOMAIN s = 1..Len(s)
      /\ DOMAIN Append(s, x) = 1..(Len(s) + 1)
  BY <1>1
<1>3. Range(Append(s, x)) = Range(s) \cup {x}
  BY <1>1, <1>2 DEF Range
<1>4. ASSUME IsInjective(s), x \notin Range(s)
      PROVE  IsInjective(Append(s, x))
  BY <1>1, <1>2, <1>4 DEF Range, IsInjective
<1> QED
  BY <1>1, <1>2, <1>3, <1>4

(* A sequence without its i-th element, element by element: the part       *)
(* before i stays, the part after it moves down by one.                    *)
Dropped(s, i) == SubSeq(s, 1, i - 1) \o SubSeq(s, i + 1, Len(s))

LEMMA DroppedElements ==
    ASSUME NEW S, NEW s \in Seq(S), NEW i \in 1..Len(s)
    PROVE  /\ Dropped(s, i) \in Seq(S)
           /\ Len(Dropped(s, i)) = Len(s) - 1
           /\ \A j \in 1..(Len(s) - 1) :
                 Dropped(s, i)[j] = IF j < i THEN s[j] ELSE s[j + 1]
<1>1. PICK n \in Nat : n = Len(s)
  OBVIOUS
<1>2. i \in 1..n /\ \A j \in 1..n : s[j] \in S
  BY <1>1
<1>3. /\ SubSeq(s, 1, i - 1) \in Seq(S)
      /\ Len(SubSeq(s, 1, i - 1)) = IF 1 <= i - 1 THEN (i - 1) - 1 + 1 ELSE 0
      /\ \A j \in 1..((i - 1) - 1 + 1) : SubSeq(s, 1, i - 1)[j] = s[1 + j - 1]
  <2>1. 1 \in Int /\ i - 1 \in Int /\ \A j \in 1..(i - 1) : s[j] \in S
    BY <1>2
  <2> QED BY <2>1, SubSeqProperties
<1>4. /\ SubSeq(s, i + 1, n) \in Seq(S)
      /\ Len(SubSeq(s, i + 1, n)) = IF i + 1 <= n THEN n - (i + 1) + 1 ELSE 0
      /\ \A j \in 1..(n - (i + 1) + 1) : SubSeq(s, i + 1, n)[j] = s[(i + 1) + j - 1]
  <2>1. n \in Int /\ i + 1 \in Int /\ \A j \in (i + 1)..n : s[j] \in S
    BY <1>2
  <2> QED BY <2>1, SubSeqProperties
<1>5. PICK a \in Seq(S), b \in Seq(S) :
        a = SubSeq(s, 1, i - 1) /\ b = SubSeq(s, i + 1, n)
  BY <1>3, <1>4
<1>6. Len(a) = i - 1 /\ Len(b) = n - i
  <2>1. /\ Len(a) = IF 1 <= i - 1 THEN (i - 1) - 1 + 1 ELSE 0
        /\ Len(b) = IF i + 1 <= n THEN n - (i + 1) + 1 ELSE 0
    BY <1>3, <1>4, <1>5
  <2> QED BY <1>2, <2>1
<1>7. \A j \in 1..(i - 1) : a[j] = s[j]
  <2>1. \A j \in 1..((i - 1) - 1 + 1) : a[j] = s[1 + j - 1]
    BY <1>3, <1>5
  <2> QED BY <1>2, <2>1
<1>8. \A j \in 1..(n - i) : b[j] = s[i + j]
  <2>1. \A j \in 1..(n - (i + 1) + 1) : b[j] = s[(i + 1) + j - 1]
    BY <1>4, <1>5
  <2>2. ASSUME NEW j \in 1..(n - i)
        PROVE  j \in 1..(n - (i + 1) + 1) /\ (i + 1) + j - 1 = i + j
    BY <1>2
  <2> QED BY <2>1, <2>2
<1>9. PICK r \in Seq(S) :
        /\ r = Dropped(s, i)
        /\ Len(r) = (i - 1) + (n - i)
        /\ \A j \in 1..((i - 1) + (n - i)) : r[j] = IF j <= i - 1 THEN a[j] ELSE b[j - (i - 1)]
  <2>1. Dropped(s, i) = a \o b
    BY <1>1, <1>5 DEF Dropped
  <2>2. /\ a \o b \in Seq(S)
        /\ Len(a \o b) = Len(a) + Len(b)
        /\ \A j \in 1..(Len(a) + Len(b)) :
              (a \o b)[j] = IF j <= Len(a) THEN a[j] ELSE b[j - Len(a)]
    BY ConcatProperties
  <2> QED BY <1>6, <2>1, <2>2
<1>10. ASSUME NEW j \in 1..(n - 1)
       PROVE  r[j] = IF j < i THEN s[j] ELSE s[j + 1]
  <2>1. r[j] = IF j <= i - 1 THEN a[j] ELSE b[j - (i - 1)]
    BY <1>2, <1>9
  <2>2. CASE j < i
    BY <1>2, <1>7, <2>1, <2>2
  <2>3. CASE ~(j < i)
    <3>1. /\ j - (i - 1) \in 1..(n - i)
          /\ i + (j - (i - 1)) = j + 1
          /\ ~(j <= i - 1)
      BY <1>2, <2>3
    <3> QED BY <1>8, <2>1, <2>3, <3>1
  <2> QED BY <2>2, <2>3
<1>11. Len(r) = n - 1
  BY <1>2, <1>9
<1> QED
  BY <1>1, <1>9, <1>10, <1>11

(* Removing the element at position i of a sequence without repetitions    *)
(* removes that thread and no other.                                       *)
LEMMA DroppedFacts ==
    ASSUME NEW S, NEW s \in Seq(S), NEW i \in DOMAIN s, IsInjective(s)
    PROVE  /\ Dropped(s, i) \in Seq(S)
           /\ Range(Dropped(s, i)) = Range(s) \ {s[i]}
           /\ IsInjective(Dropped(s, i))
<1>1. PICK n \in Nat : n = Len(s) /\ DOMAIN s = 1..n /\ i \in 1..n
  OBVIOUS
<1>2. PICK r \in Seq(S) :
        /\ r = Dropped(s, i)
        /\ Len(r) = n - 1
        /\ \A j \in 1..(n - 1) : r[j] = IF j < i THEN s[j] ELSE s[j + 1]
  BY <1>1, DroppedElements, ZenonT(60)
<1>3. DOMAIN r = 1..(n - 1)
  BY <1>1, <1>2
<1>4. \A j, k \in 1..n : s[j] = s[k] => j = k
  BY <1>1 DEF IsInjective
<1>5. IsInjective(r)
  <2> SUFFICES ASSUME NEW j \in 1..(n - 1), NEW k \in 1..(n - 1), r[j] = r[k]
               PROVE  j = k
    BY <1>3 DEF IsInjective
  <2>1. /\ r[j] = IF j < i THEN s[j] ELSE s[j + 1]
        /\ r[k] = IF k < i THEN s[k] ELSE s[k + 1]
    BY <1>2
  <2>2. j \in 1..n /\ j + 1 \in 1..n /\ k \in 1..n /\ k + 1 \in 1..n
    BY <1>1
  <2>3. CASE j < i /\ k < i
    BY <1>4, <2>1, <2>2, <2>3
  <2>4. CASE ~(j < i) /\ ~(k < i)
    <3>1. s[j + 1] = s[k + 1]
      BY <2>1, <2>4
    <3>2. j + 1 = k + 1
      BY <1>4, <2>2, <3>1
    <3> QED BY <3>2
  <2>5. CASE j < i /\ ~(k < i)
    <3>1. j = k + 1
      BY <1>4, <2>1, <2>2, <2>5
    <3> QED BY <1>1, <2>5, <3>1
  <2>6. CASE ~(j < i) /\ k < i
    <3>1. j + 1 = k
      BY <1>4, <2>1, <2>2, <2>6
    <3> QED BY <1>1, <2>6, <3>1
  <2> QED BY <2>3, <2>4, <2>5, <2>6
<1>6. ASSUME NEW j \in 1..(n - 1)
      PROVE  \E k \in 1..n : k # i /\ r[j] = s[k]
  <2>1. CASE j < i
    BY <1>1, <1>2, <2>1
  <2>2. CASE ~(j < i)
    <3>1. j + 1 \in 1..n /\ j + 1 # i /\ r[j] = s[j + 1]
      BY <1>1, <1>2, <2>2
    <3> QED BY <3>1
  <2> QED BY <2>1, <2>2
<1>7. ASSUME NEW k \in 1..n, k # i
      PROVE  \E j \in 1..(n - 1) : r[j] = s[k]
  <2>1. CASE k < i
    <3>1. k \in 1..(n - 1) /\ r[k] = s[k]
      BY <1>1, <1>2, <2>1
    <3> QED BY <3>1
  <2>2. CASE k > i
    <3>1. k - 1 \in 1..(n - 1) /\ r[k - 1] = s[k]
      BY <1>1, <1>2, <2>2
    <3> QED BY <3>1
  <2> QED BY <1>1, <1>7, <2>1, <2>2
<1>8. Range(r) = Range(s) \ {s[i]}
  <2>1. Range(r) = {r[j] : j \in 1..(n - 1)} /\ Range(s) = {s[k] : k \in 1..n}
    BY <1>1, <1>3 DEF Range
  <2>2. ASSUME NEW x \in Range(r)
        PROVE  x \in Range(s) /\ x # s[i]
    BY <1>1, <1>4, <1>6, <2>1
  <2>3. ASSUME NEW x \in Range(s), x # s[i]
        PROVE  x \in Range(r)
    BY <1>7, <2>1, <2>3
  <2> QED BY <2>2, <2>3
<1> QED
  BY <1>2, <1>5, <1>8

(* Tail is the removal of the first element.                               *)
LEMMA TailFacts ==
    ASSUME NEW S, NEW s \in Seq(S), s # <<>>, IsInjective(s)
    PROVE  /\ Head(s) \in S /\ Head(s) \in Range(s)
           /\ Tail(s) \in Seq(S)
           /\ Range(Tail(s)) = Range(s) \ {Head(s)}
           /\ IsInjective(Tail(s))
<1>1. PICK n \in Nat : n = Len(s) /\ n > 0 /\ DOMAIN s = 1..n
  OBVIOUS
<1>2. PICK r \in Seq(S) : /\ r = Tail(s) /\ Len(r) = n - 1
                          /\ \A i \in 1..(n - 1) : r[i] = s[i + 1]
  <2>1. /\ Tail(s) \in Seq(S)
        /\ Len(Tail(s)) = Len(s) - 1
        /\ \A i \in 1..Len(Tail(s)) : Tail(s)[i] = s[i + 1]
    BY HeadTailProperties
  <2> QED BY <1>1, <2>1
<1>3. DOMAIN r = 1..(n - 1)
  BY <1>1, <1>2
<1>4. \A j, k \in 1..n : s[j] = s[k] => j = k
  BY <1>1 DEF IsInjective
<1>5. Head(s) = s[1] /\ Head(s) \in S
  BY <1>1
<1>6. \A i \in 1..(n - 1) : i + 1 \in 1..n /\ i + 1 # 1
  BY <1>1
<1>7. IsInjective(r)
  <2> SUFFICES ASSUME NEW j \in 1..(n - 1), NEW k \in 1..(n - 1), r[j] = r[k]
               PROVE  j = k
    BY <1>3 DEF IsInjective
  <2>1. j + 1 = k + 1
    BY <1>2, <1>4, <1>6
  <2> QED BY <2>1
<1>8. Range(r) = {r[j] : j \in 1..(n - 1)} /\ Range(s) = {s[k] : k \in 1..n}
  BY <1>1, <1>3 DEF Range
<1>9. ASSUME NEW x \in Range(r)
      PROVE  x \in Range(s) /\ x # s[1]
  <2>1. PICK j \in 1..(n - 1) : x = r[j]
    BY <1>8
  <2>2. x = s[j + 1] /\ j + 1 \in 1..n /\ j + 1 # 1
    BY <1>2, <1>6, <2>1
  <2> QED BY <1>1, <1>4, <1>8, <2>2
<1>10. ASSUME NEW x \in Range(s), x # s[1]
       PROVE  x \in Range(r)
  <2>1. PICK k \in 1..n : x = s[k] /\ k # 1
    BY <1>8, <1>10
  <2>2. k - 1 \in 1..(n - 1) /\ (k - 1) + 1 = k
    BY <1>1, <2>1
  <2>3. r[k - 1] = s[k]
    BY <1>2, <2>2
  <2> QED BY <1>8, <2>1, <2>2, <2>3
<1>11. s[1] \in Range(s)
  BY <1>1, <1>8
<1> QED
  BY <1>2, <1>5, <1>7, <1>9, <1>10, <1>11

(* Putting a new element in front.                                         *)
LEMMA PrependFacts ==
    ASSUME NEW S, NEW s \in Seq(S), NEW x \in S
    PROVE  /\ <<x>> \o s \in Seq(S)
           /\ Range(<<x>> \o s) = Range(s) \cup {x}
           /\ IsInjective(s) /\ x \notin Range(s) => IsInjective(<<x>> \o s)
<1>1. PICK n \in Nat : n = Len(s) /\ DOMAIN s = 1..n
  OBVIOUS
<1>2. PICK u \in Seq(S) : u = <<x>> /\ Len(u) = 1 /\ u[1] = x
  <2>1. <<x>> \in Seq(S) /\ Len(<<x>>) = 1 /\ <<x>>[1] = x
    OBVIOUS
  <2> QED BY <2>1
<1>3. PICK r \in Seq(S) : /\ r = <<x>> \o s /\ Len(r) = 1 + n
                          /\ \A i \in 1..(1 + n) : r[i] = IF i <= 1 THEN u[i] ELSE s[i - 1]
  <2>1. /\ u \o s \in Seq(S)
        /\ Len(u \o s) = Len(u) + Len(s)
        /\ \A i \in 1..(Len(u) + Len(s)) :
              (u \o s)[i] = IF i <= Len(u) THEN u[i] ELSE s[i - Len(u)]
    BY ConcatProperties
  <2>2. <<x>> \o s = u \o s
    BY <1>2
  <2> QED BY <1>1, <1>2, <2>1, <2>2
<1>4. DOMAIN r = 1..(1 + n)
  BY <1>1, <1>3
<1>5. r[1] = x /\ \A i \in 1..n : i + 1 \in 1..(1 + n) /\ r[i + 1] = s[i]
  <2>1. r[1] = x
    BY <1>1, <1>2, <1>3
  <2>2. ASSUME NEW i \in 1..n
        PROVE  i + 1 \in 1..(1 + n) /\ r[i + 1] = s[i]
    <3>1. i + 1 \in 1..(1 + n) /\ ~(i + 1 <= 1) /\ (i + 1) - 1 = i
      BY <1>1
    <3> QED BY <1>3, <3>1
  <2> QED BY <2>1, <2>2
<1>6. \A j \in 1..(1 + n) : j = 1 \/ \E i \in 1..n : j = i + 1
  <2> SUFFICES ASSUME NEW j \in 1..(1 + n), j # 1
               PROVE  \E i \in 1..n : j = i + 1
    OBVIOUS
  <2>1. j - 1 \in 1..n /\ j = (j - 1) + 1
    BY <1>1
  <2> QED BY <2>1
<1>7. Range(r) = {r[j] : j \in 1..(1 + n)} /\ Range(s) = {s[i] : i \in 1..n}
  BY <1>1, <1>4 DEF Range
<1>8. Range(r) = Range(s) \cup {x}
  <2>1. 1 \in 1..(1 + n)
    BY <1>1
  <2>2. ASSUME NEW y \in Range(r)
        PROVE  y \in Range(s) \cup {x}
    <3>1. PICK j \in 1..(1 + n) : y = r[j]
      BY <1>7
    <3>2. CASE j = 1
      BY <1>5, <3>1, <3>2
    <3>3. CASE \E i \in 1..n : j = i + 1
      BY <1>5, <1>7, <3>1, <3>3
    <3> QED BY <1>6, <3>2, <3>3
  <2>3. ASSUME NEW y \in Range(s)
        PROVE  y \in Range(r)
    BY <1>5, <1>7
  <2>4. x \in Range(r)
    BY <1>5, <1>7, <2>1
  <2> QED BY <2>2, <2>3, <2>4
<1>9. ASSUME IsInjective(s), x \notin Range(s)
      PROVE  IsInjective(r)
  <2> SUFFICES ASSUME NEW j \in 1..(1 + n), NEW k \in 1..(1 + n), r[j] = r[k]
               PROVE  j = k
    BY <1>4 DEF IsInjective
  <2>1. \A a, b \in 1..n : s[a] = s[b] => a = b
    BY <1>1, <1>9 DEF IsInjective
  <2>2. \A i \in 1..n : r[i + 1] # x
    BY <1>5, <1>7, <1>9
  <2>3. CASE j = 1
    BY <1>5, <1>6, <2>2, <2>3
  <2>4. CASE k = 1
    BY <1>5, <1>6, <2>2, <2>4
  <2>5. CASE j # 1 /\ k # 1
    <3>1. PICK a \in 1..n, b \in 1..n : j = a + 1 /\ k = b + 1
      BY <1>6, <2>5
    <3>2. s[a] = s[b]
      BY <1>5, <3>1
    <3> QED BY <2>1, <3>1, <3>2
  <2> QED BY <2>3, <2>4, <2>5
<1> QED
  BY <1>3, <1>8, <1>9

-----------------------------------------------------------------------------
(* Every non-empty set of naturals has a least element: induction is done  *)
(* by looking at the least counterexample.                                 *)
LEMMA LeastNatural ==
    ASSUME NEW T, T \subseteq Nat, T # {}
    PROVE  \E x \in T : \A y \in T : x <= y
<1> DEFINE R == {ss \in Nat \X Nat : ss[1] < ss[2]}
<1>1. IsWellFoundedOn(R, Nat)
  BY NatLessThanWellFounded DEF OpToRel
<1>2. \A x, y \in Nat : y < x => <<y, x>> \in R
  OBVIOUS
<1> HIDE DEF R
<1>3. PICK x \in T : \A y \in T : ~ (<<y, x>> \in R)
  BY <1>1, WFMin
<1>4. \A y \in T : ~(y < x)
  BY <1>2, <1>3
<1>5. \A y \in T : x <= y
  BY <1>4
<1> QED
  BY <1>5

(* A function on 0..n with values in V given by recursion exists: it       *)
(* starts with v, and g takes it from one value to the next.               *)
Recursive(F, V, v, n, g) ==
    F \in [0..n -> V] /\ F[0] = v /\ \A i \in 1..n : F[i] = g[<<i, F[i - 1]>>]

LEMMA RecursionExists ==
    ASSUME NEW V, NEW v \in V, NEW n \in Nat, NEW g \in [(1..n) \X V -> V]
    PROVE  \E F : Recursive(F, V, v, n, g)
<1> USE DEF Recursive
<1> DEFINE Good(m) == \E F : Recursive(F, V, v, m, g)
           Bad == {m \in 0..n : ~Good(m)}
<1>1. SUFFICES ASSUME Bad # {} PROVE FALSE
  OBVIOUS
<1>a. Bad \subseteq 0..n /\ Bad \subseteq Nat /\ \A k \in 0..n : k \in Bad <=> ~Good(k)
  OBVIOUS
<1> HIDE DEF Bad
<1>2. PICK m \in Bad : \A k \in Bad : m <= k
  BY <1>1, <1>a, LeastNatural
<1>3. m \in 0..n /\ ~Good(m)
  BY <1>2, <1>a
<1>4. CASE m = 0
  <2> DEFINE G == [i \in 0..0 |-> v]
  <2>1. G \in [0..0 -> V] /\ G[0] = v /\ \A i \in 1..0 : G[i] = g[<<i, G[i - 1]>>]
    OBVIOUS
  <2> HIDE DEF G
  <2>2. Good(0)
    BY <2>1
  <2> QED
    BY <1>3, <1>4, <2>2
<1>5. CASE m # 0
  <2>1. m - 1 \in 0..n /\ m - 1 \notin Bad /\ m \in 1..n /\ m \in Nat
    BY <1>2, <1>3, <1>5, <1>a
  <2>2. PICK F \in [0..(m - 1) -> V] : F[0] = v /\ \A i \in 1..(m - 1) : F[i] = g[<<i, F[i - 1]>>]
    BY <1>a, <2>1
  <2> DEFINE G == [i \in 0..m |-> IF i = m THEN g[<<m, F[m - 1]>>] ELSE F[i]]
  <2>3. F[m - 1] \in V
    BY <2>1, <2>2
  <2>4. G \in [0..m -> V]
    BY <2>1, <2>2, <2>3
  <2>5. G[0] = v
    BY <2>1, <2>2
  <2>6. ASSUME NEW i \in 1..m PROVE G[i] = g[<<i, G[i - 1]>>]
    <3>1. G[i - 1] = F[i - 1]
      BY <2>1
    <3>2. CASE i = m
      <4>1. G[i] = g[<<m, F[m - 1]>>] /\ G[i - 1] = F[m - 1]
        BY <2>1, <3>1, <3>2
      <4> QED
        BY <3>2, <4>1
    <3>3. CASE i # m
      BY <2>1, <2>2, <3>1, <3>3
    <3> QED
      BY <3>2, <3>3
  <2> HIDE DEF G
  <2> QED
    BY <1>3, <2>4, <2>5, <2>6
<1> QED
  BY <1>4, <1>5

(* F[n] holds the elements of s[1..n] that are in K, in their order.       *)
IsFilter(F, s, K) ==
    F = [n \in 0..Len(s) |-> IF n = 0 THEN <<>>
                             ELSE IF s[n] \in K THEN Append(F[n - 1], s[n]) ELSE F[n - 1]]

(* e embeds t into the first n elements of s, hitting those in K.          *)
Embeds(e, t, s, n, K) ==
    /\ Len(t) <= n /\ e \in [1..Len(t) -> 1..n]
    /\ \A a, b \in 1..Len(t) : a < b => e[a] < e[b]
    /\ \A a \in 1..Len(t) : t[a] = s[e[a]]
    /\ \A i \in 1..n : s[i] \in K <=> \E a \in 1..Len(t) : e[a] = i

(* The function that SelectSeq-like definitions compute exists ...         *)
LEMMA FilterExists ==
    ASSUME NEW S, NEW s \in Seq(S), NEW K
    PROVE  \E F : IsFilter(F, s, K)
<1> DEFINE V == Seq(S)
           g == [p \in (1..Len(s)) \X V |-> IF s[p[1]] \in K THEN Append(p[2], s[p[1]]) ELSE p[2]]
<1>1. <<>> \in V /\ Len(s) \in Nat
  OBVIOUS
<1>2. g \in [(1..Len(s)) \X V -> V]
  OBVIOUS
<1>3. \A i \in 1..Len(s), t \in V : g[<<i, t>>] = IF s[i] \in K THEN Append(t, s[i]) ELSE t
  OBVIOUS
<1> HIDE DEF V, g
<1>4. \E F \in [0..Len(s) -> V] : F[0] = <<>> /\ \A i \in 1..Len(s) : F[i] = g[<<i, F[i - 1]>>]
  <2> DEFINE v == <<>>
             len == Len(s)
  <2>1. v \in V /\ len \in Nat /\ g \in [(1..len) \X V -> V]
    BY <1>1, <1>2
  <2> HIDE DEF v, len
  <2>2. \E F : Recursive(F, V, v, len, g)
    BY <2>1, RecursionExists
  <2> QED
    BY <2>2 DEF v, len, Recursive
<1>b. PICK F \in [0..Len(s) -> V] : F[0] = <<>> /\ \A i \in 1..Len(s) : F[i] = g[<<i, F[i - 1]>>]
  BY <1>4
<1>5. ASSUME NEW i \in 1..Len(s)
      PROVE  F[i] = IF s[i] \in K THEN Append(F[i - 1], s[i]) ELSE F[i - 1]
  <2>1. i - 1 \in 0..Len(s)
    BY <1>1
  <2>2. F[i - 1] \in V
    BY <1>b, <2>1
  <2> QED
    BY <1>3, <1>b, <2>2
<1>6. F = [n \in 0..Len(s) |-> F[n]]
  BY <1>b
<1>7. ASSUME NEW n \in 0..Len(s)
      PROVE  F[n] = IF n = 0 THEN <<>>
                    ELSE IF s[n] \in K THEN Append(F[n - 1], s[n]) ELSE F[n - 1]
  <2>1. CASE n = 0
    BY <1>b, <2>1
  <2>2. CASE n # 0
    <3>1. n \in 1..Len(s)
      BY <1>1, <2>2
    <3> QED
      BY <1>5, <2>2, <3>1
  <2> QED
    BY <2>1, <2>2
<1>8. IsFilter(F, s, K)
  BY <1>6, <1>7 DEF IsFilter
<1> QED
  BY <1>8

(* ... and its last value is a subsequence of s: the elements in K, no     *)
(* other ones, in their order.                                             *)
LEMMA FilterEmbeds ==
    ASSUME NEW S, NEW s \in Seq(S), NEW K, NEW F, IsFilter(F, s, K)
    PROVE  F[Len(s)] \in Seq(S) /\ \E e : Embeds(e, F[Len(s)], s, Len(s), K)
<1> DEFINE Good(n) == F[n] \in Seq(S) /\ \E e : Embeds(e, F[n], s, n, K)
           Bad == {n \in 0..Len(s) : ~Good(n)}
<1>z. Len(s) \in Nat
  OBVIOUS
<1>y. ASSUME NEW n \in 0..Len(s)
      PROVE  F[n] = IF n = 0 THEN <<>>
                    ELSE IF s[n] \in K THEN Append(F[n - 1], s[n]) ELSE F[n - 1]
  BY DEF IsFilter
<1>0. /\ Len(s) \in Nat /\ F[0] = <<>>
      /\ \A i \in 1..Len(s) : F[i] = IF s[i] \in K THEN Append(F[i - 1], s[i]) ELSE F[i - 1]
  BY <1>y, <1>z
<1>1. SUFFICES ASSUME Bad # {} PROVE FALSE
  BY <1>0
<1>a. Bad \subseteq 0..Len(s) /\ Bad \subseteq Nat /\ \A k \in 0..Len(s) : k \in Bad <=> ~Good(k)
  BY <1>z
<1> HIDE DEF Bad
<1>2. PICK n \in Bad : \A k \in Bad : n <= k
  BY <1>1, <1>a, LeastNatural
<1>3. n \in 0..Len(s) /\ n \in Nat /\ ~Good(n)
  BY <1>2, <1>a
<1>4. CASE n = 0
  <2> DEFINE e == [a \in 1..0 |-> 0]
  <2>1. Embeds(e, <<>>, s, 0, K)
    BY DEF Embeds
  <2> HIDE DEF e
  <2>2. Embeds(e, F[n], s, n, K) /\ F[n] \in Seq(S)
    <3>1. F[n] = <<>> /\ <<>> \in Seq(S)
      BY <1>0, <1>4
    <3> QED
      BY <1>4, <2>1, <3>1
  <2> QED
    BY <1>3, <2>2
<1>5. CASE n # 0
  <2>1. n - 1 \in 0..Len(s) /\ n - 1 \notin Bad /\ n \in 1..Len(s)
    BY <1>a, <1>z, <1>2, <1>3, <1>5
  <2>2. PICK e : Embeds(e, F[n - 1], s, n - 1, K)
    BY <1>a, <2>1
  <2> DEFINE t == F[n - 1]
  <2>3. t \in Seq(S) /\ Len(t) \in Nat
    BY <1>a, <2>1
  <2>4. CASE s[n] \notin K
    <3>1. F[n] = t
      BY <1>0, <2>1, <2>4
    <3>2. Embeds(e, t, s, n, K)
      <4>1. Len(t) <= n /\ e \in [1..Len(t) -> 1..n]
        BY <2>2, <2>3, <1>3 DEF Embeds
      <4>2. \A i \in 1..n : s[i] \in K <=> \E a \in 1..Len(t) : e[a] = i
        <5> SUFFICES ASSUME NEW i \in 1..n PROVE s[i] \in K <=> \E a \in 1..Len(t) : e[a] = i
          OBVIOUS
        <5>1. CASE i = n
          BY <2>2, <2>4, <5>1, <1>3 DEF Embeds
        <5>2. CASE i # n
          BY <2>2, <5>2, <1>3 DEF Embeds
        <5> QED
          BY <5>1, <5>2
      <4> QED
        BY <2>2, <4>1, <4>2 DEF Embeds
    <3> QED
      BY <1>3, <2>3, <3>1, <3>2
  <2>5. CASE s[n] \in K
    <3> DEFINE u == Append(t, s[n])
               f == [a \in 1..(Len(t) + 1) |-> IF a = Len(t) + 1 THEN n ELSE e[a]]
    <3>1. F[n] = u
      BY <1>0, <2>1, <2>5
    <3>2. /\ u \in Seq(S) /\ Len(u) = Len(t) + 1 /\ u[Len(t) + 1] = s[n]
          /\ \A a \in 1..Len(t) : u[a] = t[a]
      BY <2>1, <2>3
    <3> HIDE DEF t, u
    <3>3. /\ \A a \in 1..Len(t) : e[a] \in 1..(n - 1)
          /\ \A a, b \in 1..Len(t) : a < b => e[a] < e[b]
          /\ \A a \in 1..Len(t) : t[a] = s[e[a]]
          /\ \A i \in 1..(n - 1) : s[i] \in K <=> \E a \in 1..Len(t) : e[a] = i
      BY <2>2 DEF Embeds, t
    <3>d. Len(u) <= n
      BY <1>3, <2>2, <2>3, <3>2 DEF Embeds, t
    <3>4. f \in [1..Len(u) -> 1..n]
      BY <1>3, <1>5, <2>3, <3>2, <3>3
    <3>c. /\ \A a \in 1..Len(t) : a \in 1..Len(u) /\ f[a] = e[a]
          /\ Len(t) + 1 \in 1..Len(u) /\ f[Len(t) + 1] = n
          /\ \A a \in 1..Len(u) : a \in 1..Len(t) \/ a = Len(t) + 1
      BY <2>3, <3>2
    <3> HIDE DEF f
    <3>5. ASSUME NEW a \in 1..Len(u), NEW b \in 1..Len(u), a < b PROVE f[a] < f[b]
      <4>1. a \in 1..Len(t)
        BY <2>3, <3>2, <3>5
      <4>2. CASE b \in 1..Len(t)
        BY <3>3, <3>5, <3>c, <4>1, <4>2
      <4>3. CASE b = Len(t) + 1
        <5>1. f[a] \in 1..(n - 1) /\ f[b] = n
          BY <3>3, <3>c, <4>1, <4>3
        <5> QED
          BY <1>3, <5>1
      <4> QED
        BY <3>c, <4>2, <4>3
    <3>6. ASSUME NEW a \in 1..Len(u) PROVE u[a] = s[f[a]]
      <4>1. CASE a \in 1..Len(t)
        BY <3>2, <3>3, <3>c, <4>1
      <4>2. CASE a = Len(t) + 1
        BY <3>2, <3>c, <4>2
      <4> QED
        BY <3>c, <4>1, <4>2
    <3>7. ASSUME NEW i \in 1..n PROVE s[i] \in K <=> \E a \in 1..Len(u) : f[a] = i
      <4>1. CASE i = n
        BY <2>5, <3>c, <4>1
      <4>2. CASE i # n
        <5>0. i \in 1..(n - 1)
          BY <1>3, <4>2
        <5>1. ASSUME NEW a \in 1..Len(t), e[a] = i PROVE \E b \in 1..Len(u) : f[b] = i
          BY <3>c, <5>1
        <5>2. ASSUME NEW a \in 1..Len(u), f[a] = i PROVE \E b \in 1..Len(t) : e[b] = i
          BY <3>c, <4>2, <5>2
        <5> QED
          BY <3>3, <5>0, <5>1, <5>2
      <4> QED
        BY <4>1, <4>2
    <3>8. Embeds(f, u, s, n, K)
      BY <3>4, <3>5, <3>6, <3>7, <3>d DEF Embeds
    <3> QED
      BY <1>3, <3>1, <3>2, <3>8
  <2> QED
    BY <2>4, <2>5
<1> QED
  BY <1>4, <1>5
=============================================================================
