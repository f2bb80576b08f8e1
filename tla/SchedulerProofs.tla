-------------------------- MODULE SchedulerProofs --------------------------
(***************************************************************************)
(* Theorems about Scheduler for any number of tasks, mutexes and           *)
(* priorities: its types, the queues, the mutexes, joins and sleeps.       *)
(***************************************************************************)
EXTENDS Scheduler, SequenceTheorems, WellFoundedInduction, TLAPS

-----------------------------------------------------------------------------
\* Sequences and minima.

\* A set of natural numbers that is not empty has a smallest element.
LEMMA NatHasMin ==
  ASSUME NEW S, S \subseteq Nat, S # {}
  PROVE  \E n \in S : \A k \in S : n <= k
<1> DEFINE R == {p \in Nat \X Nat : p[1] < p[2]}
<1>1. IsWellFoundedOn(R, Nat)
  BY NatLessThanWellFounded, Zenon DEF OpToRel
<1>2. PICK n \in S : \A k \in S : ~ (<<k, n>> \in R)
  BY <1>1, WFMin
<1>3. ASSUME NEW k \in S PROVE n <= k
  <2>1. ~ (<<k, n>> \in R)
    BY <1>2
  <2>2. k \in Nat /\ n \in Nat
    OBVIOUS
  <2> QED BY <2>1, <2>2
<1> QED BY <1>3

\* Min is the smallest element, of natural numbers or from -1 on.
LEMMA MinOf ==
  ASSUME NEW S, S \subseteq Int, \A k \in S : -1 <= k, S # {}
  PROVE  Min(S) \in S /\ \A k \in S : Min(S) <= k
<1> DEFINE T == {k + 1 : k \in S}
<1>1. T \subseteq Nat /\ T # {}
  <2>1. \A k \in S : k + 1 \in Nat
    OBVIOUS
  <2> QED BY <2>1
<1>2. PICK n \in T : \A k \in T : n <= k
  BY <1>1, NatHasMin
<1>3. \A k \in S : n - 1 <= k
  <2> TAKE k \in S
  <2>1. k + 1 \in T
    OBVIOUS
  <2> QED BY <2>1, <1>2, <1>1
<1>4. n - 1 \in S
  BY <1>1
<1> QED BY <1>3, <1>4 DEF Min

\* An element of a sequence is in its range.
LEMMA InRange ==
  ASSUME NEW T, NEW q \in Seq(T), NEW j \in 1 .. Len(q)
  PROVE  q[j] \in Range(q)
<1>1. DOMAIN q = 1 .. Len(q)
  OBVIOUS
<1> QED BY <1>1 DEF Range

\* SelectInSeq(q, LAMBDA u : u \in S)
IndexIn(q, S) ==
  LET I == {j \in 1 .. Len(q) : q[j] \in S} IN IF I # {} THEN Min(I) ELSE 0

\* SelectInSeq finds an element of S, or there is none.
LEMMA IndexFacts ==
  ASSUME NEW T, NEW q \in Seq(T), NEW S
  PROVE  /\ IndexIn(q, S) \in 0 .. Len(q)
         /\ IndexIn(q, S) = 0 => Range(q) \cap S = {}
         /\ IndexIn(q, S) # 0 => q[IndexIn(q, S)] \in S /\ q[IndexIn(q, S)] \in Range(q)
<1> DEFINE I == {j \in 1 .. Len(q) : q[j] \in S}
           i == IndexIn(q, S)
<1>1. I \subseteq Int /\ \A k \in I : -1 <= k
  OBVIOUS
<1>2. i = IF I # {} THEN Min(I) ELSE 0
  BY DEF IndexIn
<1> HIDE DEF i
<1>3. CASE I = {}
  <2>1. i = 0
    BY <1>2, <1>3
  <2>2. Range(q) \cap S = {}
    BY <1>3 DEF Range
  <2> QED BY <2>1, <2>2 DEF i
<1>4. CASE I # {}
  <2>1. i \in I
    BY <1>1, <1>2, <1>4, MinOf
  <2>2. i \in 1 .. Len(q) /\ q[i] \in S
    BY <2>1
  <2>3. q[i] \in Range(q)
    BY <2>2, InRange
  <2> QED BY <2>2, <2>3 DEF i
<1> QED BY <1>3, <1>4

\* The sequence a \o <<t>> \o b, element by element.
LEMMA Joined ==
  ASSUME NEW T, NEW a \in Seq(T), NEW t \in T, NEW b \in Seq(T)
  PROVE  /\ a \o <<t>> \o b \in Seq(T)
         /\ Len(a \o <<t>> \o b) = Len(a) + 1 + Len(b)
         /\ \A j \in 1 .. Len(a) + 1 + Len(b) : (a \o <<t>> \o b)[j] =
              IF j <= Len(a) THEN a[j]
              ELSE IF j = Len(a) + 1 THEN t ELSE b[j - (Len(a) + 1)]
<1> DEFINE c == a \o <<t>>
<1>1. <<t>> \in Seq(T) /\ Len(<<t>>) = 1 /\ <<t>>[1] = t
  OBVIOUS
<1>2. Len(a) \in Nat /\ Len(b) \in Nat
  OBVIOUS
<1>3. c \in Seq(T) /\ Len(c) = Len(a) + 1
      /\ \A j \in 1 .. Len(a) + 1 : c[j] = IF j <= Len(a) THEN a[j] ELSE t
  <2>1. c \in Seq(T) /\ Len(c) = Len(a) + 1
    BY <1>1, ConcatProperties
  <2>2. ASSUME NEW j \in 1 .. Len(a) + 1
        PROVE  c[j] = IF j <= Len(a) THEN a[j] ELSE t
    <3>1. c[j] = IF j <= Len(a) THEN a[j] ELSE <<t>>[j - Len(a)]
      BY <1>1, ConcatProperties
    <3>2. j <= Len(a) \/ j - Len(a) = 1
      BY <1>2
    <3> QED BY <3>1, <3>2, <1>1
  <2> QED BY <2>1, <2>2
<1> HIDE DEF c
<1>4. c \o b \in Seq(T) /\ Len(c \o b) = Len(a) + 1 + Len(b)
  <2>1. c \o b \in Seq(T) /\ Len(c \o b) = Len(c) + Len(b)
    BY <1>3, ConcatProperties
  <2> QED BY <2>1, <1>2, <1>3
<1>5. ASSUME NEW j \in 1 .. Len(a) + 1 + Len(b)
      PROVE  (c \o b)[j] =
                  IF j <= Len(a) THEN a[j]
                  ELSE IF j = Len(a) + 1 THEN t ELSE b[j - (Len(a) + 1)]
  <2>1. (c \o b)[j] = IF j <= Len(a) + 1 THEN c[j] ELSE b[j - (Len(a) + 1)]
    BY <1>3, ConcatProperties
  <2>2. j <= Len(a) + 1 => c[j] = IF j <= Len(a) THEN a[j] ELSE t
    BY <1>2, <1>3
  <2> QED BY <2>1, <2>2, <1>2
<1> QED BY <1>4, <1>5 DEF c

\* A piece of a sequence, element by element.
LEMMA PieceOf ==
  ASSUME NEW T, NEW q \in Seq(T), NEW m \in 1 .. Len(q) + 1, NEW n \in m - 1 .. Len(q)
  PROVE  /\ SubSeq(q, m, n) \in Seq(T)
         /\ Len(SubSeq(q, m, n)) = n - m + 1
         /\ \A j \in 1 .. n - m + 1 : SubSeq(q, m, n)[j] = q[m + j - 1]
<1>1. Len(q) \in Nat /\ m \in Int /\ n \in Int
  OBVIOUS
<1>2. \A j \in m .. n : q[j] \in T
  BY <1>1, ElementOfSeq
<1>3. /\ SubSeq(q, m, n) \in Seq(T)
      /\ Len(SubSeq(q, m, n)) = IF m <= n THEN n - m + 1 ELSE 0
      /\ \A j \in 1 .. n - m + 1 : SubSeq(q, m, n)[j] = q[m + j - 1]
  BY <1>1, <1>2, SubSeqProperties
<1> QED BY <1>1, <1>3

\* What comes before position i.
LEMMA FrontOf ==
  ASSUME NEW T, NEW q \in Seq(T), NEW i \in 1 .. Len(q) + 1
  PROVE  /\ SubSeq(q, 1, i - 1) \in Seq(T)
         /\ Len(SubSeq(q, 1, i - 1)) = i - 1
         /\ \A j \in 1 .. i - 1 : SubSeq(q, 1, i - 1)[j] = q[j]
<1>1. Len(q) \in Nat /\ i - 1 \in 1 - 1 .. Len(q) /\ 1 \in 1 .. Len(q) + 1
  OBVIOUS
<1>2. /\ SubSeq(q, 1, i - 1) \in Seq(T)
      /\ Len(SubSeq(q, 1, i - 1)) = (i - 1) - 1 + 1
      /\ \A j \in 1 .. (i - 1) - 1 + 1 : SubSeq(q, 1, i - 1)[j] = q[1 + j - 1]
  BY <1>1, PieceOf
<1>3. (i - 1) - 1 + 1 = i - 1 /\ \A j \in 1 .. i - 1 : 1 + j - 1 = j
  OBVIOUS
<1> QED BY <1>2, <1>3

\* What comes from position i on.
LEMMA BackOf ==
  ASSUME NEW T, NEW q \in Seq(T), NEW i \in 1 .. Len(q) + 1
  PROVE  /\ SubSeq(q, i, Len(q)) \in Seq(T)
         /\ Len(SubSeq(q, i, Len(q))) = Len(q) + 1 - i
         /\ \A j \in i .. Len(q) : SubSeq(q, i, Len(q))[j + 1 - i] = q[j]
<1>1. Len(q) \in Nat /\ Len(q) \in i - 1 .. Len(q)
  OBVIOUS
<1>2. /\ SubSeq(q, i, Len(q)) \in Seq(T)
      /\ Len(SubSeq(q, i, Len(q))) = Len(q) - i + 1
      /\ \A j \in 1 .. Len(q) - i + 1 : SubSeq(q, i, Len(q))[j] = q[i + j - 1]
  BY <1>1, PieceOf
<1>3. ASSUME NEW j \in i .. Len(q)
      PROVE  SubSeq(q, i, Len(q))[j + 1 - i] = q[j]
  <2>1. j + 1 - i \in 1 .. Len(q) - i + 1 /\ i + (j + 1 - i) - 1 = j
    BY <1>1
  <2> QED BY <1>2, <2>1
<1>4. Len(q) - i + 1 = Len(q) + 1 - i
  BY <1>1
<1> QED BY <1>2, <1>3, <1>4

\* An insertion keeps the order of the others.
LEMMA InsertAtFacts ==
  ASSUME NEW T, NEW q \in Seq(T), NEW t \in T, NEW i \in 1 .. Len(q) + 1
  PROVE  /\ InsertAt(q, i, t) \in Seq(T)
         /\ Len(InsertAt(q, i, t)) = Len(q) + 1
         /\ \A j \in 1 .. Len(q) + 1 : InsertAt(q, i, t)[j] =
              IF j < i THEN q[j] ELSE IF j = i THEN t ELSE q[j - 1]
<1> DEFINE a == SubSeq(q, 1, i - 1)
           b == SubSeq(q, i, Len(q))
<1>0. Len(q) \in Nat /\ i \in Int
  OBVIOUS
<1>1. a \in Seq(T) /\ Len(a) = i - 1 /\ \A j \in 1 .. i - 1 : a[j] = q[j]
  BY FrontOf
<1>2. b \in Seq(T) /\ Len(b) = Len(q) + 1 - i /\ \A j \in i .. Len(q) : b[j + 1 - i] = q[j]
  BY BackOf
<1>3. InsertAt(q, i, t) = a \o <<t>> \o b
  BY DEF InsertAt
<1> HIDE DEF a, b
<1> DEFINE s == a \o <<t>> \o b
<1>4. /\ s \in Seq(T)
      /\ Len(s) = Len(a) + 1 + Len(b)
      /\ \A j \in 1 .. Len(a) + 1 + Len(b) : s[j] =
           IF j <= Len(a) THEN a[j]
           ELSE IF j = Len(a) + 1 THEN t ELSE b[j - (Len(a) + 1)]
  <2>1. a \in Seq(T)
    BY <1>1
  <2>2. b \in Seq(T)
    BY <1>2
  <2>3. s \in Seq(T)
    BY <2>1, <2>2, Joined
  <2>4. Len(s) = Len(a) + 1 + Len(b)
    BY <2>1, <2>2, Joined
  <2>5. ASSUME NEW j \in 1 .. Len(a) + 1 + Len(b)
        PROVE  s[j] = IF j <= Len(a) THEN a[j]
           ELSE IF j = Len(a) + 1 THEN t ELSE b[j - (Len(a) + 1)]
    BY <2>1, <2>2, Joined
  <2> QED BY <2>3, <2>4, <2>5
<1> HIDE DEF s
<1>5. Len(s) = Len(q) + 1 /\ Len(a) + 1 + Len(b) = Len(q) + 1
  BY <1>0, <1>1, <1>2, <1>4
<1>6. ASSUME NEW j \in 1 .. Len(q) + 1
      PROVE  s[j] = IF j < i THEN q[j] ELSE IF j = i THEN t ELSE q[j - 1]
  <2>1. s[j] = IF j <= i - 1 THEN a[j] ELSE IF j = i THEN t ELSE b[j - i]
    BY <1>0, <1>1, <1>4, <1>5
  <2>2. j <= i - 1 => a[j] = q[j]
    BY <1>0, <1>1
  <2>3. ASSUME j > i PROVE b[j - i] = q[j - 1]
    <3>1. j - 1 \in i .. Len(q) /\ (j - 1) + 1 - i = j - i
      BY <1>0, <2>3
    <3> QED BY <3>1, <1>2
  <2> QED BY <1>0, <2>1, <2>2, <2>3
<1> QED BY <1>3, <1>4, <1>5, <1>6 DEF s

\* And so does a removal.
LEMMA RemoveAtFacts ==
  ASSUME NEW T, NEW q \in Seq(T), NEW i \in 1 .. Len(q)
  PROVE  /\ RemoveAt(q, i) \in Seq(T)
         /\ Len(RemoveAt(q, i)) = Len(q) - 1
         /\ \A j \in 1 .. Len(q) - 1 :
              RemoveAt(q, i)[j] = IF j < i THEN q[j] ELSE q[j + 1]
<1> DEFINE a == SubSeq(q, 1, i - 1)
           b == SubSeq(q, i + 1, Len(q))
<1>0. Len(q) \in Nat /\ i \in Int /\ i \in 1 .. Len(q) + 1 /\ i + 1 \in 1 .. Len(q) + 1
  OBVIOUS
<1>1. a \in Seq(T) /\ Len(a) = i - 1 /\ \A j \in 1 .. i - 1 : a[j] = q[j]
  BY <1>0, FrontOf
<1>2. /\ b \in Seq(T) /\ Len(b) = Len(q) + 1 - (i + 1)
      /\ \A j \in i + 1 .. Len(q) : b[j + 1 - (i + 1)] = q[j]
  BY <1>0, BackOf
<1>3. RemoveAt(q, i) = a \o b
  BY DEF RemoveAt
<1> HIDE DEF a, b
<1> DEFINE s == a \o b
<1>4. /\ s \in Seq(T)
      /\ Len(s) = Len(a) + Len(b)
      /\ \A j \in 1 .. Len(a) + Len(b) : s[j] =
           IF j <= Len(a) THEN a[j] ELSE b[j - Len(a)]
  BY <1>1, <1>2, ConcatProperties
<1> HIDE DEF s
<1>5. Len(s) = Len(q) - 1 /\ Len(a) + Len(b) = Len(q) - 1
  BY <1>0, <1>1, <1>2, <1>4
<1>6. ASSUME NEW j \in 1 .. Len(q) - 1
      PROVE  s[j] = IF j < i THEN q[j] ELSE q[j + 1]
  <2>1. s[j] = IF j <= i - 1 THEN a[j] ELSE b[j - (i - 1)]
    BY <1>0, <1>1, <1>4, <1>5
  <2>2. j <= i - 1 => a[j] = q[j]
    BY <1>0, <1>1
  <2>3. ASSUME j >= i PROVE b[j - (i - 1)] = q[j + 1]
    <3>1. j + 1 \in i + 1 .. Len(q) /\ (j + 1) + 1 - (i + 1) = j - (i - 1)
      BY <1>0, <2>3
    <3> QED BY <3>1, <1>2
  <2> QED BY <1>0, <2>1, <2>2, <2>3
<1> QED BY <1>3, <1>4, <1>5, <1>6 DEF s

-----------------------------------------------------------------------------
\* Queues.

\* q holds the tasks of S, each of them once.
Holds(q, S) == q \in Seq(Task) /\ IsInjective(q) /\ Range(q) = S

\* q_insert_task adds the task, wherever its priority puts it.
LEMMA InsertedHolds ==
  ASSUME NEW q, NEW S, Holds(q, S), NEW t \in Task, t \notin S, NEW prio
  PROVE  Holds(Inserted(q, t, prio), S \cup {t})
<1> DEFINE later == {u \in Task : prio[t] < prio[u]}
           i == IndexIn(q, later)
           k == IF i = 0 THEN Len(q) + 1 ELSE i
           s == InsertAt(q, k, t)
<1>1. q \in Seq(Task) /\ Len(q) \in Nat
  BY DEF Holds
<1>2. {j \in 1 .. Len(q) : q[j] \in later} = {j \in 1 .. Len(q) : prio[t] < prio[q[j]]}
  BY <1>1
<1>3. Inserted(q, t, prio) = s
  BY <1>2 DEF Inserted, SelectInSeq, IndexIn
<1>4. i \in 0 .. Len(q)
  BY <1>1, IndexFacts
<1> HIDE DEF i
<1>5. k \in 1 .. Len(q) + 1
  BY <1>1, <1>4
<1> HIDE DEF k
<1>6. /\ s \in Seq(Task) /\ Len(s) = Len(q) + 1
      /\ \A j \in 1 .. Len(q) + 1 : s[j] =
           IF j < k THEN q[j] ELSE IF j = k THEN t ELSE q[j - 1]
  BY <1>1, <1>5, InsertAtFacts
<1> HIDE DEF s
<1>7. DOMAIN q = 1 .. Len(q) /\ DOMAIN s = 1 .. Len(q) + 1
  BY <1>1, <1>6
<1>8. \A j \in 1 .. Len(q) : q[j] \in S /\ q[j] # t
  BY <1>7 DEF Holds, Range
<1>9. IsInjective(s)
  <2> SUFFICES ASSUME NEW m \in 1 .. Len(q) + 1, NEW n \in 1 .. Len(q) + 1, s[m] = s[n]
               PROVE  m = n
    BY <1>7 DEF IsInjective
  <2>1. \A x, y \in 1 .. Len(q) : q[x] = q[y] => x = y
    BY <1>7 DEF Holds, IsInjective
  <2>2. ASSUME NEW j \in 1 .. Len(q) + 1, j # k
        PROVE  /\ j < k => j \in 1 .. Len(q) /\ s[j] = q[j]
               /\ j > k => j - 1 \in 1 .. Len(q) /\ s[j] = q[j - 1]
               /\ s[j] # t
    <3>1. j < k => j \in 1 .. Len(q) /\ s[j] = q[j]
      BY <1>1, <1>5, <1>6
    <3>2. j > k => j - 1 \in 1 .. Len(q) /\ s[j] = q[j - 1]
      BY <1>1, <1>5, <1>6
    <3> QED BY <3>1, <3>2, <2>2, <1>5, <1>8
  <2>3. s[k] = t
    BY <1>5, <1>6
  <2>4. CASE m = k \/ n = k
    BY <2>2, <2>3, <2>4
  <2>5. CASE m # k /\ n # k
    BY <1>1, <1>5, <2>1, <2>2, <2>5
  <2> QED BY <2>4, <2>5
<1>10. Range(s) \subseteq S \cup {t}
  <2> SUFFICES ASSUME NEW m \in 1 .. Len(q) + 1
               PROVE  s[m] \in S \cup {t}
    BY <1>7 DEF Range
  <2>1. CASE m < k
    <3>1. m \in 1 .. Len(q) /\ s[m] = q[m]
      BY <1>1, <1>5, <1>6, <2>1
    <3> QED BY <3>1, <1>8
  <2>2. CASE m = k
    <3>1. s[m] = t
      BY <1>6, <2>2
    <3> QED BY <3>1
  <2>3. CASE m > k
    <3>1. m - 1 \in 1 .. Len(q) /\ s[m] = q[m - 1]
      BY <1>1, <1>5, <1>6, <2>3
    <3> QED BY <3>1, <1>8
  <2> QED BY <1>1, <1>5, <2>1, <2>2, <2>3
<1>11. S \cup {t} \subseteq Range(s)
  <2>1. t \in Range(s)
    BY <1>5, <1>6, <1>7 DEF Range
  <2>2. ASSUME NEW u \in S PROVE u \in Range(s)
    <3>1. PICK j \in 1 .. Len(q) : q[j] = u
      BY <1>7 DEF Holds, Range
    <3>2. CASE j < k
      <4>1. s[j] = u /\ j \in 1 .. Len(q) + 1
        BY <1>1, <1>5, <1>6, <3>1, <3>2
      <4> QED BY <4>1, <1>7 DEF Range
    <3>3. CASE j >= k
      <4>1. s[j + 1] = u /\ j + 1 \in 1 .. Len(q) + 1
        BY <1>1, <1>5, <1>6, <3>1, <3>3
      <4> QED BY <4>1, <1>7 DEF Range
    <3> QED BY <1>5, <3>2, <3>3
  <2> QED BY <2>1, <2>2
<1> QED BY <1>3, <1>6, <1>9, <1>10, <1>11 DEF Holds

\* q_delete_task takes out the task and no other.
LEMMA RemovedHolds ==
  ASSUME NEW q, NEW S, Holds(q, S), NEW t \in S
  PROVE  Holds(RemoveFirst(q, t), S \ {t})
<1> DEFINE k == IndexIn(q, {t})
           s == RemoveAt(q, k)
<1>1. q \in Seq(Task) /\ Len(q) \in Nat /\ DOMAIN q = 1 .. Len(q)
  BY DEF Holds
<1>2. PICK x \in 1 .. Len(q) : q[x] = t
  BY <1>1 DEF Holds, Range
<1>3. {j \in 1 .. Len(q) : q[j] \in {t}} = {j \in 1 .. Len(q) : q[j] = t}
  OBVIOUS
<1>4. RemoveFirst(q, t) = s
  BY <1>2, <1>3 DEF RemoveFirst, SelectInSeq, IndexIn
<1>5. k \in 0 .. Len(q) /\ (k = 0 => Range(q) \cap {t} = {}) /\ (k # 0 => q[k] \in {t})
  BY <1>1, IndexFacts
<1>6. k \in 1 .. Len(q) /\ q[k] = t
  <2>1. t \in Range(q)
    BY DEF Holds
  <2> QED BY <2>1, <1>1, <1>5
<1> HIDE DEF k
<1>7. /\ s \in Seq(Task) /\ Len(s) = Len(q) - 1
      /\ \A j \in 1 .. Len(q) - 1 : s[j] = IF j < k THEN q[j] ELSE q[j + 1]
  BY <1>1, <1>6, RemoveAtFacts
<1> HIDE DEF s
<1>8. DOMAIN s = 1 .. Len(q) - 1
  BY <1>7
<1>9. \A m, n \in 1 .. Len(q) : q[m] = q[n] => m = n
  BY <1>1 DEF Holds, IsInjective
<1>10. IsInjective(s)
  <2> SUFFICES ASSUME NEW m \in 1 .. Len(q) - 1, NEW n \in 1 .. Len(q) - 1, s[m] = s[n]
               PROVE  m = n
    BY <1>8 DEF IsInjective
  <2> QED BY <1>1, <1>6, <1>7, <1>9
<1>11. Range(s) \subseteq S \ {t}
  <2> SUFFICES ASSUME NEW m \in 1 .. Len(q) - 1
               PROVE  s[m] \in S /\ s[m] # t
    BY <1>8 DEF Range
  <2>1. PICK n \in 1 .. Len(q) : s[m] = q[n] /\ n # k
    BY <1>1, <1>6, <1>7
  <2>2. q[n] \in S
    BY <1>1 DEF Holds, Range
  <2> QED BY <2>1, <2>2, <1>6, <1>9
<1>12. S \ {t} \subseteq Range(s)
  <2> SUFFICES ASSUME NEW u \in S, u # t PROVE u \in Range(s)
    OBVIOUS
  <2>1. PICK j \in 1 .. Len(q) : q[j] = u
    BY <1>1 DEF Holds, Range
  <2>2. j # k
    BY <2>1, <1>6
  <2>3. CASE j < k
    <3>1. s[j] = u /\ j \in 1 .. Len(q) - 1
      BY <1>1, <1>6, <1>7, <2>1, <2>3
    <3> QED BY <3>1, <1>8 DEF Range
  <2>4. CASE j > k
    <3>1. s[j - 1] = u /\ j - 1 \in 1 .. Len(q) - 1
      BY <1>1, <1>6, <1>7, <2>1, <2>4
    <3> QED BY <3>1, <1>8 DEF Range
  <2> QED BY <1>6, <2>2, <2>3, <2>4
<1> QED BY <1>4, <1>7, <1>10, <1>11, <1>12 DEF Holds

\* A task moved to another queue, or to another place of its own.
LEMMA MovedQueues ==
  ASSUME TypeOK, QueuesMatch,
         NEW t \in Task, tcb[t].state \in States, NEW to \in States,
         queue' = Moved(queue, t, to),
         QueueOf(tcb'[t].state) = QueueOf(to),
         \A u \in Task \ {t} : QueueOf(tcb'[u].state) = QueueOf(tcb[u].state)
  PROVE  queue' \in [Queues -> Seq(Task)] /\ QueuesMatch'
<1> DEFINE a == QueueOf(tcb[t].state)
           b == QueueOf(to)
           S(n) == {u \in Task : QueueOf(tcb[u].state) = n}
           W == [queue EXCEPT ![a] = RemoveFirst(@, t)]
<1>1. a \in Queues /\ b \in Queues
  BY DEF QueueOf, Queues, States
<1>2. queue \in [Queues -> Seq(Task)]
  BY DEF TypeOK
<1>3. \A n \in Queues : Holds(queue[n], S(n))
  BY <1>2 DEF QueuesMatch, Holds
<1>4. ASSUME NEW n \in Queues PROVE Holds(W[n], S(n) \ {t})
  <2>1. CASE n = a
    <3>1. W[n] = RemoveFirst(queue[n], t)
      BY <1>2, <2>1
    <3>2. t \in S(n)
      BY <2>1
    <3> HIDE DEF S, W
    <3>3. Holds(RemoveFirst(queue[n], t), S(n) \ {t})
      BY <3>2, <1>3, RemovedHolds
    <3> QED BY <3>1, <3>3
  <2>2. CASE n # a
    <3>1. W[n] = queue[n]
      BY <1>2, <2>2
    <3>2. S(n) \ {t} = S(n)
      BY <2>2
    <3> QED BY <3>1, <3>2, <1>3
  <2> QED BY <2>1, <2>2
<1>5. queue' = [W EXCEPT ![b] = Inserted(@, t, Prio)]
  BY DEF Moved
<1>6. DOMAIN W = Queues /\ DOMAIN queue' = Queues /\ queue' = [n \in Queues |-> queue'[n]]
  BY <1>2, <1>5
<1> DEFINE S2(n) == {u \in Task : QueueOf(tcb'[u].state) = n}
<1>7. ASSUME NEW n \in Queues PROVE Holds(queue'[n], S2(n))
  <2>1. CASE n = b
    <3>1. queue'[n] = Inserted(W[n], t, Prio)
      BY <1>5, <1>6, <2>1
    <3>2. S2(n) = (S(n) \ {t}) \cup {t}
      BY <2>1
    <3>3. t \notin S(n) \ {t}
      OBVIOUS
    <3> HIDE DEF S, S2, W
    <3>4. Holds(Inserted(W[n], t, Prio), (S(n) \ {t}) \cup {t})
      BY <3>3, <1>4, InsertedHolds
    <3> QED BY <3>1, <3>2, <3>4
  <2>2. CASE n # b
    <3>1. queue'[n] = W[n]
      BY <1>5, <1>6, <2>2
    <3>2. S2(n) = S(n) \ {t}
      BY <2>2
    <3> QED BY <3>1, <3>2, <1>4
  <2> QED BY <2>1, <2>2
<1> QED BY <1>6, <1>7 DEF Holds, QueuesMatch

\* No task moved.
LEMMA SameQueues ==
  ASSUME TypeOK, QueuesMatch, queue' = queue,
         \A u \in Task : QueueOf(tcb'[u].state) = QueueOf(tcb[u].state)
  PROVE  queue' \in [Queues -> Seq(Task)] /\ QueuesMatch'
BY DEF TypeOK, QueuesMatch

-----------------------------------------------------------------------------
\* The invariant.

\* Only waiting and suspended tasks have a reason to wait.
Reasons ==
  \A t \in Task :
    /\ tcb[t].reason # "none" => Waits(t)
    /\ tcb[t].reason = "mutex" => tcb[t].on \in Mutex

\* Only cur runs, and only where mrbc_run has it.
OneRuns ==
  \A t \in Task : tcb[t].state = "running" =>
    t = cur /\ pc \in {"vm", "prio", "vret", "tick", "switch", "abort"}

\* What is known of cur and scan in the places of mrbc_run.
Places ==
  /\ pc \in {"vm", "prio"} => cur \in Task /\ tcb[cur].state = "running"
  /\ pc = "vret" => cur \in Task /\ (tcb[cur].raised => tcb[cur].state = "running")
  /\ pc \in {"tick", "switch"} => cur \in Task /\ (ret => tcb[cur].state = "running")
  /\ ret => pc \in {"tick", "switch"}
  /\ pc = "start" => cur \in Task /\ tcb[cur].state = "ready"
  /\ pc = "join" => /\ cur \in Task /\ tcb[cur].state = "dormant"
                    /\ scan # NONE => tcb[scan].state # "none"
  /\ pc = "prio" => scan \in Task /\ tcb[scan].state # "none"

\* The tick wakes tasks whose time has come.
Wakes ==
  \A t \in waking :
    tcb[t].state = "waiting" /\ tcb[t].reason = "sleep" /\ tcb[t].due < 0

IInv ==
  TypeOK /\ QueuesMatch /\ Reasons /\ OneRuns /\ Places /\ Wakes /\ WaiterHasOwner

JoinStep ==
  \A t \in Task :
    /\ Waits(t) /\ tcb[t].reason = "join"
    /\ tcb'[t].reason # "join" /\ tcb'[t].state # "dormant"
    => tcb[tcb[t].joins].state = "dormant"

SleepStep ==
  \A t \in Task :
    /\ tcb[t].state = "waiting" /\ Sleeping(t)
    /\ tcb'[t].state = "ready" /\ ~tcb'[t].raised
    => tcb[t].due < 0

Right == IInv' /\ JoinStep /\ SleepStep

\* The control block of a task that does not wait any more.
LEMMA FreedBlock ==
  ASSUME NEW b \in Tcb, NEW s \in States
  PROVE  /\ Freed(b, s) \in Tcb
         /\ Freed(b, s).state = s /\ Freed(b, s).reason = "none"
         /\ Freed(b, s).flag = b.flag /\ Freed(b, s).raised = b.raised
         /\ Freed(b, s).prio = b.prio
<1>1. 0 \in -1 .. MaxDelay
  BY SchedulerAssumption
<1>2. /\ b.prio \in Priorities /\ b.slice \in 0 .. BYTE - 1
      /\ b.flag \in BOOLEAN /\ b.raised \in BOOLEAN
  BY DEF Tcb
<1> QED BY <1>1, <1>2 DEF Freed, Tcb

\* Of a task that begins to wait.
LEMMA WaitingBlock ==
  ASSUME NEW b \in Tcb, NEW r \in {"sleep", "mutex", "join"}
  PROVE  LET w == Waiting(b, r)
         IN  /\ w \in Tcb /\ w.state = "waiting" /\ w.reason = r /\ w.flag
             /\ w.raised = b.raised
BY DEF Waiting, Tcb, States

\* preempt_running_task changes nothing but flags.
LEMMA PreemptedBlocks ==
  ASSUME NEW B, B \in [Task -> Tcb]
  PROVE  /\ Preempted(B) \in [Task -> Tcb]
         /\ \A t \in Task :
              LET b == Preempted(B)[t]
              IN  /\ b.state = B[t].state /\ b.reason = B[t].reason
                  /\ b.due = B[t].due /\ b.on = B[t].on /\ b.joins = B[t].joins
                  /\ b.raised = B[t].raised /\ b.prio = B[t].prio
                  /\ B[t].flag => b.flag
                  /\ B[t].state = "running" => b.flag
                  /\ B[t].state # "running" => b.flag = B[t].flag
BY DEF Preempted, Tcb

-----------------------------------------------------------------------------
\* The tick.

\* The time slice is the business of nobody else.
LEMMA SlicedBlock ==
  ASSUME TypeOK, NEW t \in Task
  PROVE  /\ Sliced(t) \in Tcb
         /\ Sliced(t).state = tcb[t].state /\ Sliced(t).reason = tcb[t].reason
         /\ Sliced(t).on = tcb[t].on /\ Sliced(t).joins = tcb[t].joins
         /\ Sliced(t).raised = tcb[t].raised /\ Sliced(t).due = tcb[t].due
<1> DEFINE b == tcb[t]
<1>1. b \in Tcb
  BY DEF TypeOK
<1>2. CASE t = First(queue["ready"]) /\ b.slice # 0
  <2>1. b.slice - 1 \in 0 .. BYTE - 1
    BY <1>1, <1>2, SchedulerAssumption DEF Tcb
  <2>2. Sliced(t) = [b EXCEPT !.slice = b.slice - 1, !.flag = b.flag \/ b.slice = 1]
    BY <1>2 DEF Sliced
  <2>3. (b.flag \/ b.slice = 1) \in BOOLEAN
    OBVIOUS
  <2> HIDE DEF b
  <2> QED BY <1>1, <2>1, <2>2, <2>3 DEF Tcb, b
<1>3. CASE ~(t = First(queue["ready"]) /\ b.slice # 0)
  BY <1>1, <1>3 DEF Sliced
<1> QED BY <1>2, <1>3

\* What a tick leaves alone, and whom it wakes.
TickKeeps ==
  /\ tcb' \in [Task -> Tcb]
  /\ \A t \in Task :
       /\ tcb'[t].state = tcb[t].state /\ tcb'[t].reason = tcb[t].reason
       /\ tcb'[t].on = tcb[t].on /\ tcb'[t].joins = tcb[t].joins
       /\ tcb'[t].raised = tcb[t].raised
  /\ rescan' \in -1 .. HORIZON
  /\ waking' \subseteq Task
  /\ queue' \in [Queues -> Seq(Task)]
  /\ QueuesMatch'
  /\ Wakes'

\* A tick moves no task itself, and chooses sleepers whose time has come.
LEMMA TickFacts ==
  ASSUME IInv, TickEffect
  PROVE  TickKeeps
<1> DEFINE older(b) == IF b.reason = "sleep" THEN [b EXCEPT !.due = Aged(@)] ELSE b
           now == [t \in Task |-> older(Sliced(t))]
           sleepers == {t \in Range(queue["waiting"]) : Sleeping(t)}
           due == {t \in sleepers : DueAt(now[t].due)}
           left == {now[t].due : t \in sleepers \ due}
<1>1. TypeOK /\ QueuesMatch
  BY DEF IInv
<1>2. tcb' = now /\ queue' = queue
  BY DEF TickEffect
<1>3. ASSUME NEW t \in Task
      PROVE  /\ now[t] \in Tcb
             /\ now[t].state = tcb[t].state /\ now[t].reason = tcb[t].reason
             /\ now[t].on = tcb[t].on /\ now[t].joins = tcb[t].joins
             /\ now[t].raised = tcb[t].raised
  <2> DEFINE b == Sliced(t)
  <2>1. b \in Tcb /\ b.state = tcb[t].state /\ b.reason = tcb[t].reason
        /\ b.on = tcb[t].on /\ b.joins = tcb[t].joins /\ b.raised = tcb[t].raised
    BY <1>1, SlicedBlock
  <2>2. now[t] = older(b)
    OBVIOUS
  <2>3. Aged(b.due) \in -1 .. MaxDelay
    BY <2>1, SchedulerAssumption DEF Tcb, Aged
  <2> HIDE DEF b
  <2>4. older(b) \in Tcb /\ older(b).state = b.state /\ older(b).reason = b.reason
        /\ older(b).on = b.on /\ older(b).joins = b.joins /\ older(b).raised = b.raised
    BY <2>1, <2>3 DEF Tcb
  <2> QED BY <2>1, <2>2, <2>4
<1>4. now \in [Task -> Tcb]
  BY <1>3
<1>5. sleepers \subseteq {t \in Task : tcb[t].state = "waiting" /\ tcb[t].reason = "sleep"}
  BY <1>1 DEF QueuesMatch, QueueOf, Queues, States, Sleeping
<1> HIDE DEF now
<1>6. \A n \in left : n \in Int /\ 0 <= n
  <2> SUFFICES ASSUME NEW t \in sleepers \ due
               PROVE  now[t].due \in Int /\ 0 <= now[t].due
    OBVIOUS
  <2>1. now[t].due \in -1 .. MaxDelay
    BY <1>4, <1>5 DEF Tcb
  <2> QED BY <2>1, SchedulerAssumption DEF DueAt
<1> HIDE DEF left, sleepers
<1>7. NextScan(left) \in 0 .. HORIZON
  <2>1. {HORIZON} \cup left \subseteq Int /\ \A k \in {HORIZON} \cup left : 0 <= k /\ -1 <= k
    BY <1>6, SchedulerAssumption
  <2>2. Min({HORIZON} \cup left) \in {HORIZON} \cup left
        /\ Min({HORIZON} \cup left) <= HORIZON
    BY <2>1, MinOf
  <2> QED BY <2>1, <2>2, SchedulerAssumption DEF NextScan
<1>8. rescan' \in -1 .. HORIZON /\ waking' \subseteq due
  <2>1. CASE rescan - 1 < 0
    <3>1. waking' = due /\ rescan' = NextScan(left)
      BY <2>1 DEF TickEffect, now, left, sleepers
    <3> QED BY <3>1, <1>7, SchedulerAssumption
  <2>2. CASE ~(rescan - 1 < 0)
    <3>1. waking' = {} /\ rescan' = rescan - 1
      BY <2>2 DEF TickEffect
    <3> QED BY <3>1, <2>2, <1>1, SchedulerAssumption DEF TypeOK
  <2> QED BY <2>1, <2>2
<1>9. \A t \in due : t \in Task /\ now[t].state = "waiting" /\ now[t].reason = "sleep"
                     /\ now[t].due < 0
  BY <1>3, <1>5 DEF DueAt
<1>10. queue' \in [Queues -> Seq(Task)] /\ QueuesMatch'
  BY <1>1, <1>2, <1>3, SameQueues
<1> QED BY <1>2, <1>3, <1>4, <1>8, <1>9, <1>10 DEF TickKeeps, Wakes

\* A tick between two steps.
LEMMA InterruptKeeps ==
  ASSUME IInv, Interrupt
  PROVE  Right
<1>1. TickKeeps
  BY TickFacts DEF Interrupt
<1>2. TypeOK'
  BY <1>1 DEF IInv, TypeOK, TickKeeps, Interrupt
<1>3. Reasons' /\ WaiterHasOwner'
  BY <1>1 DEF IInv, TickKeeps, Interrupt, Reasons, Waits, WaiterHasOwner
<1>4. OneRuns' /\ Places'
  BY <1>1, SchedulerAssumption DEF IInv, TypeOK, TickKeeps, Interrupt, OneRuns, Places
<1>5. JoinStep /\ SleepStep
  BY <1>1 DEF TickKeeps, JoinStep, SleepStep
<1> QED BY <1>1, <1>2, <1>3, <1>4, <1>5 DEF Right, IInv, TickKeeps

\* A sleeper is made ready by the tick.
LEMMA WakeKeeps ==
  ASSUME IInv, Wake
  PROVE  Right
<1> DEFINE t == queue["waiting"][SelectInSeq(queue["waiting"], LAMBDA u : u \in waking)]
           B == [tcb EXCEPT ![t] = Woken(@)]
<1>0. TypeOK /\ QueuesMatch
  BY DEF IInv
<1>1. queue["waiting"] \in Seq(Task) /\ "waiting" \in Queues
  BY <1>0 DEF TypeOK, Queues, States
<1>2. t = queue["waiting"][IndexIn(queue["waiting"], waking)]
  BY DEF SelectInSeq, IndexIn
<1>3. Range(queue["waiting"]) \cap waking # {}
  <2>1. PICK w \in waking : w \in Task /\ tcb[w].state = "waiting"
    BY DEF IInv, TypeOK, Wakes, Wake
  <2>2. w \in Range(queue["waiting"])
    BY <2>1, <1>0, <1>1 DEF QueuesMatch, QueueOf
  <2> QED BY <2>2
<1>4. t \in waking
  BY <1>1, <1>2, <1>3, IndexFacts
<1> HIDE DEF t
<1>5. t \in Task /\ tcb[t] \in Tcb /\ tcb[t].state = "waiting" /\ tcb[t].reason = "sleep"
      /\ tcb[t].due < 0
  BY <1>4 DEF IInv, TypeOK, Wakes
<1>6. Woken(tcb[t]) \in Tcb /\ Woken(tcb[t]).state = "ready" /\ Woken(tcb[t]).reason = "none"
      /\ Woken(tcb[t]).raised = tcb[t].raised
  BY <1>5, FreedBlock DEF Woken, States
<1>7. B \in [Task -> Tcb] /\ B[t] = Woken(tcb[t]) /\ \A u \in Task \ {t} : B[u] = tcb[u]
  BY <1>0, <1>5, <1>6 DEF TypeOK
<1>8. tcb' = Preempted(B) /\ queue' = Moved(queue, t, "ready") /\ waking' = waking \ {t}
  BY DEF Wake, t
<1> HIDE DEF B
<1>9. /\ tcb' \in [Task -> Tcb]
      /\ tcb'[t].state = "ready" /\ tcb'[t].reason = "none" /\ tcb'[t].raised = tcb[t].raised
      /\ \A u \in Task \ {t} :
           /\ tcb'[u].state = tcb[u].state /\ tcb'[u].reason = tcb[u].reason
           /\ tcb'[u].due = tcb[u].due /\ tcb'[u].on = tcb[u].on
           /\ tcb'[u].raised = tcb[u].raised
  BY <1>5, <1>6, <1>7, <1>8, PreemptedBlocks
<1>10. queue' \in [Queues -> Seq(Task)] /\ QueuesMatch'
  BY <1>0, <1>5, <1>8, <1>9, MovedQueues DEF States
<1>11. TypeOK'
  BY <1>8, <1>9, <1>10 DEF IInv, TypeOK, Wake
<1>12. Reasons' /\ Wakes' /\ WaiterHasOwner'
  <2>1. Reasons'
    BY <1>5, <1>9 DEF IInv, Reasons, Waits
  <2>2. Wakes'
    BY <1>0, <1>8, <1>9 DEF IInv, TypeOK, Wakes
  <2>3. WaiterHasOwner'
    BY <1>5, <1>9 DEF IInv, Wake, Waits, WaiterHasOwner
  <2> QED BY <2>1, <2>2, <2>3
<1>13. OneRuns' /\ Places'
  BY <1>5, <1>9, SchedulerAssumption DEF IInv, TypeOK, Wake, OneRuns, Places
<1>14. JoinStep /\ SleepStep
  BY <1>5, <1>9 DEF JoinStep, SleepStep
<1> QED BY <1>10, <1>11, <1>12, <1>13, <1>14 DEF Right, IInv

-----------------------------------------------------------------------------
\* The steps of mrbc_run.

\* The task chosen is a ready one.
LEMMA ChooseKeeps ==
  ASSUME IInv, Choose
  PROVE  Right
<1>1. queue' \in [Queues -> Seq(Task)] /\ QueuesMatch'
  BY SameQueues DEF IInv, Choose
<1>2. "ready" \in Queues /\ queue["ready"] \in Seq(Task)
  BY DEF IInv, TypeOK, Queues, States
<1>3. cur' = First(queue["ready"]) /\ pc' = IF cur' = NONE THEN "empty" ELSE "start"
  BY DEF Choose
<1>4. cur' # NONE => cur' \in Task /\ tcb[cur'].state = "ready"
  <2> SUFFICES ASSUME cur' # NONE
               PROVE  cur' \in Task /\ tcb[cur'].state = "ready"
    OBVIOUS
  <2>1. queue["ready"] # <<>> /\ cur' = queue["ready"][1]
    BY <1>2, <1>3 DEF First
  <2>2. 1 \in 1 .. Len(queue["ready"])
    BY <1>2, <2>1
  <2>3. cur' \in Range(queue["ready"])
    BY <1>2, <2>1, <2>2, InRange
  <2>4. cur' \in Task /\ QueueOf(tcb[cur'].state) = "ready"
    BY <1>2, <2>3 DEF IInv, QueuesMatch
  <2>5. tcb[cur'].state # "running"
    BY <2>4 DEF IInv, OneRuns, Choose
  <2> QED BY <2>4, <2>5 DEF QueueOf
<1>5. TypeOK'
  BY <1>1, <1>3, <1>4 DEF IInv, TypeOK, Choose, Where
<1>6. Reasons' /\ Wakes' /\ WaiterHasOwner'
  BY DEF IInv, Choose, Reasons, Waits, Wakes, WaiterHasOwner
<1>7. OneRuns' /\ Places'
  BY <1>3, <1>4, SchedulerAssumption DEF IInv, Choose, OneRuns, Places
<1>8. JoinStep /\ SleepStep
  BY DEF IInv, Choose, JoinStep, SleepStep
<1> QED BY <1>1, <1>5, <1>6, <1>7, <1>8 DEF Right, IInv

\* mrbc_run ends.
LEMMA ExitKeeps ==
  ASSUME IInv, Exit
  PROVE  Right
<1>1. queue' \in [Queues -> Seq(Task)] /\ QueuesMatch'
  BY SameQueues DEF IInv, Exit
<1>2. TypeOK'
  BY <1>1 DEF IInv, TypeOK, Exit, Where
<1>3. Reasons' /\ Wakes' /\ WaiterHasOwner' /\ OneRuns' /\ Places'
  BY DEF IInv, Exit, Reasons, Waits, Wakes, WaiterHasOwner, OneRuns, Places
<1>4. JoinStep /\ SleepStep
  BY DEF Exit, JoinStep, SleepStep
<1> QED BY <1>1, <1>2, <1>3, <1>4 DEF Right, IInv

\* No task is ready; without a timer the time goes on here.
LEMMA IdleKeeps ==
  ASSUME IInv, waking = {}, Idle
  PROVE  Right
<1>1. TickKeeps
  <2>1. CASE timer
    <3>1. UNCHANGED <<queue, tcb, rescan, waking>>
      BY <2>1 DEF Idle
    <3>2. QueuesMatch'
      BY <3>1 DEF IInv, QueuesMatch
    <3> QED BY <3>1, <3>2 DEF IInv, TypeOK, TickKeeps, Wakes
  <2>2. CASE ~timer
    BY <2>2, TickFacts DEF Idle
  <2> QED BY <2>1, <2>2
<1>2. TypeOK'
  BY <1>1 DEF IInv, TypeOK, TickKeeps, Idle, Where
<1>3. Reasons' /\ WaiterHasOwner'
  BY <1>1 DEF IInv, TickKeeps, Idle, Reasons, Waits, WaiterHasOwner
<1>4. OneRuns' /\ Places'
  BY <1>1 DEF IInv, TypeOK, TickKeeps, Idle, OneRuns, Places
<1>5. JoinStep /\ SleepStep
  BY <1>1 DEF TickKeeps, JoinStep, SleepStep
<1> QED BY <1>1, <1>2, <1>3, <1>4, <1>5 DEF Right, IInv, TickKeeps

\* A tick after the virtual machine, without a timer.
LEMMA TickStepKeeps ==
  ASSUME IInv, waking = {}, Tick
  PROVE  Right
<1>1. TickKeeps
  BY TickFacts DEF Tick
<1>2. TypeOK'
  BY <1>1 DEF IInv, TypeOK, TickKeeps, Tick, Where
<1>3. Reasons' /\ WaiterHasOwner'
  BY <1>1 DEF IInv, TickKeeps, Tick, Reasons, Waits, WaiterHasOwner
<1>4. OneRuns' /\ Places'
  BY <1>1 DEF IInv, TypeOK, TickKeeps, Tick, OneRuns, Places
<1>5. JoinStep /\ SleepStep
  BY <1>1 DEF TickKeeps, JoinStep, SleepStep
<1> QED BY <1>1, <1>2, <1>3, <1>4, <1>5 DEF Right, IInv, TickKeeps

\* The task chosen runs; an interrupt cannot have moved it away.
LEMMA StartKeeps ==
  ASSUME IInv, waking = {}, Start
  PROVE  Right
<1> DEFINE b == [tcb[cur] EXCEPT !.state = "running", !.slice = SLICE,
                                 !.flag = tcb[cur].flag \/ ~timer]
<1>1. cur \in Task /\ tcb[cur] \in Tcb /\ tcb[cur].state = "ready"
      /\ tcb \in [Task -> Tcb]
  BY DEF IInv, TypeOK, Places, Start
<1>2. SLICE \in 0 .. BYTE - 1
  BY SchedulerAssumption
<1>3. (tcb[cur].flag \/ ~timer) \in BOOLEAN
  OBVIOUS
<1>4. b \in Tcb /\ b.state = "running" /\ b.reason = tcb[cur].reason
      /\ b.raised = tcb[cur].raised
  BY <1>1, <1>2, <1>3 DEF Tcb, States
<1>5. tcb' = [tcb EXCEPT ![cur] = b]
  BY <1>1 DEF Start
<1> HIDE DEF b
<1>6. /\ tcb' \in [Task -> Tcb]
      /\ tcb'[cur] = b
      /\ \A u \in Task \ {cur} : tcb'[u] = tcb[u]
  BY <1>1, <1>4, <1>5
<1>7. queue' \in [Queues -> Seq(Task)] /\ QueuesMatch'
  BY <1>1, <1>4, <1>6, SameQueues DEF IInv, Start, QueueOf
<1>8. TypeOK'
  BY <1>1, <1>6, <1>7 DEF IInv, TypeOK, Start, Where
<1>9. tcb[cur].reason = "none"
  BY <1>1 DEF IInv, Reasons, Waits
<1>10. Reasons' /\ WaiterHasOwner'
  BY <1>1, <1>4, <1>6, <1>9 DEF IInv, Start, Reasons, Waits, WaiterHasOwner
<1>11. OneRuns' /\ Places' /\ Wakes'
  BY <1>1, <1>4, <1>6 DEF IInv, Start, OneRuns, Places, Wakes
<1>12. JoinStep /\ SleepStep
  BY <1>1, <1>4, <1>6, <1>9 DEF JoinStep, SleepStep, Sleeping
<1> QED BY <1>7, <1>8, <1>10, <1>11, <1>12 DEF Right, IInv

\* The virtual machine returns, for either reason.
LEMMA ReturnedKeeps ==
  ASSUME IInv, waking = {}, pc \in {"vm", "vret"}, Returned,
         ret' \in BOOLEAN, ret' => tcb[cur].state = "running"
  PROVE  Right
<1>1. cur \in Task /\ tcb[cur] \in Tcb /\ tcb \in [Task -> Tcb]
  BY DEF IInv, TypeOK, Places
<1>2. /\ tcb' \in [Task -> Tcb]
      /\ \A t \in Task :
           /\ tcb'[t].state = tcb[t].state /\ tcb'[t].reason = tcb[t].reason
           /\ tcb'[t].due = tcb[t].due /\ tcb'[t].on = tcb[t].on
           /\ tcb'[t].joins = tcb[t].joins
      /\ pc' \in {"vm", "tick", "switch"}
      /\ pc' = "vm" => tcb[cur].state = "running" /\ ~ret'
  <2>1. CASE timer
    <3> DEFINE b == [tcb[cur] EXCEPT !.flag = FALSE]
    <3>1. b \in Tcb /\ b.state = tcb[cur].state /\ b.reason = tcb[cur].reason
          /\ b.due = tcb[cur].due /\ b.on = tcb[cur].on /\ b.joins = tcb[cur].joins
      BY <1>1 DEF Tcb
    <3>2. tcb' = [tcb EXCEPT ![cur] = b] /\ pc' = "switch"
      BY <1>1, <2>1 DEF Returned
    <3> HIDE DEF b
    <3> QED BY <1>1, <3>1, <3>2
  <2>2. CASE ~timer
    <3> DEFINE slice == (tcb[cur].slice + BYTE - 1) % BYTE
               b == [tcb[cur] EXCEPT !.slice = slice]
    <3>1. slice \in 0 .. BYTE - 1
      <4>1. tcb[cur].slice + BYTE - 1 \in Int /\ BYTE \in Nat /\ BYTE > 0
        BY <1>1, SchedulerAssumption DEF Tcb
      <4> QED BY <4>1
    <3>2. tcb' = [tcb EXCEPT ![cur] = b]
          /\ pc' = IF ~ret' /\ tcb[cur].state = "running" /\ slice # 0 THEN "vm" ELSE "tick"
      BY <1>1, <2>2 DEF Returned
    <3> HIDE DEF slice
    <3>3. b \in Tcb /\ b.state = tcb[cur].state /\ b.reason = tcb[cur].reason
          /\ b.due = tcb[cur].due /\ b.on = tcb[cur].on /\ b.joins = tcb[cur].joins
      BY <1>1, <3>1 DEF Tcb
    <3> HIDE DEF b
    <3> QED BY <1>1, <3>2, <3>3
  <2> QED BY <2>1, <2>2
<1>3. queue' \in [Queues -> Seq(Task)] /\ QueuesMatch'
  BY <1>2, SameQueues DEF IInv, Returned
<1>4. TypeOK'
  BY <1>2, <1>3 DEF IInv, TypeOK, Returned, Where
<1>5. Reasons' /\ WaiterHasOwner'
  BY <1>2 DEF IInv, Returned, Reasons, Waits, WaiterHasOwner
<1>6. OneRuns' /\ Places' /\ Wakes'
  BY <1>1, <1>2 DEF IInv, Returned, OneRuns, Places, Wakes
<1>7. JoinStep /\ SleepStep
  BY <1>2 DEF JoinStep, SleepStep
<1> QED BY <1>3, <1>4, <1>5, <1>6, <1>7 DEF Right, IInv

\* It was preempted.
LEMMA ReturnKeeps ==
  ASSUME IInv, waking = {}, Return
  PROVE  Right
BY ReturnedKeeps DEF Return

\* The task has ended.
LEMMA EndKeeps ==
  ASSUME IInv, waking = {}, End
  PROVE  Right
<1>1. tcb[cur].state = "running"
  BY DEF IInv, Places, End
<1> QED BY <1>1, ReturnedKeeps DEF End

\* The task goes to the end of its queue, if it still runs.
LEMMA SwitchKeeps ==
  ASSUME IInv, waking = {}, Switch
  PROVE  Right
<1>1. cur \in Task /\ tcb[cur] \in Tcb /\ tcb \in [Task -> Tcb]
  BY DEF IInv, TypeOK, Places, Switch
<1>2. CASE tcb[cur].state = "running"
  <2> DEFINE b == [tcb[cur] EXCEPT !.state = "ready"]
  <2>1. b \in Tcb /\ b.state = "ready" /\ b.reason = tcb[cur].reason
    BY <1>1 DEF Tcb, States
  <2>2. tcb' = [tcb EXCEPT ![cur] = b] /\ queue' = Moved(queue, cur, "ready")
    BY <1>1, <1>2 DEF Switch
  <2> HIDE DEF b
  <2>3. tcb' \in [Task -> Tcb] /\ tcb'[cur] = b /\ \A u \in Task \ {cur} : tcb'[u] = tcb[u]
    BY <1>1, <2>1, <2>2
  <2>4. queue' \in [Queues -> Seq(Task)] /\ QueuesMatch'
    BY <1>1, <1>2, <2>1, <2>2, <2>3, MovedQueues DEF IInv, States
  <2>5. TypeOK'
    BY <2>3, <2>4 DEF IInv, TypeOK, Switch, Where
  <2>6. tcb[cur].reason = "none"
    BY <1>1, <1>2 DEF IInv, Reasons, Waits
  <2>7. Reasons' /\ WaiterHasOwner'
    BY <1>1, <2>1, <2>3, <2>6 DEF IInv, Switch, Reasons, Waits, WaiterHasOwner
  <2>8. OneRuns' /\ Places' /\ Wakes'
    BY <1>1, <2>1, <2>3 DEF IInv, Switch, OneRuns, Places, Wakes
  <2>9. JoinStep /\ SleepStep
    BY <1>1, <1>2, <2>1, <2>3, <2>6 DEF JoinStep, SleepStep, Waits
  <2> QED BY <2>4, <2>5, <2>7, <2>8, <2>9 DEF Right, IInv
<1>3. CASE tcb[cur].state # "running"
  <2>1. tcb' = tcb /\ queue' = queue
    BY <1>3 DEF Switch
  <2>2. queue' \in [Queues -> Seq(Task)] /\ QueuesMatch'
    BY <2>1, SameQueues DEF IInv
  <2>3. TypeOK'
    BY <2>1 DEF IInv, TypeOK, Switch, Where
  <2>4. Reasons' /\ Wakes' /\ WaiterHasOwner'
    BY <2>1 DEF IInv, Switch, Reasons, Waits, Wakes, WaiterHasOwner
  <2>5. OneRuns' /\ Places'
    BY <1>3, <2>1 DEF IInv, Switch, OneRuns, Places
  <2>6. JoinStep /\ SleepStep
    BY <2>1 DEF JoinStep, SleepStep
  <2> QED BY <2>2, <2>3, <2>4, <2>5, <2>6 DEF Right, IInv
<1> QED BY <1>2, <1>3

\* The first of a queue.
LEMMA FirstExists ==
  ASSUME NEW q \in Seq(Task), First(q) # NONE
  PROVE  First(q) \in Range(q)
<1>1. q # <<>> /\ First(q) = q[1]
  BY DEF First
<1>2. 1 \in 1 .. Len(q)
  BY <1>1
<1> QED BY <1>1, <1>2, InRange

\* The next one after a task of queue k.
LEMMA AfterExists ==
  ASSUME NEW q \in [Queues -> Seq(Task)], NEW t \in Task, NEW k \in Queues,
         t \in Range(q[k]), After(q, t) # NONE
  PROVE  \E n \in Queues : After(q, t) \in Range(q[n])
<1> DEFINE n == CHOOSE j \in Queues : t \in Range(q[j])
           i == IndexIn(q[n], {t})
<1>1. n \in Queues /\ t \in Range(q[n])
  OBVIOUS
<1> HIDE DEF n
<1>2. q[n] \in Seq(Task) /\ Len(q[n]) \in Nat
  BY <1>1
<1>3. i \in 1 .. Len(q[n])
  BY <1>1, <1>2, IndexFacts
<1>4. After(q, t) = IF i = Len(q[n]) THEN NONE ELSE q[n][i + 1]
  <2>1. {j \in 1 .. Len(q[n]) : q[n][j] \in {t}} = {j \in 1 .. Len(q[n]) : q[n][j] = t}
    OBVIOUS
  <2> QED BY <2>1 DEF After, SelectInSeq, IndexIn, n
<1> HIDE DEF i
<1>5. After(q, t) = q[n][i + 1] /\ i + 1 \in 1 .. Len(q[n])
  BY <1>2, <1>3, <1>4
<1>6. After(q, t) \in Range(q[n])
  BY <1>2, <1>5, InRange
<1> QED BY <1>1, <1>6

\* A task that is in a queue exists.
LEMMA QueuedExist ==
  ASSUME QueuesMatch, NEW n \in Queues, NEW t \in Range(queue[n])
  PROVE  t \in Task /\ tcb[t].state # "none"
BY DEF QueuesMatch, QueueOf, Queues, States

\* The task that has ended goes to the dormant queue.
LEMMA DoneKeeps ==
  ASSUME IInv, waking = {}, Done
  PROVE  Right
<1> DEFINE b == Freed(tcb[cur], "dormant")
<1>1. cur \in Task /\ tcb[cur] \in Tcb /\ tcb \in [Task -> Tcb] /\ tcb[cur].state = "running"
      /\ tcb[cur].reason = "none"
  <2>1. cur \in Task /\ tcb \in [Task -> Tcb] /\ tcb[cur].state = "running"
    BY DEF IInv, TypeOK, Places, Done
  <2> QED BY <2>1 DEF IInv, Reasons, Waits
<1>2. b \in Tcb /\ b.state = "dormant" /\ b.reason = "none"
  BY <1>1, FreedBlock DEF States
<1>3. tcb' = [tcb EXCEPT ![cur] = b] /\ queue' = Moved(queue, cur, "dormant")
  BY <1>1 DEF Done
<1> HIDE DEF b
<1>4. tcb' \in [Task -> Tcb] /\ tcb'[cur] = b /\ \A u \in Task \ {cur} : tcb'[u] = tcb[u]
  BY <1>1, <1>2, <1>3
<1>5. queue' \in [Queues -> Seq(Task)] /\ QueuesMatch'
  BY <1>1, <1>2, <1>3, <1>4, MovedQueues DEF IInv, States
<1>6. scan' # NONE => scan' \in Task /\ tcb'[scan'].state # "none"
  <2>1. scan' = First(queue'["waiting"]) /\ "waiting" \in Queues
    BY DEF Done, Queues, States
  <2>2. queue'["waiting"] \in Seq(Task)
    BY <1>5, <2>1
  <2>3. scan' # NONE => scan' \in Range(queue'["waiting"])
    BY <2>1, <2>2, FirstExists
  <2> QED BY <1>5, <2>1, <2>3 DEF QueuesMatch, QueueOf, Queues, States
<1>7. TypeOK'
  BY <1>4, <1>5, <1>6 DEF IInv, TypeOK, Done, Where
<1>8. Reasons' /\ WaiterHasOwner'
  BY <1>1, <1>2, <1>4 DEF IInv, Done, Reasons, Waits, WaiterHasOwner
<1>9. OneRuns'
  BY <1>1, <1>2, <1>4 DEF IInv, Done, OneRuns
<1>10. Places' /\ Wakes'
  BY <1>1, <1>2, <1>4, <1>6 DEF Done, Places, Wakes
<1>11. JoinStep /\ SleepStep
  BY <1>1, <1>2, <1>4 DEF JoinStep, SleepStep, Waits
<1> QED BY <1>5, <1>7, <1>8, <1>9, <1>10, <1>11 DEF Right, IInv

\* A task that joined it is made ready.
LEMMA ReleaseKeeps ==
  ASSUME IInv, waking = {}, Release
  PROVE  Right
<1>1. cur \in Task /\ tcb \in [Task -> Tcb] /\ tcb[cur].state = "dormant"
      /\ scan \in Task /\ tcb[scan] \in Tcb /\ tcb[scan].state \in States
  <2>1. cur \in Task /\ tcb \in [Task -> Tcb] /\ tcb[cur].state = "dormant"
        /\ scan \in Task /\ tcb[scan].state # "none"
    BY DEF IInv, TypeOK, Places, Release
  <2> QED BY <2>1 DEF Tcb
<1>2. /\ tcb' \in [Task -> Tcb]
      /\ \A u \in Task \ {scan} : tcb'[u] = tcb[u]
      /\ queue' \in [Queues -> Seq(Task)] /\ QueuesMatch'
      /\ tcb'[scan].state \in States
      /\ tcb'[scan] = tcb[scan] \/
           /\ tcb'[scan].state = "ready" /\ tcb'[scan].reason = "none"
           /\ Waits(scan) /\ tcb[scan].reason = "join" /\ tcb[scan].joins = cur
  <2>1. CASE JoinsCur(scan)
    <3> DEFINE b == Woken(tcb[scan])
    <3>1. b \in Tcb /\ b.state = "ready" /\ b.reason = "none"
      BY <1>1, FreedBlock DEF Woken, States
    <3>2. tcb' = [tcb EXCEPT ![scan] = b] /\ queue' = Moved(queue, scan, "ready")
      BY <1>1, <2>1 DEF Release
    <3> HIDE DEF b
    <3>3. tcb' \in [Task -> Tcb] /\ tcb'[scan] = b
          /\ \A u \in Task \ {scan} : tcb'[u] = tcb[u]
      BY <1>1, <3>1, <3>2
    <3>4. queue' \in [Queues -> Seq(Task)] /\ QueuesMatch'
      BY <1>1, <3>1, <3>2, <3>3, MovedQueues DEF IInv, States
    <3>5. Waits(scan) /\ tcb[scan].reason = "join" /\ tcb[scan].joins = cur
      BY <1>1, <2>1 DEF IInv, Reasons, JoinsCur
    <3> QED BY <3>1, <3>3, <3>4, <3>5 DEF States
  <2>2. CASE ~JoinsCur(scan)
    <3>1. tcb' = tcb /\ queue' = queue
      BY <2>2 DEF Release
    <3>2. queue' \in [Queues -> Seq(Task)] /\ QueuesMatch'
      BY <3>1, SameQueues DEF IInv
    <3> QED BY <1>1, <3>1, <3>2
  <2> QED BY <2>1, <2>2
<1>3. scan' # NONE => scan' \in Task /\ tcb'[scan'].state # "none"
  <2> DEFINE k == QueueOf(tcb'[scan].state)
  <2>1. k \in Queues /\ scan \in Range(queue'[k])
    BY <1>1, <1>2 DEF QueuesMatch, QueueOf, Queues, States
  <2> HIDE DEF k
  <2>2. scan' = After(queue', scan)
    BY DEF Release
  <2>3. scan' # NONE => \E n \in Queues : scan' \in Range(queue'[n])
    BY <1>1, <1>2, <2>1, <2>2, AfterExists
  <2> QED BY <1>2, <2>3 DEF QueuesMatch, QueueOf, Queues, States
<1>4. TypeOK'
  BY <1>2, <1>3 DEF IInv, TypeOK, Release
<1>5. Reasons' /\ WaiterHasOwner'
  BY <1>2 DEF IInv, Release, Reasons, Waits, WaiterHasOwner
<1>6. OneRuns'
  BY <1>1, <1>2 DEF IInv, Release, OneRuns
<1>7. Places' /\ Wakes'
  <2>1. tcb'[cur].state = "dormant"
    BY <1>1, <1>2 DEF Waits
  <2> QED BY <1>1, <1>3, <2>1 DEF IInv, Release, Places, Wakes
<1>8. JoinStep /\ SleepStep
  BY <1>1, <1>2 DEF JoinStep, SleepStep, Sleeping
<1> QED BY <1>2, <1>4, <1>5, <1>6, <1>7, <1>8 DEF Right, IInv

\* Or has nothing to wait for once it is resumed.
LEMMA ReleaseSuspendedKeeps ==
  ASSUME IInv, waking = {}, ReleaseSuspended
  PROVE  Right
<1>1. cur \in Task /\ tcb \in [Task -> Tcb] /\ tcb[cur].state = "dormant"
  BY DEF IInv, TypeOK, Places, ReleaseSuspended
<1>2. ASSUME NEW t \in Task
      PROVE  /\ tcb'[t] \in Tcb /\ tcb'[t].state = tcb[t].state
             /\ \/ tcb'[t] = tcb[t]
                \/ /\ tcb'[t].reason = "none" /\ tcb[t].state = "suspended"
                   /\ tcb[t].reason = "join" /\ tcb[t].joins = cur
  <2>1. CASE t \in Range(queue["suspended"]) /\ JoinsCur(t)
    <3>1. tcb[t].state = "suspended"
      BY <2>1 DEF IInv, QueuesMatch, QueueOf, Queues, States
    <3>2. tcb'[t] = Freed(tcb[t], "suspended") /\ tcb[t] \in Tcb
      BY <1>1, <2>1 DEF ReleaseSuspended
    <3>3. tcb'[t] \in Tcb /\ tcb'[t].state = "suspended" /\ tcb'[t].reason = "none"
      BY <3>2, FreedBlock DEF States
    <3> QED BY <2>1, <3>1, <3>3 DEF JoinsCur
  <2>2. CASE ~(t \in Range(queue["suspended"]) /\ JoinsCur(t))
    <3>1. tcb'[t] = tcb[t]
      BY <2>2 DEF ReleaseSuspended
    <3> QED BY <1>1, <3>1
  <2> QED BY <2>1, <2>2
<1>3. tcb' \in [Task -> Tcb]
  <2>1. tcb' = [t \in Task |-> tcb'[t]]
    BY DEF ReleaseSuspended
  <2> QED BY <1>2, <2>1
<1>4. queue' \in [Queues -> Seq(Task)] /\ QueuesMatch'
  BY <1>2, SameQueues DEF IInv, ReleaseSuspended
<1>5. TypeOK'
  BY <1>3, <1>4 DEF IInv, TypeOK, ReleaseSuspended, Where
<1>6. Reasons' /\ WaiterHasOwner'
  BY <1>2 DEF IInv, ReleaseSuspended, Reasons, Waits, WaiterHasOwner
<1>7. OneRuns' /\ Places' /\ Wakes'
  BY <1>2 DEF IInv, ReleaseSuspended, OneRuns, Places, Wakes
<1>8. JoinStep /\ SleepStep
  BY <1>1, <1>2 DEF JoinStep, SleepStep
<1> QED BY <1>4, <1>5, <1>6, <1>7, <1>8 DEF Right, IInv

-----------------------------------------------------------------------------
\* What the running task does.

\* Of the control blocks only u's changes in more than flag, prio and slice.
Only(u) ==
  /\ tcb' \in [Task -> Tcb]
  /\ \A t \in Task \ {u} :
       /\ tcb'[t].state = tcb[t].state /\ tcb'[t].reason = tcb[t].reason
       /\ tcb'[t].due = tcb[t].due /\ tcb'[t].on = tcb[t].on
       /\ tcb'[t].joins = tcb[t].joins /\ tcb'[t].raised = tcb[t].raised

\* What a call must see to for the task u it changes.
Allowed(u) ==
  LET b == tcb'[u]
  IN  /\ b.state = "running" => u = cur
      /\ u = cur => (b.flag \/ b.state = "running") /\ (b.raised => b.state = "running")
      /\ b.reason # "none" => b.state \in {"waiting", "suspended"}
      /\ b.reason = "mutex" => b.on \in Mutex
      /\ Waits(u) /\ tcb[u].reason = "join" => b.reason = "join" \/ b.state = "dormant"
      /\ tcb[u].state = "waiting" /\ tcb[u].reason = "sleep" =>
           b.state # "ready" \/ b.raised

\* What is left to show of a call: the queues, the mutexes, and Allowed.
LEMMA CallKeeps ==
  ASSUME IInv, waking = {}, Running, Instruction, NEW u \in Task, Only(u), Allowed(u),
         queue' \in [Queues -> Seq(Task)], QueuesMatch',
         owner' \in [Mutex -> Task \cup {NONE}], rescan' \in -1 .. HORIZON,
         WaiterHasOwner'
  PROVE  Right
<1>1. cur \in Task /\ tcb[cur].state = "running" /\ cur' = cur /\ scan' = scan /\ ret' = ret
      /\ waking' = {} /\ timer' = timer /\ pc' = IF tcb'[cur].flag THEN "vret" ELSE "vm"
  BY DEF IInv, Places, Running, Instruction
<1>2. TypeOK'
  BY <1>1 DEF IInv, TypeOK, Only, Where
<1>3. Reasons'
  BY DEF IInv, Reasons, Waits, Only, Allowed
<1>4. OneRuns'
  BY <1>1 DEF IInv, OneRuns, Only, Allowed
<1>5. Places'
  <2>1. u # cur => tcb'[cur].state = "running"
    BY <1>1 DEF Only
  <2>2. ~ret
    BY DEF IInv, Places, Running
  <2> QED BY <1>1, <2>1, <2>2 DEF Places, Allowed
<1>6. Wakes'
  BY <1>1 DEF Wakes
<1>7. JoinStep /\ SleepStep
  BY DEF JoinStep, SleepStep, Sleeping, Only, Allowed
<1> QED BY <1>2, <1>3, <1>4, <1>5, <1>6, <1>7 DEF Right, IInv

\* The mutexes stay as they are.
LEMMA SameOwners ==
  ASSUME IInv, NEW u \in Task, Only(u), owner' = owner,
         tcb'[u].reason # "mutex" \/
           (tcb[u].reason = "mutex" /\ tcb'[u].on = tcb[u].on)
  PROVE  WaiterHasOwner' /\ owner' \in [Mutex -> Task \cup {NONE}]
<1>1. owner' \in [Mutex -> Task \cup {NONE}]
  BY DEF IInv, TypeOK
<1>2. ASSUME NEW t \in Task, Waits(t)', tcb'[t].reason = "mutex"
      PROVE  owner'[tcb'[t].on] \notin {NONE, t}
  <2>1. tcb[t].reason = "mutex" /\ tcb'[t].on = tcb[t].on
    BY <1>2 DEF Only
  <2>2. Waits(t)
    BY <2>1 DEF IInv, Reasons
  <2> QED BY <2>1, <2>2 DEF IInv, WaiterHasOwner
<1> QED BY <1>1, <1>2 DEF WaiterHasOwner

\* Nothing of the control blocks and the queues changes.
LEMMA NothingMoves ==
  ASSUME IInv, tcb' = tcb, queue' = queue
  PROVE  /\ queue' \in [Queues -> Seq(Task)] /\ QueuesMatch'
         /\ \A u \in Task : Only(u)
<1>1. queue' \in [Queues -> Seq(Task)] /\ QueuesMatch'
  BY SameQueues DEF IInv
<1> QED BY <1>1 DEF Only, IInv, TypeOK

\* The task that makes a call.
LEMMA Here ==
  ASSUME IInv, Running
  PROVE  /\ cur \in Task /\ tcb[cur] \in Tcb /\ tcb[cur].state = "running"
         /\ tcb[cur].reason = "none" /\ tcb \in [Task -> Tcb]
         /\ rescan \in -1 .. HORIZON
BY DEF IInv, TypeOK, Places, Reasons, Waits, Running

\* An instruction that calls nothing.
LEMMA ComputeKeeps ==
  ASSUME IInv, waking = {}, Compute
  PROVE  Right
<1>1. cur \in Task /\ Only(cur) /\ queue' \in [Queues -> Seq(Task)] /\ QueuesMatch'
  BY NothingMoves, Here DEF Compute
<1>2. Allowed(cur)
  BY Here DEF Compute, Allowed, Waits
<1>3. WaiterHasOwner' /\ owner' \in [Mutex -> Task \cup {NONE}]
  BY <1>1, SameOwners, Here DEF Compute
<1> QED BY <1>1, <1>2, <1>3, CallKeeps, Here DEF Compute

\* Task.pass.
LEMMA PassKeeps ==
  ASSUME IInv, waking = {}, Pass
  PROVE  Right
<1> DEFINE b == [tcb[cur] EXCEPT !.slice = 0, !.flag = TRUE]
<1>1. cur \in Task /\ tcb[cur] \in Tcb /\ tcb[cur].state = "running"
      /\ tcb[cur].reason = "none" /\ tcb \in [Task -> Tcb]
  BY Here DEF Pass
<1>2. 0 \in 0 .. BYTE - 1
  BY SchedulerAssumption
<1>3. b \in Tcb /\ b.state = "running" /\ b.reason = "none"
  BY <1>1, <1>2 DEF Tcb
<1>4. tcb' = [tcb EXCEPT ![cur] = b]
  BY <1>1 DEF Pass
<1> HIDE DEF b
<1>5. Only(cur) /\ tcb'[cur] = b
  BY <1>1, <1>3, <1>4 DEF Only
<1>6. Allowed(cur)
  BY <1>1, <1>3, <1>5 DEF Allowed, Waits
<1>7. queue' \in [Queues -> Seq(Task)] /\ QueuesMatch'
  BY <1>1, <1>3, <1>5, SameQueues DEF Pass, IInv, Only
<1>8. WaiterHasOwner' /\ owner' \in [Mutex -> Task \cup {NONE}]
  BY <1>1, <1>3, <1>5, SameOwners DEF Pass
<1> QED BY <1>1, <1>5, <1>6, <1>7, <1>8, CallKeeps, Here DEF Pass

\* sleep.
LEMMA SleepMsKeeps ==
  ASSUME IInv, waking = {}, NEW n \in 0 .. MaxDelay, SleepMs(n)
  PROVE  Right
<1> DEFINE w == Waiting(tcb[cur], "sleep")
           b == [w EXCEPT !.due = n]
<1>1. cur \in Task /\ tcb[cur] \in Tcb /\ tcb[cur].state = "running"
      /\ tcb[cur].reason = "none" /\ tcb \in [Task -> Tcb] /\ rescan \in -1 .. HORIZON
      /\ ~tcb[cur].raised
  BY Here DEF SleepMs, Blocks
<1>2. w \in Tcb /\ w.state = "waiting" /\ w.reason = "sleep" /\ w.flag
      /\ w.raised = tcb[cur].raised
  BY <1>1, WaitingBlock
<1>3. n \in -1 .. MaxDelay
  BY SchedulerAssumption
<1>4. tcb' = [tcb EXCEPT ![cur] = b]
  BY <1>1 DEF SleepMs
<1> HIDE DEF w
<1>5. b \in Tcb /\ b.state = "waiting" /\ b.reason = "sleep" /\ b.flag
      /\ b.raised = tcb[cur].raised
  BY <1>2, <1>3 DEF Tcb
<1> HIDE DEF b
<1>6. Only(cur) /\ tcb'[cur] = b
  BY <1>1, <1>4, <1>5 DEF Only
<1>7. Allowed(cur)
  BY <1>1, <1>5, <1>6 DEF Allowed, Waits
<1>8. queue' \in [Queues -> Seq(Task)] /\ QueuesMatch'
  BY <1>1, <1>5, <1>6, MovedQueues DEF SleepMs, IInv, Only, States
<1>9. WaiterHasOwner' /\ owner' \in [Mutex -> Task \cup {NONE}]
  BY <1>1, <1>5, <1>6, SameOwners DEF SleepMs
<1>10. rescan' \in -1 .. HORIZON
  BY <1>1, <1>3, SchedulerAssumption DEF SleepMs, SleepScan
<1> QED BY <1>1, <1>6, <1>7, <1>8, <1>9, <1>10, CallKeeps DEF SleepMs, Blocks

\* Task#join.
LEMMA JoinKeeps ==
  ASSUME IInv, waking = {}, NEW u \in Task, Join(u)
  PROVE  Right
<1> DEFINE w == Waiting(tcb[cur], "join")
           b == [w EXCEPT !.joins = u]
<1>1. cur \in Task /\ tcb[cur] \in Tcb /\ tcb[cur].state = "running"
      /\ tcb[cur].reason = "none" /\ tcb \in [Task -> Tcb] /\ rescan \in -1 .. HORIZON
      /\ ~tcb[cur].raised
  BY Here DEF Join, Blocks
<1>2. w \in Tcb /\ w.state = "waiting" /\ w.reason = "join" /\ w.flag
      /\ w.raised = tcb[cur].raised
  BY <1>1, WaitingBlock
<1>3. tcb' = [tcb EXCEPT ![cur] = b]
  BY <1>1 DEF Join
<1> HIDE DEF w
<1>4. b \in Tcb /\ b.state = "waiting" /\ b.reason = "join" /\ b.flag
      /\ b.raised = tcb[cur].raised
  BY <1>2 DEF Tcb
<1> HIDE DEF b
<1>5. Only(cur) /\ tcb'[cur] = b
  BY <1>1, <1>3, <1>4 DEF Only
<1>6. Allowed(cur)
  BY <1>1, <1>4, <1>5 DEF Allowed, Waits
<1>7. queue' \in [Queues -> Seq(Task)] /\ QueuesMatch'
  BY <1>1, <1>4, <1>5, MovedQueues DEF Join, IInv, Only, States
<1>8. WaiterHasOwner' /\ owner' \in [Mutex -> Task \cup {NONE}]
  BY <1>1, <1>4, <1>5, SameOwners DEF Join
<1> QED BY <1>1, <1>5, <1>6, <1>7, <1>8, CallKeeps DEF Join, Blocks

\* Task#suspend, of the running task or another.
LEMMA SuspendKeeps ==
  ASSUME IInv, waking = {}, NEW u \in Task, Suspend(u)
  PROVE  Right
<1> DEFINE b == [tcb[u] EXCEPT !.state = "suspended", !.flag = TRUE]
<1>1. tcb[u] \in Tcb /\ tcb \in [Task -> Tcb] /\ rescan \in -1 .. HORIZON
      /\ tcb[u].state \in States \ {"suspended", "dormant"} /\ Running
      /\ (u = cur => ~tcb[u].raised) /\ cur \in Task
      /\ queue' = Moved(queue, u, "suspended")
  <2>1. Running
    BY DEF Suspend, Blocks
  <2>2. tcb[u] \in Tcb /\ tcb \in [Task -> Tcb] /\ rescan \in -1 .. HORIZON
    BY DEF IInv, TypeOK
  <2> QED BY <2>1, <2>2, Here DEF Suspend, Blocks, Exists, Tcb
<1>2. b \in Tcb /\ b.state = "suspended" /\ b.reason = tcb[u].reason /\ b.flag
      /\ b.on = tcb[u].on /\ b.raised = tcb[u].raised
  BY <1>1 DEF Tcb, States
<1>3. tcb' = [tcb EXCEPT ![u] = b]
  BY <1>1 DEF Suspend
<1> HIDE DEF b
<1>4. Only(u) /\ tcb'[u] = b
  BY <1>1, <1>2, <1>3 DEF Only
<1>5. b.reason = "mutex" => b.on \in Mutex
  BY <1>2 DEF IInv, Reasons
<1>6. Allowed(u)
  BY <1>1, <1>2, <1>4, <1>5 DEF Allowed
<1>7. queue' \in [Queues -> Seq(Task)] /\ QueuesMatch'
  BY <1>1, <1>2, <1>4, MovedQueues DEF IInv, Only, States
<1>8. WaiterHasOwner' /\ owner' \in [Mutex -> Task \cup {NONE}]
  BY <1>1, <1>2, <1>4, SameOwners DEF Suspend
<1> QED BY <1>1, <1>4, <1>6, <1>7, <1>8, CallKeeps DEF Suspend

\* Task#resume, of a task that may have to go on waiting.
LEMMA ResumeKeeps ==
  ASSUME IInv, waking = {}, NEW u \in Task, Resume(u)
  PROVE  Right
<1> DEFINE to == IF tcb[u].reason = "none" THEN "ready" ELSE "waiting"
           B == IF to = "ready" THEN Preempted(tcb) ELSE tcb
           b == [B[u] EXCEPT !.state = to]
<1>1. tcb[u] \in Tcb /\ tcb \in [Task -> Tcb] /\ rescan \in -1 .. HORIZON
      /\ tcb[u].state = "suspended" /\ Running /\ cur \in Task /\ u # cur
      /\ queue' = Moved(queue, u, to)
  <2>1. Running
    BY DEF Resume
  <2>2. tcb[u] \in Tcb /\ tcb \in [Task -> Tcb] /\ rescan \in -1 .. HORIZON
    BY DEF IInv, TypeOK
  <2> QED BY <2>1, <2>2, Here DEF Resume
<1>2. /\ B \in [Task -> Tcb]
      /\ \A t \in Task : /\ B[t].state = tcb[t].state /\ B[t].reason = tcb[t].reason
                         /\ B[t].due = tcb[t].due /\ B[t].on = tcb[t].on
                         /\ B[t].joins = tcb[t].joins /\ B[t].raised = tcb[t].raised
  BY <1>1, PreemptedBlocks
<1>3. to \in {"ready", "waiting"} /\ (to = "ready" <=> tcb[u].reason = "none")
  OBVIOUS
<1>4. tcb' = [B EXCEPT ![u] = b]
  BY <1>2 DEF Resume
<1> HIDE DEF B, to
<1>5. b \in Tcb /\ b.state = to /\ b.reason = tcb[u].reason /\ b.on = tcb[u].on
  BY <1>2, <1>3 DEF Tcb, States
<1> HIDE DEF b
<1>6. Only(u) /\ tcb'[u] = b
  BY <1>2, <1>4, <1>5 DEF Only
<1>7. b.reason = "mutex" => b.on \in Mutex
  BY <1>5 DEF IInv, Reasons
<1>8. Allowed(u)
  BY <1>1, <1>3, <1>5, <1>6, <1>7 DEF Allowed
<1>9. queue' \in [Queues -> Seq(Task)] /\ QueuesMatch'
  <2>1. to \in States /\ tcb[u].state \in States
    BY <1>1, <1>3 DEF States
  <2> QED BY <1>1, <1>5, <1>6, <2>1, MovedQueues DEF IInv, Only
<1>10. WaiterHasOwner' /\ owner' \in [Mutex -> Task \cup {NONE}]
  BY <1>1, <1>5, <1>6, SameOwners DEF Resume
<1>11. rescan' \in -1 .. HORIZON
  <2>1. tcb[u].due \in -1 .. MaxDelay
    BY <1>1 DEF Tcb
  <2> QED BY <1>1, <2>1, SchedulerAssumption DEF Resume, ResumeScan
<1> QED BY <1>1, <1>6, <1>8, <1>9, <1>10, <1>11, CallKeeps DEF Resume

\* Task#terminate.
LEMMA TerminateKeeps ==
  ASSUME IInv, waking = {}, NEW u \in Task, Terminate(u)
  PROVE  Right
<1> DEFINE f == Freed(tcb[u], "dormant")
           b == [f EXCEPT !.flag = TRUE]
<1>1. tcb[u] \in Tcb /\ tcb \in [Task -> Tcb] /\ rescan \in -1 .. HORIZON
      /\ tcb[u].state \in States /\ Running
      /\ (u = cur => ~tcb[u].raised) /\ cur \in Task
      /\ queue' = Moved(queue, u, "dormant")
  <2>1. Running
    BY DEF Terminate, Blocks
  <2>2. tcb[u] \in Tcb /\ tcb \in [Task -> Tcb] /\ rescan \in -1 .. HORIZON
    BY DEF IInv, TypeOK
  <2> QED BY <2>1, <2>2, Here DEF Terminate, Blocks, Exists, Tcb
<1>2. f \in Tcb /\ f.state = "dormant" /\ f.reason = "none" /\ f.raised = tcb[u].raised
  BY <1>1, FreedBlock DEF States
<1>3. tcb' = [tcb EXCEPT ![u] = b]
  BY <1>1 DEF Terminate
<1> HIDE DEF f
<1>4. b \in Tcb /\ b.state = "dormant" /\ b.reason = "none" /\ b.flag
      /\ b.raised = tcb[u].raised
  BY <1>2 DEF Tcb
<1> HIDE DEF b
<1>5. Only(u) /\ tcb'[u] = b
  BY <1>1, <1>3, <1>4 DEF Only
<1>6. Allowed(u)
  BY <1>1, <1>4, <1>5 DEF Allowed
<1>7. queue' \in [Queues -> Seq(Task)] /\ QueuesMatch'
  BY <1>1, <1>4, <1>5, MovedQueues DEF IInv, Only, States
<1>8. WaiterHasOwner' /\ owner' \in [Mutex -> Task \cup {NONE}]
  BY <1>1, <1>4, <1>5, SameOwners DEF Terminate
<1> QED BY <1>1, <1>5, <1>6, <1>7, <1>8, CallKeeps DEF Terminate

\* Task#raise, which wakes a task that sleeps.
LEMMA RaiseKeeps ==
  ASSUME IInv, waking = {}, NEW u \in Task, Raise(u)
  PROVE  Right
<1> DEFINE r == [tcb[u] EXCEPT !.raised = TRUE, !.flag = TRUE]
           B == [tcb EXCEPT ![u] = r]
           wakes == tcb[u].state = "waiting" /\ Sleeping(u)
           dues == {tcb[t].due : t \in {s \in Range(queue'["waiting"]) : Sleeping(s)}}
<1>1. tcb[u] \in Tcb /\ tcb \in [Task -> Tcb] /\ rescan \in -1 .. HORIZON
      /\ tcb[u].state \in States /\ Running /\ cur \in Task /\ tcb[cur].state = "running"
  <2>1. Running
    BY DEF Raise
  <2>2. tcb[u] \in Tcb /\ tcb \in [Task -> Tcb] /\ rescan \in -1 .. HORIZON
    BY DEF IInv, TypeOK
  <2> QED BY <2>1, <2>2, Here DEF Raise, Exists, Tcb
<1>2. r \in Tcb /\ r.state = tcb[u].state /\ r.reason = tcb[u].reason /\ r.flag /\ r.raised
      /\ r.on = tcb[u].on
  BY <1>1 DEF Tcb
<1>3. tcb' = IF wakes THEN [B EXCEPT ![u] = Woken(@)] ELSE B
  BY <1>1 DEF Raise
<1> HIDE DEF r
<1>4. B \in [Task -> Tcb] /\ B[u] = r /\ \A t \in Task \ {u} : B[t] = tcb[t]
  BY <1>1, <1>2
<1> HIDE DEF B
<1>5. CASE wakes
  <2> DEFINE b == Woken(r)
  <2>1. b \in Tcb /\ b.state = "ready" /\ b.reason = "none" /\ b.raised
    BY <1>2, FreedBlock DEF Woken, States
  <2>2. tcb' = [B EXCEPT ![u] = b] /\ queue' = Moved(queue, u, "ready")
    <3>1. tcb' = [B EXCEPT ![u] = Woken(@)]
      BY <1>3, <1>5
    <3>2. queue' = Moved(queue, u, "ready")
      BY <1>5 DEF Raise
    <3> QED BY <1>4, <3>1, <3>2
  <2> HIDE DEF b
  <2>3. Only(u) /\ tcb'[u] = b
    BY <1>4, <2>1, <2>2 DEF Only
  <2>4. Allowed(u)
    BY <1>1, <1>5, <2>1, <2>3 DEF Allowed, Sleeping
  <2>5. queue' \in [Queues -> Seq(Task)] /\ QueuesMatch'
    BY <1>1, <2>1, <2>2, <2>3, MovedQueues DEF IInv, Only, States
  <2>6. WaiterHasOwner' /\ owner' \in [Mutex -> Task \cup {NONE}]
    BY <2>1, <2>3, SameOwners DEF Raise
  <2>7. rescan' = Min({rescan} \cup dues)
    BY <1>5 DEF Raise
  <2>8. \A k \in dues : k \in Int /\ -1 <= k
    <3>1. Range(queue'["waiting"]) \subseteq Task
      BY <2>5 DEF QueuesMatch, Queues, States
    <3>2. \A t \in Task : tcb[t].due \in -1 .. MaxDelay
      BY <1>1 DEF Tcb
    <3> QED BY <3>1, <3>2, SchedulerAssumption
  <2> HIDE DEF dues
  <2>9. rescan' \in -1 .. HORIZON
    <3>1. {rescan} \cup dues \subseteq Int /\ \A k \in {rescan} \cup dues : -1 <= k
      BY <1>1, <2>8, SchedulerAssumption
    <3>2. rescan' \in {rescan} \cup dues /\ rescan' <= rescan
      BY <3>1, <2>7, MinOf
    <3> QED BY <1>1, <3>1, <3>2, SchedulerAssumption
  <2> QED BY <1>1, <2>3, <2>4, <2>5, <2>6, <2>9, CallKeeps DEF Raise
<1>6. CASE ~wakes
  <2>1. tcb' = B /\ queue' = queue /\ rescan' = rescan /\ owner' = owner
    <3>1. tcb' = B
      BY <1>3, <1>6
    <3> QED BY <3>1, <1>6 DEF Raise
  <2>2. Only(u) /\ tcb'[u] = r
    BY <1>4, <2>1 DEF Only
  <2>3. /\ tcb[u].reason # "none" => tcb[u].state \in {"waiting", "suspended"}
        /\ tcb[u].reason = "mutex" => tcb[u].on \in Mutex
        /\ tcb[u].state = "running" => u = cur
    BY DEF IInv, Reasons, OneRuns, Waits
  <2>4. Allowed(u)
    BY <1>1, <1>2, <1>6, <2>2, <2>3 DEF Allowed, Sleeping
  <2>5. queue' \in [Queues -> Seq(Task)] /\ QueuesMatch'
    BY <1>2, <2>1, <2>2, SameQueues DEF IInv, Only
  <2>6. WaiterHasOwner' /\ owner' \in [Mutex -> Task \cup {NONE}]
    BY <1>2, <2>1, <2>2, SameOwners
  <2> QED BY <1>1, <2>1, <2>2, <2>4, <2>5, <2>6, CallKeeps DEF Raise
<1> QED BY <1>5, <1>6

\* Task.create.
LEMMA CreateKeeps ==
  ASSUME IInv, waking = {}, NEW u \in Task, Create(u)
  PROVE  Right
<1> DEFINE b == [tcb[u] EXCEPT !.state = "dormant"]
           q == Inserted(queue["dormant"], u, Prio)
           S(n) == {t \in Task : QueueOf(tcb[t].state) = n}
           S2(n) == {t \in Task : QueueOf(tcb'[t].state) = n}
<1>1. tcb[u] \in Tcb /\ tcb \in [Task -> Tcb] /\ rescan \in -1 .. HORIZON
      /\ tcb[u].state = "none" /\ Running /\ cur \in Task /\ tcb[cur].state = "running"
      /\ queue \in [Queues -> Seq(Task)]
  <2>1. Running
    BY DEF Create
  <2>2. tcb[u] \in Tcb /\ tcb \in [Task -> Tcb] /\ rescan \in -1 .. HORIZON
        /\ queue \in [Queues -> Seq(Task)]
    BY DEF IInv, TypeOK
  <2> QED BY <2>1, <2>2, Here DEF Create, Exists
<1>2. tcb[u].reason = "none"
  BY <1>1 DEF IInv, Reasons, Waits
<1>3. b \in Tcb /\ b.state = "dormant" /\ b.reason = "none"
  BY <1>1, <1>2 DEF Tcb, States
<1>4. tcb' = [tcb EXCEPT ![u] = b]
  BY <1>1 DEF Create
<1> HIDE DEF b
<1>5. Only(u) /\ tcb'[u] = b
  BY <1>1, <1>3, <1>4 DEF Only
<1>6. Allowed(u)
  BY <1>1, <1>2, <1>3, <1>5 DEF Allowed
<1>7. queue' = [queue EXCEPT !["dormant"] = q] /\ "dormant" \in Queues
  BY DEF Create, Queues, States
<1>8. \A n \in Queues : Holds(queue[n], S(n)) /\ u \notin S(n)
  BY <1>1 DEF IInv, QueuesMatch, Holds, QueueOf, Queues, States
<1>9. /\ S2("dormant") = S("dormant") \cup {u}
      /\ \A n \in Queues \ {"dormant"} : S2(n) = S(n)
  <2>1. \A t \in Task \ {u} : tcb'[t].state = tcb[t].state
    BY <1>5 DEF Only
  <2>2. QueueOf(tcb'[u].state) = "dormant"
    BY <1>3, <1>5 DEF QueueOf
  <2>3. \A n \in Queues : u \notin S(n)
    BY <1>8
  <2> QED BY <2>1, <2>2, <2>3, <1>7
<1> HIDE DEF S
<1>10. Holds(q, S2("dormant"))
  <2>1. Holds(q, S("dormant") \cup {u})
    BY <1>7, <1>8, InsertedHolds
  <2> QED BY <2>1, <1>9
<1> HIDE DEF q
<1>11. queue' \in [Queues -> Seq(Task)] /\ QueuesMatch'
  <2>1. \A n \in Queues : Holds(queue'[n], S2(n))
    BY <1>1, <1>7, <1>8, <1>9, <1>10
  <2>2. \A n \in Queues : queue'[n] \in Seq(Task)
    BY <2>1 DEF Holds
  <2>3. queue' \in [Queues -> Seq(Task)]
    BY <2>2, <1>1, <1>7
  <2> QED BY <2>1, <2>3 DEF Holds, QueuesMatch
<1>12. WaiterHasOwner' /\ owner' \in [Mutex -> Task \cup {NONE}]
  BY <1>3, <1>5, SameOwners DEF Create
<1> QED BY <1>1, <1>5, <1>6, <1>11, <1>12, CallKeeps DEF Create

\* Task#run.
LEMMA RunKeeps ==
  ASSUME IInv, waking = {}, NEW u \in Task, Run(u)
  PROVE  Right
<1> DEFINE B == Preempted(tcb)
           b == Woken(B[u])
<1>1. tcb[u] \in Tcb /\ tcb \in [Task -> Tcb] /\ rescan \in -1 .. HORIZON
      /\ tcb[u].state = "dormant" /\ Running /\ cur \in Task /\ u # cur
      /\ queue' = Moved(queue, u, "ready")
  <2>1. Running
    BY DEF Run
  <2>2. tcb[u] \in Tcb /\ tcb \in [Task -> Tcb] /\ rescan \in -1 .. HORIZON
    BY DEF IInv, TypeOK
  <2> QED BY <2>1, <2>2, Here DEF Run
<1>2. tcb[u].reason = "none"
  BY <1>1 DEF IInv, Reasons, Waits
<1>3. /\ B \in [Task -> Tcb]
      /\ \A t \in Task : /\ B[t].state = tcb[t].state /\ B[t].reason = tcb[t].reason
                         /\ B[t].due = tcb[t].due /\ B[t].on = tcb[t].on
                         /\ B[t].joins = tcb[t].joins /\ B[t].raised = tcb[t].raised
  BY <1>1, PreemptedBlocks
<1>4. tcb' = [B EXCEPT ![u] = b]
  BY <1>3 DEF Run
<1> HIDE DEF B
<1>5. b \in Tcb /\ b.state = "ready" /\ b.reason = "none"
  BY <1>3, FreedBlock DEF Woken, States
<1> HIDE DEF b
<1>6. Only(u) /\ tcb'[u] = b
  BY <1>3, <1>4, <1>5 DEF Only
<1>7. Allowed(u)
  BY <1>1, <1>2, <1>5, <1>6 DEF Allowed
<1>8. queue' \in [Queues -> Seq(Task)] /\ QueuesMatch'
  BY <1>1, <1>5, <1>6, MovedQueues DEF IInv, Only, States
<1>9. WaiterHasOwner' /\ owner' \in [Mutex -> Task \cup {NONE}]
  BY <1>5, <1>6, SameOwners DEF Run
<1> QED BY <1>1, <1>6, <1>7, <1>8, <1>9, CallKeeps DEF Run

\* Task#rewind.
LEMMA RewindKeeps ==
  ASSUME IInv, waking = {}, NEW u \in Task, Rewind(u)
  PROVE  Right
<1> DEFINE b == [tcb[u] EXCEPT !.flag = FALSE, !.raised = FALSE]
<1>1. tcb[u] \in Tcb /\ tcb \in [Task -> Tcb] /\ rescan \in -1 .. HORIZON
      /\ tcb[u].state = "dormant" /\ Running /\ cur \in Task /\ u # cur
  <2>1. Running
    BY DEF Rewind
  <2>2. tcb[u] \in Tcb /\ tcb \in [Task -> Tcb] /\ rescan \in -1 .. HORIZON
    BY DEF IInv, TypeOK
  <2> QED BY <2>1, <2>2, Here DEF Rewind
<1>2. tcb[u].reason = "none"
  BY <1>1 DEF IInv, Reasons, Waits
<1>3. b \in Tcb /\ b.state = "dormant" /\ b.reason = "none"
  BY <1>1, <1>2 DEF Tcb
<1>4. tcb' = [tcb EXCEPT ![u] = b]
  BY <1>1 DEF Rewind
<1> HIDE DEF b
<1>5. Only(u) /\ tcb'[u] = b
  BY <1>1, <1>3, <1>4 DEF Only
<1>6. Allowed(u)
  BY <1>1, <1>2, <1>3, <1>5 DEF Allowed
<1>7. queue' \in [Queues -> Seq(Task)] /\ QueuesMatch'
  BY <1>1, <1>3, <1>5, SameQueues DEF Rewind, IInv, Only
<1>8. WaiterHasOwner' /\ owner' \in [Mutex -> Task \cup {NONE}]
  BY <1>3, <1>5, SameOwners DEF Rewind
<1> QED BY <1>1, <1>5, <1>6, <1>7, <1>8, CallKeeps DEF Rewind

\* No task changes its state or what it waits for.
Unmoved ==
  \A t \in Task :
    /\ tcb'[t].state = tcb[t].state /\ tcb'[t].reason = tcb[t].reason
    /\ tcb'[t].due = tcb[t].due /\ tcb'[t].on = tcb[t].on

\* Then everything but the places of mrbc_run stays right.
LEMMA UnmovedKeeps ==
  ASSUME IInv, Unmoved, owner' = owner, waking' = waking
  PROVE  Reasons' /\ WaiterHasOwner' /\ Wakes' /\ JoinStep /\ SleepStep
<1>1. Reasons' /\ WaiterHasOwner' /\ Wakes'
  <2>1. waking \subseteq Task
    BY DEF IInv, TypeOK
  <2> QED BY <2>1 DEF Unmoved, IInv, Reasons, WaiterHasOwner, Wakes, Waits
<1> QED BY <1>1 DEF Unmoved, JoinStep, SleepStep

\* A handler takes an exception.
LEMMA RescueKeeps ==
  ASSUME IInv, waking = {}, Rescue
  PROVE  Right
<1> DEFINE b == [tcb[cur] EXCEPT !.flag = FALSE, !.raised = FALSE]
<1>1. cur \in Task /\ tcb[cur] \in Tcb /\ tcb \in [Task -> Tcb] /\ tcb[cur].state = "running"
  BY DEF IInv, TypeOK, Places, Rescue
<1>2. b \in Tcb /\ b.state = "running" /\ b.reason = tcb[cur].reason
      /\ b.due = tcb[cur].due /\ b.on = tcb[cur].on
  BY <1>1 DEF Tcb
<1>3. tcb' = [tcb EXCEPT ![cur] = b]
  BY <1>1 DEF Rescue
<1> HIDE DEF b
<1>4. tcb' \in [Task -> Tcb] /\ Unmoved
  BY <1>1, <1>2, <1>3 DEF Unmoved
<1>5. queue' \in [Queues -> Seq(Task)] /\ QueuesMatch'
  BY <1>4, SameQueues DEF IInv, Rescue, Unmoved
<1>6. Reasons' /\ WaiterHasOwner' /\ Wakes' /\ JoinStep /\ SleepStep
  BY <1>4, UnmovedKeeps DEF Rescue
<1>7. TypeOK'
  BY <1>4, <1>5 DEF IInv, TypeOK, Rescue, Where
<1>8. OneRuns' /\ Places'
  BY <1>1, <1>4 DEF IInv, Rescue, OneRuns, Places, Unmoved
<1> QED BY <1>5, <1>6, <1>7, <1>8 DEF Right, IInv

\* The priority is changed,
LEMMA SetPriorityKeeps ==
  ASSUME IInv, waking = {}, NEW u \in Task, NEW p \in Priorities, SetPriority(u, p)
  PROVE  Right
<1> DEFINE b == [tcb[u] EXCEPT !.prio = p]
<1>1. cur \in Task /\ tcb[u] \in Tcb /\ tcb \in [Task -> Tcb] /\ tcb[u].state # "none"
  BY DEF IInv, TypeOK, Places, SetPriority, Running, Exists
<1>2. b \in Tcb /\ b.state = tcb[u].state /\ b.reason = tcb[u].reason
      /\ b.due = tcb[u].due /\ b.on = tcb[u].on
  BY <1>1 DEF Tcb
<1>3. tcb' = [tcb EXCEPT ![u] = b]
  BY <1>1 DEF SetPriority
<1> HIDE DEF b
<1>4. tcb' \in [Task -> Tcb] /\ Unmoved
  BY <1>1, <1>2, <1>3 DEF Unmoved
<1>5. queue' \in [Queues -> Seq(Task)] /\ QueuesMatch'
  BY <1>4, SameQueues DEF IInv, SetPriority, Unmoved
<1>6. Reasons' /\ WaiterHasOwner' /\ Wakes' /\ JoinStep /\ SleepStep
  BY <1>4, UnmovedKeeps DEF SetPriority
<1>7. TypeOK'
  BY <1>4, <1>5 DEF IInv, TypeOK, SetPriority, Where
<1>8. OneRuns' /\ Places'
  BY <1>1, <1>4 DEF IInv, SetPriority, Running, OneRuns, Places, Unmoved
<1> QED BY <1>5, <1>6, <1>7, <1>8 DEF Right, IInv

\* and then the place in the queue.
LEMMA ReorderKeeps ==
  ASSUME IInv, waking = {}, Reorder
  PROVE  Right
<1>1. cur \in Task /\ tcb \in [Task -> Tcb] /\ tcb[cur].state = "running"
      /\ scan \in Task /\ tcb[scan].state \in States /\ tcb[cur].reason = "none" /\ ~ret
  <2>1. cur \in Task /\ tcb \in [Task -> Tcb] /\ tcb[cur].state = "running"
        /\ scan \in Task /\ tcb[scan].state # "none" /\ ~ret
    BY DEF IInv, TypeOK, Places, Reorder
  <2>2. tcb[scan] \in Tcb
    BY <2>1
  <2> QED BY <2>1, <2>2 DEF IInv, Reasons, Waits, Tcb
<1>2. tcb' \in [Task -> Tcb] /\ Unmoved /\ tcb'[cur].state = "running"
  <2>1. CASE tcb' = tcb
    BY <1>1, <2>1 DEF Unmoved
  <2>2. CASE tcb' = Preempted(tcb)
    BY <1>1, <2>2, PreemptedBlocks DEF Unmoved
  <2> QED BY <2>1, <2>2 DEF Reorder
<1>3. queue' \in [Queues -> Seq(Task)] /\ QueuesMatch'
  BY <1>1, <1>2, MovedQueues DEF IInv, Reorder, Unmoved
<1>4. Reasons' /\ WaiterHasOwner' /\ Wakes' /\ JoinStep /\ SleepStep
  BY <1>2, UnmovedKeeps DEF Reorder
<1>5. TypeOK'
  BY <1>2, <1>3 DEF IInv, TypeOK, Reorder, Where
<1>6. OneRuns'
  BY <1>2 DEF IInv, Reorder, OneRuns, Unmoved
<1>7. Places'
  BY <1>1, <1>2 DEF Reorder, Places
<1> QED BY <1>3, <1>4, <1>5, <1>6, <1>7 DEF Right, IInv

\* A failed assertion.
LEMMA AbortKeeps ==
  ASSUME IInv, waking = {}, NEW m \in Mutex, Abort(m)
  PROVE  Right
<1>1. Unmoved
  BY DEF Abort, Unmoved
<1>2. queue' \in [Queues -> Seq(Task)] /\ QueuesMatch'
  BY SameQueues DEF IInv, Abort
<1>3. Reasons' /\ WaiterHasOwner' /\ Wakes' /\ JoinStep /\ SleepStep
  BY <1>1, UnmovedKeeps DEF Abort
<1>4. TypeOK'
  BY DEF IInv, TypeOK, Abort, Where
<1>5. OneRuns' /\ Places'
  BY DEF IInv, Abort, Running, OneRuns, Places
<1> QED BY <1>2, <1>3, <1>4, <1>5 DEF Right, IInv

-----------------------------------------------------------------------------
\* Mutexes.

\* A mutex that was free has no waiter, so that it may be given to anybody.
LEMMA TakenFree ==
  ASSUME IInv, NEW m \in Mutex, owner[m] = NONE, cur \in Task,
         owner' = [owner EXCEPT ![m] = cur], tcb' = tcb
  PROVE  WaiterHasOwner' /\ owner' \in [Mutex -> Task \cup {NONE}]
<1>1. owner \in [Mutex -> Task \cup {NONE}]
  BY DEF IInv, TypeOK
<1>2. \A k \in Mutex \ {m} : owner'[k] = owner[k]
  BY <1>1
<1>3. ASSUME NEW t \in Task, Waits(t), tcb[t].reason = "mutex"
      PROVE  owner'[tcb[t].on] \notin {NONE, t}
  <2>1. tcb[t].on \in Mutex /\ owner[tcb[t].on] \notin {NONE, t}
    BY <1>3 DEF IInv, Reasons, WaiterHasOwner
  <2>2. tcb[t].on # m
    BY <2>1
  <2> QED BY <1>2, <2>1, <2>2
<1> QED BY <1>1, <1>3 DEF WaiterHasOwner, Waits

\* Mutex#try_lock.
LEMMA TryLockKeeps ==
  ASSUME IInv, waking = {}, NEW m \in Mutex, TryLock(m)
  PROVE  Right
<1>1. cur \in Task /\ tcb[cur].state = "running" /\ tcb[cur].reason = "none"
      /\ rescan \in -1 .. HORIZON /\ Only(cur)
      /\ queue' \in [Queues -> Seq(Task)] /\ QueuesMatch'
  BY NothingMoves, Here DEF TryLock
<1>2. Allowed(cur)
  BY <1>1 DEF TryLock, Allowed, Waits
<1>3. WaiterHasOwner' /\ owner' \in [Mutex -> Task \cup {NONE}]
  <2>0. owner \in [Mutex -> Task \cup {NONE}]
    BY DEF IInv, TypeOK
  <2>1. CASE owner[m] = NONE
    <3>1. owner' = [owner EXCEPT ![m] = cur]
      BY <2>1 DEF TryLock
    <3> QED BY <1>1, <2>1, <3>1, TakenFree DEF TryLock
  <2>2. CASE owner[m] # NONE
    <3>1. owner' = owner
      BY <2>0, <2>2 DEF TryLock
    <3> QED BY <1>1, <3>1, SameOwners DEF TryLock
  <2> QED BY <2>1, <2>2
<1> QED BY <1>1, <1>2, <1>3, CallKeeps DEF TryLock

\* Mutex#lock, which may make the task wait.
LEMMA LockKeeps ==
  ASSUME IInv, waking = {}, NEW m \in Mutex, Lock(m)
  PROVE  Right
<1>1. cur \in Task /\ tcb[cur] \in Tcb /\ tcb[cur].state = "running"
      /\ tcb[cur].reason = "none" /\ tcb \in [Task -> Tcb] /\ rescan \in -1 .. HORIZON
      /\ ~tcb[cur].raised /\ owner \in [Mutex -> Task \cup {NONE}]
  BY Here DEF Lock, Blocks, IInv, TypeOK
<1>2. CASE owner[m] = NONE
  <2>1. tcb' = tcb /\ queue' = queue /\ owner' = [owner EXCEPT ![m] = cur]
    BY <1>2 DEF Lock
  <2>2. Only(cur) /\ queue' \in [Queues -> Seq(Task)] /\ QueuesMatch'
    BY <1>1, <2>1, NothingMoves
  <2>3. Allowed(cur)
    BY <1>1, <2>1 DEF Allowed, Waits
  <2>4. WaiterHasOwner' /\ owner' \in [Mutex -> Task \cup {NONE}]
    BY <1>1, <1>2, <2>1, TakenFree
  <2> QED BY <1>1, <2>2, <2>3, <2>4, CallKeeps DEF Lock, Blocks
<1>3. CASE owner[m] # NONE
  <2> DEFINE w == Waiting(tcb[cur], "mutex")
             b == [w EXCEPT !.on = m]
  <2>1. w \in Tcb /\ w.state = "waiting" /\ w.reason = "mutex" /\ w.flag
        /\ w.raised = tcb[cur].raised
    BY <1>1, WaitingBlock
  <2>2. tcb' = [tcb EXCEPT ![cur] = b] /\ owner' = owner /\ owner[m] # cur
        /\ queue' = Moved(queue, cur, "waiting")
    BY <1>1, <1>3 DEF Lock
  <2> HIDE DEF w
  <2>3. b \in Tcb /\ b.state = "waiting" /\ b.reason = "mutex" /\ b.flag
        /\ b.raised = tcb[cur].raised /\ b.on = m
    BY <2>1 DEF Tcb
  <2> HIDE DEF b
  <2>4. Only(cur) /\ tcb'[cur] = b
    BY <1>1, <2>2, <2>3 DEF Only
  <2>5. Allowed(cur)
    BY <1>1, <2>3, <2>4 DEF Allowed, Waits
  <2>6. queue' \in [Queues -> Seq(Task)] /\ QueuesMatch'
    BY <1>1, <2>2, <2>3, <2>4, MovedQueues DEF IInv, Only, States
  <2>7. ASSUME NEW t \in Task, Waits(t)', tcb'[t].reason = "mutex"
        PROVE  owner'[tcb'[t].on] \notin {NONE, t}
    <3>1. CASE t = cur
      BY <1>3, <2>2, <2>3, <2>4, <3>1
    <3>2. CASE t # cur
      <4>1. tcb'[t].state = tcb[t].state /\ tcb[t].reason = "mutex"
            /\ tcb'[t].on = tcb[t].on
        BY <2>4, <2>7, <3>2 DEF Only
      <4>2. Waits(t)
        BY <4>1 DEF IInv, Reasons
      <4> QED BY <2>2, <4>1, <4>2 DEF IInv, WaiterHasOwner
    <3> QED BY <3>1, <3>2
  <2>8. WaiterHasOwner' /\ owner' \in [Mutex -> Task \cup {NONE}]
    BY <1>1, <2>2, <2>7 DEF WaiterHasOwner
  <2> QED BY <1>1, <2>4, <2>5, <2>6, <2>8, CallKeeps DEF Lock, Blocks
<1> QED BY <1>2, <1>3

\* The first task that waits for m in queue n, or none that does.
LEMMA WaiterFacts ==
  ASSUME IInv, NEW n \in Queues, NEW m \in Mutex
  PROVE  /\ Waiter(m, n) # NONE =>
              /\ Waiter(m, n) \in Task /\ QueueOf(tcb[Waiter(m, n)].state) = n
              /\ tcb[Waiter(m, n)].reason = "mutex" /\ tcb[Waiter(m, n)].on = m
         /\ Waiter(m, n) = NONE =>
              \A t \in Task : ~(/\ QueueOf(tcb[t].state) = n
                                /\ tcb[t].reason = "mutex" /\ tcb[t].on = m)
<1> DEFINE S == {t \in Task : tcb[t].reason = "mutex" /\ tcb[t].on = m}
           q == queue[n]
           i == IndexIn(q, S)
<1>1. q \in Seq(Task) /\ Range(q) = {t \in Task : QueueOf(tcb[t].state) = n}
  BY DEF IInv, TypeOK, QueuesMatch
<1>2. Waiter(m, n) = IF i = 0 THEN NONE ELSE q[i]
  <2>1. {j \in 1 .. Len(q) : q[j] \in S}
          = {j \in 1 .. Len(q) : tcb[q[j]].reason = "mutex" /\ tcb[q[j]].on = m}
    BY <1>1
  <2> QED BY <2>1 DEF Waiter, SelectInSeq, IndexIn
<1>3. /\ i = 0 => Range(q) \cap S = {}
      /\ i # 0 => q[i] \in S /\ q[i] \in Range(q)
  BY <1>1, IndexFacts
<1> HIDE DEF i
<1>4. i # 0 => Waiter(m, n) \in Task
  BY <1>2, <1>3
<1> QED BY <1>1, <1>2, <1>3, <1>4, SchedulerAssumption

\* Mutex#unlock: the mutex goes to the first waiter, to a suspended one, or is free.
LEMMA UnlockKeeps ==
  ASSUME IInv, waking = {}, NEW m \in Mutex, Unlock(m)
  PROVE  Right
<1> DEFINE w == Waiter(m, "waiting")
           s == Waiter(m, "suspended")
<1>1. cur \in Task /\ tcb[cur].state = "running" /\ tcb[cur].reason = "none"
      /\ tcb \in [Task -> Tcb] /\ rescan \in -1 .. HORIZON
      /\ owner \in [Mutex -> Task \cup {NONE}] /\ owner[m] = cur
      /\ rescan' = rescan /\ Instruction /\ Running
  BY Here DEF Unlock, IInv, TypeOK
<1>2. /\ w # NONE => /\ w \in Task /\ QueueOf(tcb[w].state) = "waiting"
                     /\ tcb[w].reason = "mutex" /\ tcb[w].on = m
      /\ w = NONE =>
           \A t \in Task : ~(/\ QueueOf(tcb[t].state) = "waiting"
                             /\ tcb[t].reason = "mutex" /\ tcb[t].on = m)
      /\ s # NONE => /\ s \in Task /\ QueueOf(tcb[s].state) = "suspended"
                     /\ tcb[s].reason = "mutex" /\ tcb[s].on = m
      /\ s = NONE =>
           \A t \in Task : ~(/\ QueueOf(tcb[t].state) = "suspended"
                             /\ tcb[t].reason = "mutex" /\ tcb[t].on = m)
  BY WaiterFacts DEF Queues, States
<1>3. owner' = [owner EXCEPT ![m] = IF w # NONE THEN w ELSE s]
  BY DEF Unlock, SuspendedWaiter
<1>4. owner' \in [Mutex -> Task \cup {NONE}]
  BY <1>1, <1>2, <1>3
<1>5. /\ w # NONE => queue' = Moved(queue, w, "ready")
                     /\ tcb' = Preempted([tcb EXCEPT ![w] = Woken(@)])
      /\ w = NONE => queue' = queue
      /\ w = NONE /\ s = NONE => tcb' = tcb
      /\ w = NONE /\ s # NONE => tcb' = [tcb EXCEPT ![s] = Freed(@, "suspended")]
  BY DEF Unlock, SuspendedWaiter
<1> HIDE DEF w, s
\* It is enough that nobody who waits for m is left without an owner.
<1>6. ASSUME NEW u \in Task, Only(u), tcb'[u].reason = "none",
             \A t \in Task \ {u} : Waits(t) /\ tcb[t].reason = "mutex" /\ tcb[t].on = m
               => owner'[m] \notin {NONE, t}
      PROVE  WaiterHasOwner'
  <2> SUFFICES ASSUME NEW t \in Task, Waits(t)', tcb'[t].reason = "mutex"
               PROVE  owner'[tcb'[t].on] \notin {NONE, t}
    BY DEF WaiterHasOwner
  <2>1. t # u /\ tcb[t].reason = "mutex" /\ tcb'[t].on = tcb[t].on
    BY <1>6 DEF Only
  <2>2. Waits(t) /\ tcb[t].on \in Mutex
    BY <2>1 DEF IInv, Reasons
  <2>3. CASE tcb[t].on = m
    BY <1>6, <2>1, <2>2, <2>3
  <2>4. CASE tcb[t].on # m
    <3>1. owner'[tcb[t].on] = owner[tcb[t].on]
      BY <1>1, <1>3, <2>2, <2>4
    <3> QED BY <2>1, <2>2, <3>1 DEF IInv, WaiterHasOwner
  <2> QED BY <2>3, <2>4
<1>7. CASE w # NONE
  <2> DEFINE b == Woken(tcb[w])
             B == [tcb EXCEPT ![w] = b]
  <2>1. w \in Task /\ tcb[w] \in Tcb /\ tcb[w].state = "waiting" /\ tcb[w].reason = "mutex"
    BY <1>1, <1>2, <1>7 DEF QueueOf
  <2>2. b \in Tcb /\ b.state = "ready" /\ b.reason = "none"
    BY <2>1, FreedBlock DEF Woken, States
  <2>3. tcb' = Preempted(B) /\ queue' = Moved(queue, w, "ready") /\ owner'[m] = w
    BY <1>1, <1>3, <1>5, <1>7
  <2> HIDE DEF b
  <2>4. B \in [Task -> Tcb] /\ B[w] = b /\ \A t \in Task \ {w} : B[t] = tcb[t]
    BY <1>1, <2>1, <2>2
  <2> HIDE DEF B
  <2>5. Only(w) /\ tcb'[w].state = "ready" /\ tcb'[w].reason = "none"
    BY <2>1, <2>2, <2>3, <2>4, PreemptedBlocks DEF Only
  <2>6. Allowed(w)
    BY <1>1, <2>1, <2>5 DEF Allowed
  <2>7. queue' \in [Queues -> Seq(Task)] /\ QueuesMatch'
    BY <2>1, <2>3, <2>5, MovedQueues DEF IInv, Only, States
  <2>8. WaiterHasOwner'
    BY <1>6, <1>7, <2>1, <2>3, <2>5
  <2> QED BY <1>1, <1>4, <2>1, <2>5, <2>6, <2>7, <2>8, CallKeeps
<1>8. CASE w = NONE /\ s # NONE
  <2> DEFINE b == Freed(tcb[s], "suspended")
  <2>1. s \in Task /\ tcb[s] \in Tcb /\ tcb[s].state = "suspended" /\ tcb[s].reason = "mutex"
    BY <1>1, <1>2, <1>8 DEF QueueOf
  <2>2. b \in Tcb /\ b.state = "suspended" /\ b.reason = "none"
    BY <2>1, FreedBlock DEF States
  <2>3. tcb' = [tcb EXCEPT ![s] = b] /\ queue' = queue /\ owner'[m] = s
    BY <1>1, <1>3, <1>5, <1>8
  <2> HIDE DEF b
  <2>4. Only(s) /\ tcb'[s] = b
    BY <1>1, <2>1, <2>2, <2>3 DEF Only
  <2>5. Allowed(s)
    BY <1>1, <2>1, <2>2, <2>4 DEF Allowed
  <2>6. queue' \in [Queues -> Seq(Task)] /\ QueuesMatch'
    BY <2>1, <2>2, <2>3, <2>4, SameQueues DEF IInv, Only
  <2>7. WaiterHasOwner'
    BY <1>6, <1>8, <2>1, <2>2, <2>3, <2>4
  <2> QED BY <1>1, <1>4, <2>1, <2>4, <2>5, <2>6, <2>7, CallKeeps
<1>9. CASE w = NONE /\ s = NONE
  <2>1. tcb' = tcb /\ queue' = queue
    BY <1>5, <1>9
  <2>2. Only(cur) /\ queue' \in [Queues -> Seq(Task)] /\ QueuesMatch'
    BY <1>1, <2>1, NothingMoves
  <2>3. Allowed(cur)
    BY <1>1, <2>1 DEF Allowed, Waits
  <2>4. \A t \in Task : ~(Waits(t) /\ tcb[t].reason = "mutex" /\ tcb[t].on = m)
    BY <1>2, <1>9 DEF Waits, QueueOf
  <2>5. WaiterHasOwner'
    BY <1>1, <1>6, <2>1, <2>2, <2>4
  <2> QED BY <1>1, <1>4, <2>2, <2>3, <2>5, CallKeeps
<1> QED BY <1>7, <1>8, <1>9

-----------------------------------------------------------------------------
\* The look at the waiting queue.

Asleep(b) == b.state = "waiting" /\ b.reason = "sleep"

\* A block that sleeps did so before.
Quiet(old, new) == Asleep(new) => Asleep(old) /\ new.due = old.due

\* No task begins to sleep.
Calm == rescan' = rescan /\ waking' = waking /\ \A t \in Task : Quiet(tcb[t], tcb'[t])

LEMMA CalmKeeps ==
  ASSUME IInv, WakeupInTime, Calm
  PROVE  WakeupInTime'
BY DEF WakeupInTime, Calm, Quiet, Asleep, Sleeping

\* One control block changes, or all have their flags set.
LEMMA OneQuiet ==
  ASSUME IInv, NEW v \in Task, NEW b, Quiet(tcb[v], b), tcb' = [tcb EXCEPT ![v] = b]
  PROVE  \A t \in Task : Quiet(tcb[t], tcb'[t])
BY DEF IInv, TypeOK, Quiet

LEMMA FlagsQuiet ==
  ASSUME NEW B, B \in [Task -> Tcb], tcb' = Preempted(B),
         \A t \in Task : Quiet(tcb[t], B[t])
  PROVE  \A t \in Task : Quiet(tcb[t], tcb'[t])
BY PreemptedBlocks DEF Quiet, Asleep

LEMMA FreedQuiet ==
  ASSUME NEW b, NEW c, NEW s
  PROVE  Quiet(b, Freed(c, s)) /\ Quiet(b, Woken(c))
BY DEF Quiet, Asleep, Freed, Woken

\* The steps of mrbc_run that look at no clock,
LEMMA SchedulesCalm ==
  ASSUME IInv, waking = {},
         \/ Choose \/ Exit \/ Start \/ Return \/ End \/ Switch \/ Done \/ Release
         \/ ReleaseSuspended \/ Rescue \/ UNCHANGED vars
  PROVE  Calm
<1>0. tcb \in [Task -> Tcb]
  BY DEF IInv, TypeOK
<1>1. CASE Choose \/ Exit \/ UNCHANGED vars
  BY <1>1 DEF Choose, Exit, vars, Calm, Quiet
<1>2. CASE Start \/ Return \/ End \/ Switch \/ Rescue
  <2>1. cur \in Task /\ tcb[cur] \in Tcb
    BY <1>0, <1>2 DEF IInv, Places, Start, Return, End, Switch, Rescue
  <2>2. rescan' = rescan /\ waking' = waking
    BY <1>2 DEF Start, Return, End, Returned, Switch, Rescue
  <2>3. CASE Start
    <3> DEFINE b == [tcb[cur] EXCEPT !.state = "running", !.slice = SLICE,
                                     !.flag = @ \/ ~timer]
    <3>1. tcb' = [tcb EXCEPT ![cur] = b]
      BY <1>0, <2>1, <2>3 DEF Start
    <3>2. Quiet(tcb[cur], b)
      BY <2>1 DEF Quiet, Asleep, Tcb
    <3> HIDE DEF b
    <3> QED BY <2>1, <2>2, <3>1, <3>2, OneQuiet DEF Calm
  <2>4. CASE Return \/ End
    <3>1. CASE timer
      <4> DEFINE b == [tcb[cur] EXCEPT !.flag = FALSE]
      <4>1. tcb' = [tcb EXCEPT ![cur] = b]
        BY <1>0, <2>1, <2>4, <3>1 DEF Return, End, Returned
      <4>2. Quiet(tcb[cur], b)
        BY <2>1 DEF Quiet, Asleep, Tcb
      <4> HIDE DEF b
      <4> QED BY <2>1, <2>2, <4>1, <4>2, OneQuiet DEF Calm
    <3>2. CASE ~timer
      <4> DEFINE n == (tcb[cur].slice + BYTE - 1) % BYTE
                 b == [tcb[cur] EXCEPT !.slice = n]
      <4>1. tcb' = [tcb EXCEPT ![cur].slice = n]
        BY <2>4, <3>2 DEF Return, End, Returned
      <4> HIDE DEF n
      <4>2. tcb' = [tcb EXCEPT ![cur] = b]
        BY <1>0, <2>1, <4>1
      <4>3. Quiet(tcb[cur], b)
        BY <2>1 DEF Quiet, Asleep, Tcb
      <4> HIDE DEF b
      <4> QED BY <2>1, <2>2, <4>2, <4>3, OneQuiet DEF Calm
    <3> QED BY <3>1, <3>2
  <2>5. CASE Switch
    <3>1. CASE tcb[cur].state = "running"
      <4> DEFINE b == [tcb[cur] EXCEPT !.state = "ready"]
      <4>1. tcb' = [tcb EXCEPT ![cur] = b]
        BY <1>0, <2>1, <2>5, <3>1 DEF Switch
      <4>2. Quiet(tcb[cur], b)
        BY <2>1 DEF Quiet, Asleep, Tcb
      <4> HIDE DEF b
      <4> QED BY <2>1, <2>2, <4>1, <4>2, OneQuiet DEF Calm
    <3>2. CASE tcb[cur].state # "running"
      BY <2>2, <2>5, <3>2 DEF Switch, Calm, Quiet
    <3> QED BY <3>1, <3>2
  <2>6. CASE Rescue
    <3> DEFINE b == [tcb[cur] EXCEPT !.flag = FALSE, !.raised = FALSE]
    <3>1. tcb' = [tcb EXCEPT ![cur] = b]
      BY <1>0, <2>1, <2>6 DEF Rescue
    <3>2. Quiet(tcb[cur], b)
      BY <2>1 DEF Quiet, Asleep, Tcb
    <3> HIDE DEF b
    <3> QED BY <2>1, <2>2, <3>1, <3>2, OneQuiet DEF Calm
  <2> QED BY <1>2, <2>3, <2>4, <2>5, <2>6
<1>3. CASE Done
  <2>1. cur \in Task /\ tcb' = [tcb EXCEPT ![cur] = Freed(tcb[cur], "dormant")]
        /\ rescan' = rescan /\ waking' = waking
    BY <1>0, <1>3 DEF Done, IInv, Places
  <2> QED BY <2>1, FreedQuiet, OneQuiet DEF Calm
<1>4. CASE Release
  <2>1. rescan' = rescan /\ waking' = waking /\ scan \in Task
    BY <1>4 DEF Release, IInv, TypeOK
  <2>2. CASE JoinsCur(scan)
    <3>1. tcb' = [tcb EXCEPT ![scan] = Woken(tcb[scan])]
      BY <1>0, <1>4, <2>1, <2>2 DEF Release
    <3> QED BY <2>1, <3>1, FreedQuiet, OneQuiet DEF Calm
  <2>3. CASE ~JoinsCur(scan)
    BY <1>4, <2>1, <2>3 DEF Release, Calm, Quiet
  <2> QED BY <2>2, <2>3
<1>5. CASE ReleaseSuspended
  <2>1. \A t \in Task : tcb'[t] = tcb[t] \/ tcb'[t] = Freed(tcb[t], "suspended")
    BY <1>5 DEF ReleaseSuspended
  <2>2. rescan' = rescan /\ waking' = waking
    BY <1>5 DEF ReleaseSuspended
  <2>3. \A t \in Task : Quiet(tcb[t], tcb[t])
    BY DEF Quiet
  <2> QED BY <2>1, <2>2, <2>3, FreedQuiet DEF Calm
<1> QED BY <1>1, <1>2, <1>3, <1>4, <1>5

\* and the calls that put no task to sleep.
LEMMA CallsCalm ==
  ASSUME IInv, waking = {},
         \/ Compute \/ Pass \/ Reorder
         \/ \E u \in Task :
              \/ \E p \in Priorities : SetPriority(u, p)
              \/ Suspend(u) \/ Terminate(u) \/ Join(u) \/ Create(u) \/ Run(u) \/ Rewind(u)
         \/ \E m \in Mutex : Lock(m) \/ TryLock(m) \/ Unlock(m) \/ Abort(m)
  PROVE  Calm
<1>0. tcb \in [Task -> Tcb] /\ (\A t \in Task : tcb[t] \in Tcb /\ Quiet(tcb[t], tcb[t]))
  BY DEF IInv, TypeOK, Quiet
<1>1. pc = "vm" => cur \in Task
  BY DEF IInv, Places
<1>2. rescan' = rescan /\ waking' = waking
  BY DEF Compute, Pass, Reorder, SetPriority, Suspend, Terminate, Join, Create, Run,
         Rewind, Lock, TryLock, Unlock, Abort, Instruction
<1>3. CASE Compute
  BY <1>0, <1>2, <1>3 DEF Compute, Calm
<1>4. CASE Pass
  <2> DEFINE b == [tcb[cur] EXCEPT !.slice = 0, !.flag = TRUE]
  <2>1. cur \in Task /\ tcb' = [tcb EXCEPT ![cur] = b]
    BY <1>0, <1>1, <1>4 DEF Pass, Running
  <2>2. Quiet(tcb[cur], b)
    BY <1>0, <2>1 DEF Quiet, Asleep, Tcb
  <2> HIDE DEF b
  <2> QED BY <1>2, <2>1, <2>2, OneQuiet DEF Calm
<1>5. CASE Reorder
  BY <1>0, <1>2, <1>5, FlagsQuiet DEF Reorder, Calm
<1>6. ASSUME NEW u \in Task, NEW p \in Priorities, SetPriority(u, p) PROVE Calm
  <2> DEFINE b == [tcb[u] EXCEPT !.prio = p]
  <2>1. tcb' = [tcb EXCEPT ![u] = b]
    BY <1>0, <1>6 DEF SetPriority
  <2>2. Quiet(tcb[u], b)
    BY <1>0 DEF Quiet, Asleep, Tcb
  <2> HIDE DEF b
  <2> QED BY <1>2, <2>1, <2>2, OneQuiet DEF Calm
<1>7. ASSUME NEW u \in Task, Suspend(u) PROVE Calm
  <2> DEFINE b == [tcb[u] EXCEPT !.state = "suspended", !.flag = TRUE]
  <2>1. tcb' = [tcb EXCEPT ![u] = b]
    BY <1>0, <1>7 DEF Suspend
  <2>2. Quiet(tcb[u], b)
    BY <1>0 DEF Quiet, Asleep, Tcb
  <2> HIDE DEF b
  <2> QED BY <1>2, <2>1, <2>2, OneQuiet DEF Calm
<1>8. ASSUME NEW u \in Task, Terminate(u) PROVE Calm
  <2> DEFINE b == [Freed(tcb[u], "dormant") EXCEPT !.flag = TRUE]
  <2>1. tcb' = [tcb EXCEPT ![u] = b]
    BY <1>0, <1>8 DEF Terminate
  <2>2. Quiet(tcb[u], b)
    BY DEF Quiet, Asleep, Freed
  <2> HIDE DEF b
  <2> QED BY <1>2, <2>1, <2>2, OneQuiet DEF Calm
<1>9. ASSUME NEW u \in Task, Join(u) PROVE Calm
  <2> DEFINE w == Waiting(tcb[cur], "join")
             b == [w EXCEPT !.joins = u]
  <2>1. cur \in Task /\ tcb' = [tcb EXCEPT ![cur] = b]
    BY <1>0, <1>1, <1>9 DEF Join, Blocks, Running
  <2>2. w \in Tcb /\ w.reason = "join"
    BY <1>0, <2>1, WaitingBlock
  <2> HIDE DEF w
  <2>3. Quiet(tcb[cur], b)
    BY <2>2 DEF Quiet, Asleep, Tcb
  <2> HIDE DEF b
  <2> QED BY <1>2, <2>1, <2>3, OneQuiet DEF Calm
<1>10. ASSUME NEW u \in Task, Create(u) PROVE Calm
  <2> DEFINE b == [tcb[u] EXCEPT !.state = "dormant"]
  <2>1. tcb' = [tcb EXCEPT ![u] = b]
    BY <1>0, <1>10 DEF Create
  <2>2. Quiet(tcb[u], b)
    BY <1>0 DEF Quiet, Asleep, Tcb
  <2> HIDE DEF b
  <2> QED BY <1>2, <2>1, <2>2, OneQuiet DEF Calm
<1>11. ASSUME NEW u \in Task, Run(u) PROVE Calm
  <2>1. tcb' = [Preempted(tcb) EXCEPT ![u] = Woken(@)]
    BY <1>11 DEF Run
  <2>2. Preempted(tcb) \in [Task -> Tcb] /\ \A t \in Task : Quiet(tcb[t], Preempted(tcb)[t])
    BY <1>0, PreemptedBlocks DEF Quiet, Asleep
  <2>3. Quiet(tcb[u], tcb'[u])
    BY <2>1, <2>2, FreedQuiet
  <2>4. \A t \in Task \ {u} : tcb'[t] = Preempted(tcb)[t]
    BY <2>1, <2>2
  <2> QED BY <1>2, <2>2, <2>3, <2>4 DEF Calm
<1>12. ASSUME NEW u \in Task, Rewind(u) PROVE Calm
  <2> DEFINE b == [tcb[u] EXCEPT !.flag = FALSE, !.raised = FALSE]
  <2>1. tcb' = [tcb EXCEPT ![u] = b]
    BY <1>0, <1>12 DEF Rewind
  <2>2. Quiet(tcb[u], b)
    BY <1>0 DEF Quiet, Asleep, Tcb
  <2> HIDE DEF b
  <2> QED BY <1>2, <2>1, <2>2, OneQuiet DEF Calm
<1>13. ASSUME NEW m \in Mutex, TryLock(m) \/ Abort(m) PROVE Calm
  BY <1>0, <1>2, <1>13 DEF TryLock, Abort, Calm
<1>14. ASSUME NEW m \in Mutex, Lock(m) PROVE Calm
  <2>1. CASE owner[m] = NONE
    BY <1>0, <1>2, <1>14, <2>1 DEF Lock, Calm
  <2>2. CASE owner[m] # NONE
    <3> DEFINE w == Waiting(tcb[cur], "mutex")
               b == [w EXCEPT !.on = m]
    <3>1. cur \in Task /\ tcb' = [tcb EXCEPT ![cur] = b]
      BY <1>0, <1>1, <1>14, <2>2 DEF Lock, Blocks, Running
    <3>2. w \in Tcb /\ w.reason = "mutex"
      BY <1>0, <3>1, WaitingBlock
    <3> HIDE DEF w
    <3>3. Quiet(tcb[cur], b)
      BY <3>2 DEF Quiet, Asleep, Tcb
    <3> HIDE DEF b
    <3> QED BY <1>2, <3>1, <3>3, OneQuiet DEF Calm
  <2> QED BY <2>1, <2>2
<1>15. ASSUME NEW m \in Mutex, Unlock(m) PROVE Calm
  <2> DEFINE w == Waiter(m, "waiting")
             s == Waiter(m, "suspended")
  <2>1. (w # NONE => w \in Task) /\ (s # NONE => s \in Task)
    BY WaiterFacts DEF Queues, States
  <2>2. /\ w # NONE => tcb' = Preempted([tcb EXCEPT ![w] = Woken(@)])
        /\ w = NONE /\ s = NONE => tcb' = tcb
        /\ w = NONE /\ s # NONE => tcb' = [tcb EXCEPT ![s] = Freed(@, "suspended")]
    BY <1>15 DEF Unlock, SuspendedWaiter
  <2> HIDE DEF w, s
  <2>3. CASE w # NONE
    <3> DEFINE B == [tcb EXCEPT ![w] = Woken(@)]
    <3>1. Woken(tcb[w]) \in Tcb
      BY <1>0, <2>1, <2>3, FreedBlock DEF Woken, States
    <3>2. B \in [Task -> Tcb] /\ B[w] = Woken(tcb[w]) /\ \A t \in Task \ {w} : B[t] = tcb[t]
      BY <1>0, <2>1, <2>3, <3>1
    <3>3. tcb' = Preempted(B)
      BY <2>2, <2>3
    <3> HIDE DEF B
    <3>4. \A t \in Task : Quiet(tcb[t], B[t])
      BY <1>0, <3>2, FreedQuiet
    <3> QED BY <1>2, <3>2, <3>3, <3>4, FlagsQuiet DEF Calm
  <2>4. CASE w = NONE /\ s # NONE
    <3>1. s \in Task /\ tcb' = [tcb EXCEPT ![s] = Freed(tcb[s], "suspended")]
      BY <1>0, <2>1, <2>2, <2>4
    <3> QED BY <1>2, <3>1, FreedQuiet, OneQuiet DEF Calm
  <2>5. CASE w = NONE /\ s = NONE
    BY <1>0, <1>2, <2>2, <2>5 DEF Calm
  <2> QED BY <2>3, <2>4, <2>5
<1> QED BY <1>3, <1>4, <1>5, <1>6, <1>7, <1>8, <1>9, <1>10, <1>11, <1>12, <1>13, <1>14, <1>15

\* The tick looks at the queue in time: it comes one nearer with the tasks
\* that sleep, and a look at the queue sees all of them.
LEMMA TickInTime ==
  ASSUME IInv, waking = {}, WakeupInTime, TickEffect
  PROVE  WakeupInTime'
<1> DEFINE older(b) == IF b.reason = "sleep" THEN [b EXCEPT !.due = Aged(@)] ELSE b
           now == [t \in Task |-> older(Sliced(t))]
           sleepers == {t \in Range(queue["waiting"]) : Sleeping(t)}
           due == {t \in sleepers : DueAt(now[t].due)}
           left == {now[t].due : t \in sleepers \ due}
<1>1. TypeOK /\ QueuesMatch /\ rescan \in Int
  BY SchedulerAssumption DEF IInv, TypeOK
<1>2. tcb' = now
  BY DEF TickEffect
<1>3. ASSUME NEW t \in Task, Asleep(now[t])
      PROVE  Asleep(tcb[t]) /\ t \in sleepers /\ now[t].due = Aged(tcb[t].due)
             /\ tcb[t].due \in -1 .. MaxDelay
  <2> DEFINE b == Sliced(t)
  <2>1. b \in Tcb /\ b.state = tcb[t].state /\ b.reason = tcb[t].reason
        /\ b.due = tcb[t].due
    BY <1>1, SlicedBlock
  <2>2. now[t] = older(b)
    OBVIOUS
  <2> HIDE DEF b
  <2>3. older(b).state = b.state /\ older(b).reason = b.reason
        /\ (b.reason = "sleep" => older(b).due = Aged(b.due))
    BY <2>1 DEF Tcb
  <2>4. Asleep(tcb[t]) /\ now[t].due = Aged(tcb[t].due) /\ tcb[t].due \in -1 .. MaxDelay
    BY <1>3, <2>1, <2>2, <2>3 DEF Asleep, Tcb
  <2>5. t \in Range(queue["waiting"])
    BY <1>1, <2>4 DEF QueuesMatch, QueueOf, Queues, States, Asleep
  <2> QED BY <2>4, <2>5 DEF Sleeping, Asleep
<1>4. sleepers \subseteq {t \in Task : Asleep(now[t])}
  <2> SUFFICES ASSUME NEW t \in sleepers PROVE t \in Task /\ Asleep(now[t])
    OBVIOUS
  <2>1. t \in Task /\ tcb[t].state = "waiting" /\ tcb[t].reason = "sleep"
    BY <1>1 DEF QueuesMatch, QueueOf, Queues, States, Sleeping
  <2> DEFINE b == Sliced(t)
  <2>2. b \in Tcb /\ b.state = tcb[t].state /\ b.reason = tcb[t].reason
    BY <1>1, <2>1, SlicedBlock
  <2>3. now[t] = older(b)
    BY <2>1
  <2> HIDE DEF b
  <2>4. older(b).state = b.state /\ older(b).reason = b.reason
    BY <2>2 DEF Tcb
  <2> QED BY <2>1, <2>2, <2>3, <2>4 DEF Asleep
<1> HIDE DEF now
<1>5. ASSUME NEW t \in Task, Asleep(tcb'[t]), t \notin waking'
      PROVE  rescan' <= tcb'[t].due
  <2>1. Asleep(tcb[t]) /\ t \in sleepers /\ now[t].due = Aged(tcb[t].due)
        /\ tcb[t].due \in Int /\ -1 <= tcb[t].due
    BY <1>2, <1>3, <1>5, SchedulerAssumption
  <2>2. CASE rescan - 1 < 0
    <3>1. waking' = due /\ rescan' = NextScan(left)
      BY <2>2 DEF TickEffect, now
    <3>2. now[t].due \in left
      BY <1>5, <2>1, <3>1
    <3>3. \A n \in left : n \in Int /\ -1 <= n
      <4> SUFFICES ASSUME NEW v \in sleepers PROVE now[v].due \in Int /\ -1 <= now[v].due
        OBVIOUS
      <4>1. now[v].due = Aged(tcb[v].due) /\ tcb[v].due \in -1 .. MaxDelay
        BY <1>3, <1>4
      <4> QED BY <4>1, SchedulerAssumption DEF Aged
    <3> HIDE DEF left
    <3>4. {HORIZON} \cup left \subseteq Int /\ \A n \in {HORIZON} \cup left : -1 <= n
      BY <3>3, SchedulerAssumption
    <3>5. NextScan(left) <= now[t].due
      BY <3>2, <3>4, MinOf DEF NextScan
    <3> QED BY <1>2, <3>1, <3>5
  <2>3. CASE ~(rescan - 1 < 0)
    <3>1. rescan' = rescan - 1
      BY <2>3 DEF TickEffect
    <3>2. rescan <= tcb[t].due
      BY <2>1 DEF WakeupInTime, Asleep, Sleeping
    <3>3. now[t].due = tcb[t].due - 1
      BY <1>1, <2>1, <2>3, <3>2 DEF Aged
    <3> QED BY <1>1, <1>2, <2>1, <3>1, <3>2, <3>3
  <2> QED BY <2>2, <2>3
<1> QED BY <1>5 DEF WakeupInTime, Asleep, Sleeping

\* The tick wakes a task.
LEMMA WakeInTime ==
  ASSUME IInv, WakeupInTime, Wake
  PROVE  WakeupInTime'
<1> DEFINE t == queue["waiting"][SelectInSeq(queue["waiting"], LAMBDA u : u \in waking)]
           B == [tcb EXCEPT ![t] = Woken(@)]
<1>1. queue["waiting"] \in Seq(Task) /\ "waiting" \in Queues /\ tcb \in [Task -> Tcb]
  BY DEF IInv, TypeOK, Queues, States
<1>2. t = queue["waiting"][IndexIn(queue["waiting"], waking)]
  BY DEF SelectInSeq, IndexIn
<1>3. Range(queue["waiting"]) \cap waking # {}
  <2>1. PICK w \in waking : w \in Task /\ tcb[w].state = "waiting"
    BY DEF IInv, TypeOK, Wakes, Wake
  <2>2. w \in Range(queue["waiting"])
    BY <2>1, <1>1 DEF IInv, QueuesMatch, QueueOf
  <2> QED BY <2>2
<1>4. t \in waking
  BY <1>1, <1>2, <1>3, IndexFacts
<1> HIDE DEF t
<1>5. t \in Task
  BY <1>4 DEF IInv, TypeOK
<1>6. Woken(tcb[t]) \in Tcb /\ Woken(tcb[t]).state = "ready"
  BY <1>1, <1>5, FreedBlock DEF Woken, States
<1>7. B \in [Task -> Tcb] /\ B[t] = Woken(tcb[t]) /\ \A u \in Task \ {t} : B[u] = tcb[u]
  BY <1>1, <1>5, <1>6
<1>8. tcb' = Preempted(B) /\ waking' = waking \ {t} /\ rescan' = rescan
  BY DEF Wake, t
<1> HIDE DEF B
<1>9. /\ tcb'[t].state = "ready"
      /\ \A u \in Task \ {t} : /\ tcb'[u].state = tcb[u].state
                               /\ tcb'[u].reason = tcb[u].reason
                               /\ tcb'[u].due = tcb[u].due
  BY <1>5, <1>6, <1>7, <1>8, PreemptedBlocks
<1> QED BY <1>8, <1>9 DEF WakeupInTime, Sleeping

\* The calls that move the next look at the queue.
LEMMA SleepInTime ==
  ASSUME IInv, waking = {}, WakeupInTime, NEW n \in 0 .. MaxDelay, SleepMs(n)
  PROVE  WakeupInTime'
<1> DEFINE w == Waiting(tcb[cur], "sleep")
           b == [w EXCEPT !.due = n]
<1>1. cur \in Task /\ tcb[cur] \in Tcb /\ tcb \in [Task -> Tcb] /\ rescan \in -1 .. HORIZON
  BY Here DEF SleepMs, Blocks
<1>2. w \in Tcb
  BY <1>1, WaitingBlock
<1>3. tcb' = [tcb EXCEPT ![cur] = b] /\ rescan' = SleepScan(n) /\ waking' = waking
  BY <1>1 DEF SleepMs, Instruction
<1> HIDE DEF w
<1>4. b.due = n
  BY <1>2 DEF Tcb
<1> HIDE DEF b
<1>5. rescan' <= n /\ rescan' <= rescan /\ rescan' \in Int
  BY <1>1, <1>3, SchedulerAssumption DEF SleepScan
<1>6. \A t \in Task : tcb[t].due \in Int
  BY <1>1, SchedulerAssumption DEF Tcb
<1> QED BY <1>1, <1>3, <1>4, <1>5, <1>6, SchedulerAssumption DEF WakeupInTime, Sleeping

LEMMA ResumeInTime ==
  ASSUME IInv, waking = {}, WakeupInTime, NEW u \in Task, Resume(u)
  PROVE  WakeupInTime'
<1> DEFINE to == IF tcb[u].reason = "none" THEN "ready" ELSE "waiting"
           B == IF to = "ready" THEN Preempted(tcb) ELSE tcb
           b == [B[u] EXCEPT !.state = to]
<1>1. tcb \in [Task -> Tcb] /\ rescan \in Int /\ \A t \in Task : tcb[t].due \in Int
  BY SchedulerAssumption DEF IInv, TypeOK, Tcb
<1>2. /\ B \in [Task -> Tcb]
      /\ \A t \in Task : /\ B[t].state = tcb[t].state /\ B[t].reason = tcb[t].reason
                         /\ B[t].due = tcb[t].due
  BY <1>1, PreemptedBlocks
<1>3. tcb' = [B EXCEPT ![u] = b] /\ rescan' = ResumeScan(u) /\ waking' = waking
  BY <1>2 DEF Resume, Instruction
<1> HIDE DEF B, to
<1>4. b.reason = tcb[u].reason /\ b.due = tcb[u].due
  BY <1>2 DEF Tcb
<1> HIDE DEF b
<1>5. rescan' <= rescan /\ (tcb[u].reason = "sleep" => rescan' <= tcb[u].due)
      /\ rescan' \in Int
  BY <1>1, <1>3 DEF ResumeScan, Sleeping
<1> QED BY <1>1, <1>2, <1>3, <1>4, <1>5 DEF WakeupInTime, Sleeping

LEMMA RaiseInTime ==
  ASSUME IInv, IInv', waking = {}, WakeupInTime, NEW u \in Task, Raise(u)
  PROVE  WakeupInTime'
<1> DEFINE r == [tcb[u] EXCEPT !.raised = TRUE, !.flag = TRUE]
           B == [tcb EXCEPT ![u] = r]
           wakes == tcb[u].state = "waiting" /\ Sleeping(u)
           dues == {tcb[t].due : t \in {s \in Range(queue'["waiting"]) : Sleeping(s)}}
<1>1. tcb \in [Task -> Tcb] /\ rescan \in Int /\ tcb[u] \in Tcb /\ -1 <= rescan
      /\ \A t \in Task : tcb[t].due \in Int /\ -1 <= tcb[t].due
  BY SchedulerAssumption DEF IInv, TypeOK, Tcb
<1>2. r \in Tcb /\ r.state = tcb[u].state /\ r.reason = tcb[u].reason /\ r.due = tcb[u].due
  <2>1. tcb[u] \in Tcb
    BY <1>1
  <2>2. r \in Tcb
    BY <2>1 DEF Tcb
  <2>3. r.state = tcb[u].state /\ r.reason = tcb[u].reason
    BY <2>1 DEF Tcb
  <2>4. r.due = tcb[u].due
    BY <2>1 DEF Tcb
  <2> QED BY <2>2, <2>3, <2>4
<1>3. /\ tcb' = IF wakes THEN [B EXCEPT ![u] = Woken(@)] ELSE B
      /\ wakes => rescan' = Min({rescan} \cup dues)
      /\ ~wakes => rescan' = rescan
      /\ waking' = waking
  <2>1. tcb' = IF wakes THEN [B EXCEPT ![u] = Woken(@)] ELSE B
    <3>1. tcb \in [Task -> Tcb]
      BY <1>1
    <3>2. B = [tcb EXCEPT ![u].raised = TRUE, ![u].flag = TRUE]
      BY <3>1
    <3> HIDE DEF B
    <3> QED BY <3>2 DEF Raise
  <2>2. wakes => rescan' = Min({rescan} \cup dues)
    BY DEF Raise
  <2>3. (~wakes => rescan' = rescan) /\ waking' = waking
    BY DEF Raise, Instruction
  <2> QED BY <2>1, <2>2, <2>3
<1> HIDE DEF r
<1>4. B \in [Task -> Tcb] /\ B[u] = r /\ \A t \in Task \ {u} : B[t] = tcb[t]
  BY <1>1, <1>2
<1> HIDE DEF B
<1>5. \A t \in Task : Quiet(tcb[t], tcb'[t])
  <2>1. \A t \in Task : Quiet(tcb[t], B[t])
    BY <1>2, <1>4 DEF Quiet, Asleep
  <2>2. CASE wakes
    <3>1. tcb' = [B EXCEPT ![u] = Woken(@)]
      BY <1>3, <2>2
    <3>2. Quiet(tcb[u], tcb'[u])
      BY <1>4, <3>1, FreedQuiet
    <3>3. \A t \in Task \ {u} : tcb'[t] = B[t]
      BY <1>4, <3>1
    <3> QED BY <2>1, <3>2, <3>3
  <2>3. CASE ~wakes
    BY <1>3, <2>1, <2>3
  <2> QED BY <2>2, <2>3
<1>6. ASSUME wakes PROVE rescan' <= rescan /\ rescan' \in Int
  <2>1. Range(queue'["waiting"]) \subseteq Task
    BY DEF IInv, QueuesMatch, Queues, States
  <2>2. {rescan} \cup dues \subseteq Int /\ \A k \in {rescan} \cup dues : -1 <= k
    BY <1>1, <2>1
  <2>3. rescan' = Min({rescan} \cup dues)
    BY <1>3, <1>6
  <2> HIDE DEF dues
  <2> QED BY <2>2, <2>3, MinOf
<1>7. rescan' <= rescan /\ rescan' \in Int
  BY <1>1, <1>3, <1>6
<1>8. ASSUME NEW t \in Task, Asleep(tcb'[t]) PROVE rescan' <= tcb'[t].due
  <2>1. Asleep(tcb[t]) /\ tcb'[t].due = tcb[t].due
    BY <1>5, <1>8 DEF Quiet
  <2>2. rescan <= tcb[t].due
    BY <2>1 DEF WakeupInTime, Asleep, Sleeping
  <2> QED BY <1>1, <1>7, <2>1, <2>2
<1> QED BY <1>8 DEF WakeupInTime, Asleep, Sleeping

\* Every step keeps the next look at the queue in time.
LEMMA NextInTime ==
  ASSUME IInv, IInv', WakeupInTime, [Next]_vars
  PROVE  WakeupInTime'
<1>1. CASE Wake
  BY <1>1, WakeInTime
<1>2. CASE waking = {} /\ (Interrupt \/ Idle \/ Tick)
  <2>1. CASE TickEffect
    BY <1>2, <2>1, TickInTime
  <2>2. CASE ~TickEffect
    <3>1. Idle /\ UNCHANGED <<queue, tcb, rescan, waking>>
      BY <1>2, <2>2 DEF Interrupt, Tick, Idle
    <3> QED BY <3>1 DEF WakeupInTime, Sleeping
  <2> QED BY <2>1, <2>2
<1>3. CASE /\ waking = {}
           /\ \/ Choose \/ Exit \/ Start \/ Return \/ End \/ Switch \/ Done \/ Release
              \/ ReleaseSuspended \/ Rescue
  BY <1>3, SchedulesCalm, CalmKeeps
<1>4. CASE UNCHANGED vars
  BY <1>4 DEF vars, WakeupInTime, Sleeping
<1>5. CASE waking = {} /\ Compute
  BY <1>5, CallsCalm, CalmKeeps
<1>6. CASE waking = {} /\ Calls
  <2>1. ASSUME NEW n \in 0 .. MaxDelay, SleepMs(n) PROVE WakeupInTime'
    BY <1>6, <2>1, SleepInTime
  <2>2. ASSUME NEW u \in Task, Resume(u) \/ Raise(u) PROVE WakeupInTime'
    BY <1>6, <2>2, ResumeInTime, RaiseInTime
  <2>3. ASSUME Pass \/ Reorder PROVE WakeupInTime'
    BY <1>6, <2>3, CallsCalm, CalmKeeps
  <2>4. ASSUME NEW u \in Task,
               \/ \E p \in Priorities : SetPriority(u, p)
               \/ Suspend(u) \/ Terminate(u) \/ Join(u) \/ Create(u) \/ Run(u) \/ Rewind(u)
        PROVE  WakeupInTime'
    BY <1>6, <2>4, CallsCalm, CalmKeeps
  <2>5. ASSUME NEW m \in Mutex, Lock(m) \/ TryLock(m) \/ Unlock(m) \/ Abort(m)
        PROVE  WakeupInTime'
    BY <1>6, <2>5, CallsCalm, CalmKeeps
  <2> QED BY <1>6, <2>1, <2>2, <2>3, <2>4, <2>5 DEF Calls
<1> QED BY <1>1, <1>2, <1>3, <1>4, <1>5, <1>6 DEF Next, Schedules

\* The end of the search for suspended tasks that joined is the only step from
\* there to the choice of the next task.
LEMMA SuspendedLetGo ==
  ASSUME IInv, [Next]_vars, pc = "join", pc' = "loop"
  PROVE  \A t \in Task :
           tcb'[t].state = "suspended" /\ tcb'[t].reason = "join" => tcb'[t].joins # cur
<1>1. ReleaseSuspended
  <2>1. ~(Calls \/ Compute \/ Rescue \/ End)
    BY DEF Calls, SleepMs, Pass, SetPriority, Suspend, Resume, Terminate, Raise, Join,
           Create, Run, Rewind, Lock, TryLock, Unlock, Abort, Reorder, Blocks, Running,
           Compute, Rescue, End
  <2>2. ~(Wake \/ Interrupt \/ UNCHANGED vars)
    BY DEF Wake, Interrupt, vars
  <2>3. ~(Choose \/ Exit \/ Idle \/ Start \/ Return \/ Tick \/ Switch \/ Done \/ Release)
    BY DEF Choose, Exit, Idle, Start, Return, Tick, Switch, Done, Release
  <2> QED BY <2>1, <2>2, <2>3 DEF Next, Schedules
<1>2. ASSUME NEW t \in Task, tcb'[t].state = "suspended", tcb'[t].reason = "join",
             tcb'[t].joins = cur
      PROVE  FALSE
  <2>1. CASE t \in Range(queue["suspended"]) /\ JoinsCur(t)
    <3>1. tcb'[t] = Freed(tcb[t], "suspended")
      BY <1>1, <2>1 DEF ReleaseSuspended
    <3> QED BY <1>2, <3>1 DEF Freed
  <2>2. CASE ~(t \in Range(queue["suspended"]) /\ JoinsCur(t))
    <3>1. tcb'[t] = tcb[t]
      BY <1>1, <2>2 DEF ReleaseSuspended
    <3>2. t \in Range(queue["suspended"])
      BY <1>2, <3>1 DEF IInv, QueuesMatch, QueueOf, Queues, States
    <3> QED BY <1>2, <2>2, <3>1, <3>2 DEF JoinsCur
  <2> QED BY <2>1, <2>2
<1> QED BY <1>2

-----------------------------------------------------------------------------
\* The theorems.

\* The invariant holds when mrbc_run begins with one task.
LEMMA InitRight ==
  ASSUME Init
  PROVE  IInv
<1> DEFINE b(t) == [state |-> IF t = Main THEN "ready" ELSE "none", reason |-> "none",
        due |-> 0, on |-> NONE, joins |-> NONE,
        prio |-> Min(Priorities), slice |-> 0, flag |-> FALSE, raised |-> FALSE]
<1>1. Min(Priorities) \in Priorities
  <2>1. Priorities \subseteq Int /\ (\A k \in Priorities : -1 <= k) /\ Priorities # {}
    BY SchedulerAssumption
  <2> QED BY <2>1, MinOf
<1>2. ASSUME NEW t \in Task
      PROVE  /\ b(t) \in Tcb /\ b(t).reason = "none"
             /\ b(t).state = IF t = Main THEN "ready" ELSE "none"
  <2>1. 0 \in -1 .. MaxDelay /\ 0 \in 0 .. BYTE - 1
    BY SchedulerAssumption
  <2> QED BY <1>1, <2>1 DEF Tcb, States
<1>3. tcb = [t \in Task |-> b(t)]
  BY DEF Init
<1> HIDE DEF b
<1>4. tcb \in [Task -> Tcb]
      /\ \A t \in Task : /\ tcb[t].reason = "none"
                         /\ tcb[t].state = IF t = Main THEN "ready" ELSE "none"
  BY <1>2, <1>3
<1>5. Main \in Task
  BY SchedulerAssumption
<1>6. /\ queue = [n \in Queues |-> IF n = "ready" THEN <<Main>> ELSE <<>>]
      /\ <<Main>> \in Seq(Task) /\ <<>> \in Seq(Task)
  BY <1>5 DEF Init
<1>7. queue \in [Queues -> Seq(Task)]
  BY <1>6
<1>8. QueuesMatch
  <2> SUFFICES ASSUME NEW n \in Queues
               PROVE  /\ IsInjective(queue[n])
                      /\ Range(queue[n]) = {t \in Task : QueueOf(tcb[t].state) = n}
    BY DEF QueuesMatch
  <2>1. CASE n = "ready"
    <3>1. queue[n] = <<Main>> /\ DOMAIN <<Main>> = {1} /\ <<Main>>[1] = Main
      BY <1>6, <2>1
    <3>2. IsInjective(queue[n]) /\ Range(queue[n]) = {Main}
      BY <3>1 DEF IsInjective, Range
    <3>3. {t \in Task : QueueOf(tcb[t].state) = n} = {Main}
      BY <1>4, <1>5, <2>1 DEF QueueOf
    <3> QED BY <3>2, <3>3
  <2>2. CASE n # "ready"
    <3>1. queue[n] = <<>> /\ DOMAIN queue[n] = {}
      BY <1>6, <2>2
    <3>2. IsInjective(queue[n]) /\ Range(queue[n]) = {}
      BY <3>1 DEF IsInjective, Range
    <3>3. {t \in Task : QueueOf(tcb[t].state) = n} = {}
      BY <1>4, <2>2 DEF QueueOf, Queues, States
    <3> QED BY <3>2, <3>3
  <2> QED BY <2>1, <2>2
<1>9. TypeOK
  <2>1. HORIZON \in -1 .. HORIZON
    BY SchedulerAssumption
  <2> QED BY <1>4, <1>7, <2>1 DEF Init, TypeOK, Where
<1>10. Reasons /\ OneRuns /\ Places /\ Wakes /\ WaiterHasOwner
  BY <1>4 DEF Init, Reasons, OneRuns, Places, Wakes, WaiterHasOwner
<1> QED BY <1>8, <1>9, <1>10 DEF IInv

\* Every call keeps it,
LEMMA CallsKeep ==
  ASSUME IInv, waking = {}, Calls
  PROVE  Right
<1>1. ASSUME NEW n \in 0 .. MaxDelay, SleepMs(n) PROVE Right
  BY <1>1, SleepMsKeeps
<1>2. CASE Pass
  BY <1>2, PassKeeps
<1>3. ASSUME NEW u \in Task,
             \/ \E p \in Priorities : SetPriority(u, p)
             \/ Suspend(u) \/ Resume(u) \/ Terminate(u) \/ Raise(u)
             \/ Join(u) \/ Create(u) \/ Run(u) \/ Rewind(u)
      PROVE  Right
  BY <1>3, SetPriorityKeeps, SuspendKeeps, ResumeKeeps, TerminateKeeps, RaiseKeeps,
     JoinKeeps, CreateKeeps, RunKeeps, RewindKeeps
<1>4. ASSUME NEW m \in Mutex, Lock(m) \/ TryLock(m) \/ Unlock(m) \/ Abort(m)
      PROVE  Right
  BY <1>4, LockKeeps, TryLockKeeps, UnlockKeeps, AbortKeeps
<1>5. CASE Reorder
  BY <1>5, ReorderKeeps
<1> QED BY <1>1, <1>2, <1>3, <1>4, <1>5 DEF Calls

\* and so does every step of mrbc_run,
LEMMA SchedulesKeep ==
  ASSUME IInv, waking = {}, Schedules
  PROVE  Right
BY ChooseKeeps, ExitKeeps, IdleKeeps, StartKeeps, ReturnKeeps, TickStepKeeps, SwitchKeeps,
   DoneKeeps, ReleaseKeeps, ReleaseSuspendedKeeps DEF Schedules

\* and a step of somebody else,
LEMMA StutterKeeps ==
  ASSUME IInv, UNCHANGED vars
  PROVE  Right
<1>1. IInv'
  BY DEF vars, IInv, TypeOK, QueuesMatch, Reasons, OneRuns, Places, Wakes, WaiterHasOwner,
         Waits
<1>2. JoinStep /\ SleepStep
  BY DEF vars, JoinStep, SleepStep
<1> QED BY <1>1, <1>2 DEF Right

\* so that every step does.
LEMMA NextRight ==
  ASSUME IInv, [Next]_vars
  PROVE  Right
<1>1. CASE Wake
  BY <1>1, WakeKeeps
<1>2. CASE waking = {} /\ (Interrupt \/ Schedules \/ Calls \/ Compute \/ Rescue \/ End)
  BY <1>2, InterruptKeeps, SchedulesKeep, CallsKeep, ComputeKeeps, RescueKeeps, EndKeeps
<1>3. CASE UNCHANGED vars
  BY <1>3, StutterKeeps
<1> QED BY <1>1, <1>2, <1>3 DEF Next

\* The invariant holds, and every step is one that keeps joins and sleeps.
LEMMA AlwaysRight == Spec => []IInv
<1>1. IInv /\ [Next]_vars => IInv'
  BY NextRight DEF Right
<1> QED BY <1>1, InitRight, PTL DEF Spec

\* The types of the scheduler's variables, with any tasks, priorities and mutexes.
THEOREM SchedulerTypes == Spec => []TypeOK
<1>1. IInv => TypeOK
  BY DEF IInv
<1> QED BY <1>1, AlwaysRight, PTL

\* Every task there is stands once in the queue of its state, and in no other:
\* q_delete_task, which searches the queue that the state names, always finds
\* the task, whatever the interrupt did meanwhile.
THEOREM QueuesAreRight == Spec => []QueuesMatch
<1>1. IInv => QueuesMatch
  BY DEF IInv
<1> QED BY <1>1, AlwaysRight, PTL

\* mrbc_mutex_unlock leaves no mutex free, or owned by a task that waits for it,
\* as long as one waits for it, in the waiting or in the suspended queue.
THEOREM WaitersHaveOwners == Spec => []WaiterHasOwner
<1>1. IInv => WaiterHasOwner
  BY DEF IInv
<1> QED BY <1>1, AlwaysRight, PTL

\* Nothing but the end of the task joined, or of the task itself, ends a join:
\* no other call, no interrupt and no mutex; and that end does, for a suspended
\* task.
THEOREM JoinsAreKept == Spec => JoinIsKept
<1> DEFINE LetGo ==
      pc = "join" /\ pc' = "loop" =>
        \A t \in Task :
          tcb'[t].state = "suspended" /\ tcb'[t].reason = "join" => tcb'[t].joins # cur
<1>1. IInv /\ [Next]_vars => JoinStep /\ LetGo
  BY NextRight, SuspendedLetGo DEF Right
<1> QED BY <1>1, AlwaysRight, PTL DEF Spec, JoinIsKept, JoinStep

\* However calls and ticks follow each other, wakeup_tick_ is never later than
\* the time of a task that sleeps in the waiting queue: no sleeper is
\* overlooked until the queue is looked at anyhow.
THEOREM SleepersAreSeen == Spec => []WakeupInTime
<1>1. Init => WakeupInTime
  <2> SUFFICES ASSUME Init, NEW t \in Task PROVE tcb[t].state # "waiting"
    BY DEF WakeupInTime
  <2> QED BY DEF Init
<1>2. IInv /\ IInv' /\ WakeupInTime /\ [Next]_vars => WakeupInTime'
  BY NextInTime
<1> QED BY <1>1, <1>2, AlwaysRight, PTL DEF Spec

\* A sleeping task is made ready once its time has passed, or by an exception.
THEOREM SleepsAreLongEnough == Spec => SleepIsLongEnough
<1>1. IInv /\ [Next]_vars => SleepStep
  BY NextRight DEF Right
<1> QED BY <1>1, AlwaysRight, PTL DEF Spec, SleepIsLongEnough, SleepStep
=============================================================================
