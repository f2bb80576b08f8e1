-------------------------- MODULE CoproHeapProofs --------------------------
(***************************************************************************)
(* Proofs about CoproHeap, in two parts, for any constants.  The bitmaps   *)
(* stay in order (Tidy).  Until a collection has lost a block, because the *)
(* walk over the frozen blocks missed one or because the HP core swept     *)
(* what only the LP program points to, the collectors keep all the program *)
(* can use (Safe).                                                         *)
(***************************************************************************)
EXTENDS CoproHeap, FiniteSetTheorems, TLAPS

-----------------------------------------------------------------------------
\* Least.

\* What Least gives is in H, ...
LEMMA LeastIn ==
  ASSUME NEW H, NEW P, NEW p
  PROVE  Least(P, H, p) \subseteq H
BY DEF Least

\* ... has P, ...
LEMMA LeastHas ==
  ASSUME NEW H, NEW P \in SUBSET H, NEW p
  PROVE  P \subseteq Least(P, H, p)
BY DEF Least

\* ... is closed, ...
LEMMA LeastClosed ==
  ASSUME NEW H, NEW P, NEW p, NEW b \in Least(P, H, p)
  PROVE  p[b] \cap H \subseteq Least(P, H, p)
BY DEF Least

\* ... and is in every closed set that has P.
LEMMA LeastLeast ==
  ASSUME NEW H, NEW P, NEW p, NEW C \in SUBSET H,
         P \subseteq C, \A b \in C : p[b] \cap H \subseteq C
  PROVE  Least(P, H, p) \subseteq C
<1>1. C \ P \in SUBSET (H \ P)
  OBVIOUS
<1>2. C = P \cup (C \ P)
  OBVIOUS
<1>3. C \in {P \cup T : T \in SUBSET (H \ P)}
  BY <1>1, <1>2
<1> QED BY <1>3 DEF Least

-----------------------------------------------------------------------------
\* The bitmaps.

\* b are bitmaps of whole blocks of lengths l.
Tidy(b, l) ==
  /\ b.used \in SUBSET Addr
  /\ b.start \in SUBSET (Big \cap b.used)
  /\ l \in [Addr -> 1 .. MaxLen]
  /\ \A a \in Small : l[a] = 1
  /\ \A h \in HeadsOf(b) :
       Span(h, l[h]) \subseteq b.used /\ Span(h, l[h]) \cap HeadsOf(b) = {h}
  /\ \A u \in b.used : \E h \in HeadsOf(b) : u \in Span(h, l[h])

\* An allocation finds free memory.
LEMMA PlaceFree ==
  ASSUME NEW n \in 1 .. MaxLen, NEW u, NEW h \in Place(n, u)
  PROVE  /\ h \in Addr
         /\ Span(h, n) \subseteq Addr
         /\ Span(h, n) \cap u = {}
         /\ h \in Span(h, n)
         /\ h \in Small => n = 1
         /\ h \notin Small => h \in Big
BY HeapAssumption DEF Place, First, Small, Big, Addr, Span, HeapAssumption

\* The bitmaps a sweep leaves are tidy, whichever blocks it keeps.
LEMMA SweptTidy ==
  ASSUME Tidy(Now, len), NEW s \in SUBSET Small, NEW H \in SUBSET start
  PROVE  Tidy(Swept(s, H), len)
<1> DEFINE b == Swept(s, H)
<1>1. /\ b.start = H
      /\ b.used = s \cup {u \in used \cap Big :
               \E t \in H : t <= u /\ \A v \in start : v <= u => v <= t}
  BY DEF Swept
<1>2. /\ Now.used = used /\ Now.start = start
      /\ used \in SUBSET Addr /\ start \in SUBSET (Big \cap used)
      /\ len \in [Addr -> 1 .. MaxLen]
      /\ \A a \in Small : len[a] = 1
      /\ \A h \in Heads : Span(h, len[h]) \subseteq used /\ Span(h, len[h]) \cap Heads = {h}
      /\ \A u \in used : \E h \in Heads : u \in Span(h, len[h])
      /\ Heads = used \cap (Small \cup start)
  BY DEF Tidy, Now, Heads, HeadsOf
<1>3. /\ Addr \subseteq Nat /\ Small \cap Big = {} /\ Small \cup Big = Addr
      /\ \A a \in Small, c \in Big : a < c
      /\ \A h \in Addr, n \in Nat : \A u : u \in Span(h, n) <=> u \in Nat /\ h <= u /\ u < h + n
  BY HeapAssumption DEF Addr, Small, Big, Span, HeapAssumption
<1>4. \A h \in H : Span(h, len[h]) \subseteq b.used
  <2> SUFFICES ASSUME NEW h \in H, NEW u \in Span(h, len[h])
               PROVE  u \in b.used
    OBVIOUS
  <2>1. h \in Heads /\ h \in Big /\ u \in used /\ len[h] \in Nat
    BY <1>2
  <2>2. u \in Big /\ h <= u
    <3>1. h <= u
      BY <1>3, <2>1
    <3>2. u \in Addr /\ (u \in Small => u < h)
      BY <1>2, <1>3, <2>1
    <3>3. u \in Nat /\ h \in Nat
      BY <3>2, <1>3, <2>1
    <3> QED BY <3>1, <3>2, <3>3, <1>3
  <2>3. \A v \in start : v <= u => v <= h
    <3> SUFFICES ASSUME NEW v \in start, v <= u, v > h PROVE FALSE
      BY <1>2, <1>3, <2>1
    <3>1. v \in Span(h, len[h])
      BY <1>2, <1>3, <2>1
    <3>2. v \in Heads
      BY <1>2
    <3> QED BY <3>1, <3>2, <1>2, <2>1, <1>3
  <2> QED BY <1>1, <2>1, <2>2, <2>3
<1>5. /\ b.used \in SUBSET Addr /\ b.start \in SUBSET (Big \cap b.used)
  <2>1. \A h \in H : h \in Big /\ h \in Span(h, len[h])
    BY <1>2
  <2>2. b.used \in SUBSET Addr
    BY <1>1, <1>2, <1>3
  <2> QED BY <1>1, <1>4, <2>1, <2>2
<1>6. HeadsOf(b) = s \cup H
  BY <1>1, <1>2, <1>3, <1>5 DEF HeadsOf
<1>7. ASSUME NEW h \in HeadsOf(b)
      PROVE  Span(h, len[h]) \subseteq b.used /\ Span(h, len[h]) \cap HeadsOf(b) = {h}
  <2>1. CASE h \in s
    <3>1. h \in Addr /\ len[h] = 1
      BY <2>1, <1>2, <1>3
    <3>2. Span(h, len[h]) = {h}
      BY <3>1, <1>3
    <3> QED BY <3>2, <2>1, <1>1, <1>7
  <2>2. CASE h \in H
    <3>1. h \in Heads /\ h \in Big /\ len[h] \in Nat
      BY <2>2, <1>2
    <3>2. \A x \in Span(h, len[h]) \cap HeadsOf(b) : x \in Heads
      BY <3>1, <1>2, <1>3, <1>6
    <3> QED BY <3>1, <3>2, <1>2, <1>4, <2>2, <1>7
  <2> QED BY <2>1, <2>2, <1>6
<1>8. ASSUME NEW u \in b.used
      PROVE  \E h \in HeadsOf(b) : u \in Span(h, len[h])
  <2>1. CASE u \in s
    <3>1. u \in HeadsOf(b) /\ u \in Addr /\ len[u] = 1
      BY <2>1, <1>2, <1>3, <1>6
    <3>2. u \in Span(u, len[u])
      BY <3>1, <1>3
    <3> QED BY <3>1, <3>2
  <2>2. CASE u \notin s
    <3>1. PICK t \in H : u \in used \cap Big /\ t <= u /\ \A v \in start : v <= u => v <= t
      BY <1>1, <1>8, <2>2
    <3>2. PICK h \in Heads : u \in Span(h, len[h])
      BY <3>1, <1>2
    <3>3. h \in Addr /\ len[h] \in Nat /\ t \in Heads /\ t \in Addr
      BY <3>1, <3>2, <1>2
    <3>4. h \in start
      <4> SUFFICES ASSUME h \in Small PROVE FALSE
        BY <3>2, <1>2
      <4>1. len[h] = 1 /\ h \in Nat /\ u \in Nat
        BY <3>3, <3>1, <1>2, <1>3
      <4>2. h <= u /\ u < h + len[h]
        BY <3>2, <3>3, <1>3
      <4>3. h < u
        BY <3>1, <1>3
      <4> QED BY <4>1, <4>2, <4>3
    <3>5. h <= t /\ t \in Span(h, len[h])
      BY <3>1, <3>2, <3>3, <3>4, <1>3
    <3>6. t = h
      BY <3>5, <3>3, <1>2
    <3> QED BY <3>6, <3>1, <3>2, <1>6
  <2> QED BY <2>1, <2>2
<1> HIDE DEF b
<1>9. Tidy(b, len)
  BY <1>2, <1>5, <1>7, <1>8 DEF Tidy
<1> QED BY <1>9 DEF b

\* The bitmaps after a block of n units is put where there is room.
Taken(b, h, n) ==
  [used |-> b.used \cup Span(h, n), start |-> b.start \cup ({h} \cap Big)]

LEMMA TakenTidy ==
  ASSUME NEW b, NEW l, Tidy(b, l), NEW n \in 1 .. MaxLen, NEW h \in Place(n, b.used)
  PROVE  /\ Tidy(Taken(b, h, n), [l EXCEPT ![h] = n])
         /\ HeadsOf(Taken(b, h, n)) = HeadsOf(b) \cup {h}
         /\ h \notin HeadsOf(b)
<1> DEFINE c == Taken(b, h, n)
           k == [l EXCEPT ![h] = n]
<1>1. /\ c.used = b.used \cup Span(h, n)
      /\ c.start = b.start \cup ({h} \cap Big)
  BY DEF Taken
<1>2. /\ h \in Addr /\ Span(h, n) \subseteq Addr /\ Span(h, n) \cap b.used = {}
      /\ h \in Span(h, n) /\ (h \in Small => n = 1) /\ (h \notin Small => h \in Big)
  BY PlaceFree
<1>3. /\ b.used \in SUBSET Addr /\ b.start \in SUBSET (Big \cap b.used)
      /\ l \in [Addr -> 1 .. MaxLen] /\ \A a \in Small : l[a] = 1
      /\ \A g \in HeadsOf(b) :
           Span(g, l[g]) \subseteq b.used /\ Span(g, l[g]) \cap HeadsOf(b) = {g}
      /\ \A u \in b.used : \E g \in HeadsOf(b) : u \in Span(g, l[g])
  BY DEF Tidy
<1>4. /\ Addr \subseteq Nat /\ Small \cap Big = {} /\ Small \cup Big = Addr
      /\ \A a \in Small, d \in Big : a < d
      /\ \A a \in Small : \A u \in Span(a, 1) : u = a
      /\ \A a \in Big : \A u \in Span(a, n) : u \notin Small
  BY HeapAssumption DEF Addr, Small, Big, Span, HeapAssumption
<1>5. k \in [Addr -> 1 .. MaxLen] /\ k[h] = n /\ \A a \in Addr \ {h} : k[a] = l[a]
  BY <1>2, <1>3
<1>6. /\ c.used \in SUBSET Addr /\ c.start \in SUBSET (Big \cap c.used)
      /\ \A a \in Small : k[a] = 1
  <2>1. Small \subseteq Addr
    BY <1>4
  <2>2. \A a \in Small : k[a] = 1
    BY <1>2, <1>3, <1>5, <2>1
  <2> QED BY <1>1, <1>2, <1>3, <2>2
<1>7. \A a \in HeadsOf(b) : a \in b.used /\ a \in Addr /\ a # h
  BY <1>2, <1>3 DEF HeadsOf
<1>8. \A a \in HeadsOf(c) : a \in HeadsOf(b) \cup {h}
  <2> SUFFICES ASSUME NEW a \in HeadsOf(c), a # h PROVE a \in HeadsOf(b)
    OBVIOUS
  <2>1. a \in c.used /\ (a \in Small \/ a \in b.start)
    BY <1>1 DEF HeadsOf
  <2>2. CASE a \in b.start
    BY <2>2, <1>3 DEF HeadsOf
  <2>3. CASE a \in Small /\ a \notin b.used
    <3>1. a \in Span(h, n)
      BY <2>1, <2>3, <1>1
    <3> QED BY <3>1, <2>3, <1>2, <1>4
  <2>4. CASE a \in Small /\ a \in b.used
    BY <2>4 DEF HeadsOf
  <2> QED BY <2>1, <2>2, <2>3, <2>4
<1>9. HeadsOf(b) \subseteq HeadsOf(c) /\ h \in HeadsOf(c)
  BY <1>1, <1>2 DEF HeadsOf
<1>10. HeadsOf(c) = HeadsOf(b) \cup {h}
  BY <1>8, <1>9
<1>11. ASSUME NEW g \in HeadsOf(c)
       PROVE  Span(g, k[g]) \subseteq c.used /\ Span(g, k[g]) \cap HeadsOf(c) = {g}
  <2>1. CASE g = h
    BY <2>1, <1>1, <1>2, <1>5, <1>7, <1>10
  <2>2. CASE g # h
    <3>1. g \in HeadsOf(b) /\ k[g] = l[g]
      BY <2>2, <1>5, <1>7, <1>8
    <3>2. h \notin b.used
      BY <1>2
    <3> QED BY <3>1, <3>2, <1>1, <1>3, <1>10
  <2> QED BY <2>1, <2>2
<1>12. ASSUME NEW u \in c.used
       PROVE  \E g \in HeadsOf(c) : u \in Span(g, k[g])
  <2>1. CASE u \in Span(h, n)
    BY <2>1, <1>5, <1>9
  <2>2. CASE u \in b.used
    <3>1. PICK g \in HeadsOf(b) : u \in Span(g, l[g])
      BY <2>2, <1>3
    <3> QED BY <3>1, <1>5, <1>7, <1>9
  <2> QED BY <2>1, <2>2, <1>1
<1> HIDE DEF c, k
<1>13. Tidy(c, k)
  BY <1>5, <1>6, <1>11, <1>12 DEF Tidy
<1> QED BY <1>7, <1>10, <1>13 DEF c, k

\* Setting tidy bitmaps.
LEMMA SetTidy ==
  ASSUME NEW b, NEW l, NEW p, Tidy(b, l), Set(b, l, p),
         b = [used |-> b.used, start |-> b.start]
  PROVE  Tidy(Now, len)' /\ Heads' = HeadsOf(b)
<1>1. used' = b.used /\ start' = b.start /\ Now' = b
  BY DEF Set, Now
<1>2. /\ b.used \in SUBSET Addr /\ b.start \in SUBSET (Big \cap b.used)
      /\ l \in [Addr -> 1 .. MaxLen] /\ \A a \in Small : l[a] = 1
      /\ \A g \in HeadsOf(b) :
           Span(g, l[g]) \subseteq b.used /\ Span(g, l[g]) \cap HeadsOf(b) = {g}
      /\ \A u \in b.used : \E g \in HeadsOf(b) : u \in Span(g, l[g])
  BY DEF Tidy
<1>3. len' = [a \in Addr |-> IF a \in HeadsOf(b) THEN l[a] ELSE 1]
  BY DEF Set
<1>4. 1 \in 1 .. MaxLen /\ Small \subseteq Addr
  BY HeapAssumption DEF HeapAssumption, Small, Addr
<1>5. len' \in [Addr -> 1 .. MaxLen] /\ \A a \in Small : len'[a] = 1
  BY <1>2, <1>3, <1>4
<1>6. \A a \in HeadsOf(b) : len'[a] = l[a]
  BY <1>2, <1>3 DEF HeadsOf
<1>7. Tidy(b, len')
  BY <1>2, <1>5, <1>6 DEF Tidy
<1>8. Heads' = HeadsOf(b)
  BY <1>1 DEF Heads, HeadsOf
<1> QED BY <1>1, <1>7, <1>8

-----------------------------------------------------------------------------
\* The bitmaps stay tidy.

SInv == TypeOK /\ Tidy(Now, len)

Whole(b) == b = [used |-> b.used, start |-> b.start]

\* Every collection leaves tidy bitmaps.
LEMMA BitmapsTidy ==
  ASSUME SInv, NEW n
  PROVE  /\ \A b \in LpBitmaps(n) : Tidy(b, len) /\ Whole(b)
         /\ Tidy(HpBitmaps(n), len) /\ Whole(HpBitmaps(n))
         /\ Tidy(Swept(Inverted \cap Small, start \cap Inverted), len)
         /\ Whole(Swept(Inverted \cap Small, start \cap Inverted))
<1>1. Tidy(Now, len) /\ Whole(Now)
  BY DEF SInv, Whole, Now
<1>2. ASSUME NEW s \in SUBSET Small, NEW H \in SUBSET start
      PROVE  Tidy(Swept(s, H), len) /\ Whole(Swept(s, H))
  BY SweptTidy DEF SInv, Whole, Swept
<1>3. \A stray : Tidy(LpCollected(stray), len) /\ Whole(LpCollected(stray))
  <2> TAKE stray
  <2> DEFINE m == Marked(roots \cup stray \cup FrozenWalk)
  <2>1. m \cap Small \in SUBSET Small /\ start \cap (m \cup frozen) \in SUBSET start
    OBVIOUS
  <2> QED BY <2>1, <1>2 DEF LpCollected
<1>4. Tidy(HpCollected, len) /\ Whole(HpCollected)
  <2>1. frozen \cap Small \in SUBSET Small /\ start \cap frozen \in SUBSET start
    OBVIOUS
  <2> QED BY <2>1, <1>2 DEF HpCollected
<1>5. /\ Tidy(Swept(Inverted \cap Small, start \cap Inverted), len)
      /\ Whole(Swept(Inverted \cap Small, start \cap Inverted))
  <2>1. Inverted \cap Small \in SUBSET Small /\ start \cap Inverted \in SUBSET start
    OBVIOUS
  <2> QED BY <2>1, <1>2
<1> QED BY <1>1, <1>3, <1>4, <1>5 DEF LpBitmaps, HpBitmaps

\* What an allocation changes.
LEMMA TakeKeepsTidy ==
  ASSUME SInv, NEW n \in 1 .. MaxLen, NEW b, Tidy(b, len), Whole(b),
         NEW h \in Place(n, b.used), NEW p \in [Addr -> SUBSET Addr], Take(b, h, n, p)
  PROVE  /\ Tidy(Now, len)'
         /\ points' \in [Addr -> SUBSET Addr]
         /\ Heads' = HeadsOf(b) \cup {h}
         /\ h \in Addr /\ h \notin HeadsOf(b)
         /\ \A a \in Addr : points'[a] = IF a \in Heads' THEN p[a] ELSE {}
<1> DEFINE c == Taken(b, h, n)
           k == [len EXCEPT ![h] = n]
<1>1. Tidy(c, k) /\ HeadsOf(c) = HeadsOf(b) \cup {h} /\ h \notin HeadsOf(b)
  BY TakenTidy
<1>2. Set(c, k, p)
  BY DEF Take, Taken
<1>3. c = [used |-> c.used, start |-> c.start]
  BY DEF Taken
<1> HIDE DEF c, k
<1>4. Tidy(Now, len)' /\ Heads' = HeadsOf(c)
  BY <1>1, <1>2, <1>3, SetTidy
<1>5. points' = [a \in Addr |-> IF a \in HeadsOf(c) THEN p[a] ELSE {}]
  BY <1>2 DEF Set
<1>6. h \in Addr
  BY PlaceFree
<1> QED BY <1>1, <1>4, <1>5, <1>6

\* A block the program or the HP core adds keeps the types, too.
LEMMA TakeTypes ==
  ASSUME SInv, Tidy(Now, len)', points' \in [Addr -> SUBSET Addr],
         core' \in {"hp", "lp", "crashed"}, frozen' \in SUBSET Addr,
         code' \in SUBSET Addr, globals' \in SUBSET Addr,
         given' \in SUBSET Addr, roots' \in SUBSET Addr, lost' \in BOOLEAN
  PROVE  SInv'
<1>1. used' \in SUBSET Addr /\ start' \in SUBSET Big /\ len' \in [Addr -> 1 .. MaxLen]
  BY DEF Tidy, Now
<1> QED BY <1>1 DEF SInv, TypeOK

LEMMA InitTidy == Init => SInv
<1> SUFFICES ASSUME Init PROVE SInv
  OBVIOUS
<1>1. used = {} /\ start = {} /\ len = [a \in Addr |-> 1] /\ 1 \in 1 .. MaxLen
  BY HeapAssumption DEF Init, HeapAssumption
<1>2. Small \subseteq Addr
  BY HeapAssumption DEF Small, Addr, HeapAssumption
<1>3. Tidy(Now, len)
  BY <1>1, <1>2 DEF Tidy, Now, HeadsOf
<1> QED BY <1>1, <1>3 DEF Init, SInv, TypeOK

LEMMA NextTidy == SInv /\ [Next]_vars => SInv'
<1> SUFFICES ASSUME SInv, [Next]_vars PROVE SInv'
  OBVIOUS
<1>0. /\ core \in {"hp", "lp", "crashed"} /\ frozen \in SUBSET Addr
      /\ points \in [Addr -> SUBSET Addr] /\ code \in SUBSET Addr
      /\ globals \in SUBSET Addr /\ given \in SUBSET Addr /\ roots \in SUBSET Addr
      /\ lost \in BOOLEAN
  BY DEF SInv, TypeOK
<1>1. ASSUME NEW n \in 1 .. MaxLen, NEW h, NEW p \in [Addr -> SUBSET Addr], HpTake(n, h, p)
      PROVE  /\ Tidy(Now, len)' /\ points' \in [Addr -> SUBSET Addr]
             /\ frozen' \in SUBSET Addr /\ h \in Addr
  BY <1>0, <1>1, BitmapsTidy, TakeKeepsTidy DEF HpTake
<1>2. \A h : [points EXCEPT ![h] = {}] \in [Addr -> SUBSET Addr]
  BY <1>0
<1>3. \A h : \A t \in Fields(given) : [points EXCEPT ![h] = t] \in [Addr -> SUBSET Addr]
  BY <1>0 DEF Fields
<1>4. ASSUME NEW n \in 1 .. MaxLen, NEW h \in Addr, HpAddCode(n, h) PROVE SInv'
  BY <1>0, <1>1, <1>2, <1>4, TakeTypes DEF HpAddCode
<1>5. ASSUME NEW h \in Addr, HpAddGlobals(h) PROVE SInv'
  <2>1. 1 \in 1 .. MaxLen
    BY HeapAssumption DEF HeapAssumption
  <2> QED BY <2>1, <1>0, <1>1, <1>2, <1>5, TakeTypes DEF HpAddGlobals
<1>6. ASSUME NEW n \in 1 .. MaxLen, NEW h \in Addr, HpSend(n, h) PROVE SInv'
  <2>1. PICK t \in Fields(given) : HpTake(n, h, [points EXCEPT ![h] = t])
    BY <1>6 DEF HpSend
  <2> QED BY <2>1, <1>0, <1>1, <1>3, <1>6, TakeTypes DEF HpSend
<1>7. CASE HpRun
  <2>1. PICK t \in [globals -> Fields(given)] :
          points' = [a \in Addr |-> IF a \in globals THEN t[a] ELSE points[a]]
    BY <1>7 DEF HpRun
  <2>2. points' \in [Addr -> SUBSET Addr]
    BY <2>1, <1>0 DEF Fields
  <2>3. Tidy(Now, len)' /\ core' = "lp"
    BY <1>7 DEF HpRun, SInv, Tidy, Now, HeadsOf
  <2> QED BY <2>2, <2>3, <1>0, <1>7, TakeTypes DEF HpRun
<1>8. ASSUME NEW n \in 1 .. MaxLen, NEW h \in Addr, LpNew(n, h) PROVE SInv'
  <2>1. PICK b \in LpBitmaps(n) :
          h \in Place(n, b.used) /\ Take(b, h, n, [points EXCEPT ![h] = {}])
    BY <1>8 DEF LpNew
  <2>2. Tidy(Now, len)' /\ points' \in [Addr -> SUBSET Addr]
    BY <2>1, <1>2, BitmapsTidy, TakeKeepsTidy
  <2> QED BY <2>2, <1>0, <1>8, TakeTypes DEF LpNew
<1>9. ASSUME NEW n \in 1 .. MaxLen, LpExhausted(n) \/ HpExhausted(n) PROVE SInv'
  <2>1. Tidy(Now, len)' /\ core' = "crashed" /\ points' = points
    BY <1>9 DEF LpExhausted, HpExhausted, SInv, Tidy, Now, HeadsOf
  <2> QED BY <2>1, <1>0, <1>9, TakeTypes DEF LpExhausted, HpExhausted
<1>10. ASSUME NEW a \in Addr, NEW b \in Addr,
              LpLoad(a, b) \/ LpStore(a, b) \/ LpErase(a, b) \/ HpServeAgain(a, b)
                \/ LpDrop(a)
       PROVE  SInv'
  <2>1. Tidy(Now, len)' /\ UNCHANGED <<core, frozen, code, globals, given, lost>>
    BY <1>10 DEF LpLoad, LpStore, LpErase, HpServeAgain, LpDrop, Program,
                 SInv, Tidy, Now, HeadsOf
  <2>2. points' \in [Addr -> SUBSET Addr] /\ roots' \in SUBSET Addr
    BY <1>10, <1>0 DEF LpLoad, LpStore, LpErase, HpServeAgain, LpDrop
  <2> QED BY <2>1, <2>2, <1>0, TakeTypes
<1>11. ASSUME NEW o \in Addr, NEW n \in 1 .. MaxLen, NEW h \in Addr, HpServe(o, n, h)
       PROVE  SInv'
  <2>1. PICK t \in Fields(given) :
          HpTake(n, h, [[points EXCEPT ![h] = t] EXCEPT ![o] = @ \cup {h}])
    BY <1>11 DEF HpServe
  <2>2. [[points EXCEPT ![h] = t] EXCEPT ![o] = @ \cup {h}] \in [Addr -> SUBSET Addr]
    BY <1>0 DEF Fields
  <2> QED BY <2>1, <2>2, <1>0, <1>1, <1>11, TakeTypes DEF HpServe
<1>12. CASE HpReceive
  <2> DEFINE b == Swept(Inverted \cap Small, start \cap Inverted)
  <2>1. Tidy(b, len) /\ Whole(b) /\ Set(b, len, points)
    BY <1>12, BitmapsTidy DEF HpReceive
  <2>2. Tidy(Now, len)'
    BY <2>1, SetTidy DEF Whole
  <2>3. points' \in [Addr -> SUBSET Addr]
    BY <2>1, <1>0 DEF Set
  <2>4. Heads \subseteq Addr
    BY DEF SInv, TypeOK, Heads, HeadsOf, Now
  <2>5. frozen' \in SUBSET Addr
    BY <2>4, <1>0, <1>12 DEF HpReceive, Inverted
  <2> QED BY <2>2, <2>3, <2>5, <1>0, <1>12, TakeTypes DEF HpReceive
<1>13. CASE HpClear
  <2> DEFINE b == [used |-> {}, start |-> {}]
  <2>1. Tidy(b, len) /\ Set(b, len, points) /\ Whole(b)
    BY <1>13 DEF HpClear, SInv, Tidy, HeadsOf, Whole
  <2>2. Tidy(Now, len)'
    BY <2>1, SetTidy DEF Whole
  <2>3. points' \in [Addr -> SUBSET Addr]
    BY <2>1, <1>0 DEF Set
  <2> QED BY <2>2, <2>3, <1>0, <1>13, TakeTypes DEF HpClear
<1>14. CASE UNCHANGED vars
  BY <1>14 DEF vars, SInv, TypeOK, Tidy, Now, HeadsOf
<1>15. ASSUME NEW a \in Addr, LpDrop(a) PROVE SInv'
  BY <1>10, <1>15
<1> QED BY <1>4, <1>5, <1>6, <1>7, <1>8, <1>9, <1>10, <1>11, <1>12, <1>13, <1>14, <1>15
        DEF Next

\* For every heap: whatever is allocated and collected, on either core, the
\* bitmaps describe whole blocks that do not overlap, and no unit is lost.
THEOREM HeapOfWholeBlocks == Spec => [](TypeOK /\ BlocksIntact)
<1>1. SInv => TypeOK /\ BlocksIntact
  BY DEF SInv, Tidy, Now, BlocksIntact, Extent, Heads, HeadsOf
<1> QED BY <1>1, InitTidy, NextTidy, PTL DEF Spec

\* Every set of addresses stays within the heap and every block is as long as
\* some object needs, whichever blocks the collections take.
THEOREM HeapTypes == Spec => []TypeOK
  BY HeapOfWholeBlocks, PTL

-----------------------------------------------------------------------------
\* What the program can use is kept.

Safe ==
  /\ frozen \subseteq Heads
  /\ code \cup globals \cup given \subseteq frozen
  /\ From(Seeds) \subseteq Heads
  /\ core = "hp" => roots \subseteq given /\ \A g \in given : points[g] \subseteq given

\* What is live has the seeds and is closed.
LEMMA FromFacts ==
  ASSUME SInv
  PROVE  /\ Seeds \subseteq From(Seeds)
         /\ From(Seeds) \subseteq Addr
         /\ \A b \in From(Seeds) : points[b] \subseteq From(Seeds)
<1>1. Seeds \in SUBSET Addr /\ points \in [Addr -> SUBSET Addr]
  BY DEF SInv, TypeOK, Seeds
<1>2. Seeds \subseteq From(Seeds) /\ From(Seeds) \subseteq Addr
  BY <1>1, LeastHas, LeastIn DEF From
<1>3. ASSUME NEW b \in From(Seeds) PROVE points[b] \subseteq From(Seeds)
  <2>1. points[b] \cap Addr \subseteq From(Seeds)
    BY LeastClosed DEF From
  <2> QED BY <2>1, <1>1, <1>2
<1> QED BY <1>2, <1>3

\* To bound what is live after a step it is enough to give a closed set that
\* has the seeds.
LEMMA FromNext ==
  ASSUME NEW C \in SUBSET Addr, Seeds' \subseteq C, \A b \in C : points'[b] \subseteq C
  PROVE  (From(Seeds))' \subseteq C
<1>1. (From(Seeds))' = Least(Seeds', Addr, points')
  BY DEF From
<1>2. Least(Seeds', Addr, points') \subseteq C
  BY LeastLeast
<1> QED BY <1>1, <1>2

\* The LP core's collector keeps what is live and what is frozen.
LEMMA LpKeeps ==
  ASSUME SInv, Safe, core = "lp", NEW n, ~LpLoses(n), NEW b \in LpBitmaps(n)
  PROVE  From(Seeds) \cup frozen \subseteq HeadsOf(b)
<1>1. CASE b = Now
  BY <1>1 DEF Safe, Heads
<1>2. CASE b # Now
  <2>1. PICK stray \in SUBSET Heads : b = LpCollected(stray)
    BY <1>2 DEF LpBitmaps
  <2> DEFINE P == (roots \cup stray \cup FrozenWalk) \cap Heads
             m == Least(P, Heads, points)
             C == From(Seeds)
  <2>2. m \subseteq Heads /\ P \subseteq m
        /\ \A a \in m : points[a] \cap Heads \subseteq m
    <3>1. P \in SUBSET Heads
      OBVIOUS
    <3>2. P \subseteq m
      BY <3>1, LeastHas
    <3>3. m \subseteq Heads
      BY LeastIn
    <3>4. \A a \in m : points[a] \cap Heads \subseteq m
      BY LeastClosed
    <3> QED BY <3>2, <3>3, <3>4
  <2>3. /\ Seeds \subseteq C /\ C \subseteq Addr /\ C \subseteq Heads
        /\ \A a \in C : points[a] \subseteq C
    BY FromFacts DEF Safe
  <2>4. frozen \subseteq P /\ roots \subseteq P
    <3>1. frozen \subseteq FrozenWalk
      BY <1>2 DEF LpLoses, LpBitmaps
    <3>2. roots \subseteq Heads /\ frozen \subseteq Heads
      BY <2>3 DEF Seeds, Safe
    <3> QED BY <3>1, <3>2
  <2>5. Seeds \subseteq P
    BY <2>4 DEF Seeds, Safe
  <2>6. C \subseteq m
    <3> DEFINE D == m \cap C
    <3>1. Seeds \subseteq D /\ D \in SUBSET Addr
      BY <2>2, <2>3, <2>5
    <3>2. \A a \in D : points[a] \cap Addr \subseteq D
      BY <2>2, <2>3
    <3>3. Least(Seeds, Addr, points) \subseteq D
      <4> HIDE DEF D
      <4> QED BY <3>1, <3>2, LeastLeast
    <3> QED BY <3>3 DEF From
  <2>7. b = Swept(m \cap Small, start \cap (m \cup frozen))
    BY <2>1 DEF LpCollected, Marked
  <2>8. /\ m \cap Small \subseteq b.used
        /\ b.start = start \cap (m \cup frozen)
    BY <2>7 DEF Swept
  <2>9. b.start \subseteq b.used
    BY BitmapsTidy DEF Tidy
  <2>10. m \subseteq HeadsOf(b)
    <3> SUFFICES ASSUME NEW a \in m PROVE a \in HeadsOf(b)
      OBVIOUS
    <3>1. a \in Small \/ a \in start
      BY <2>2 DEF Heads, HeadsOf, Now
    <3> QED BY <3>1, <2>8, <2>9 DEF HeadsOf
  <2> QED BY <2>2, <2>4, <2>6, <2>10
<1> QED BY <1>1, <1>2

\* The sweep that keeps the blocks f, all of them heads, keeps them.
LEMMA SweepKeeps ==
  ASSUME SInv, NEW f, f \subseteq Heads,
         Tidy(Swept(f \cap Small, start \cap f), len)
  PROVE  f \subseteq HeadsOf(Swept(f \cap Small, start \cap f))
<1> DEFINE b == Swept(f \cap Small, start \cap f)
<1>1. f \cap Small \subseteq b.used /\ b.start = start \cap f
  BY DEF Swept
<1>2. b.start \subseteq b.used
  BY DEF Tidy
<1>3. ASSUME NEW a \in f PROVE a \in HeadsOf(b)
  <2>1. a \in Small \/ a \in start
    BY DEF Heads, HeadsOf, Now
  <2> QED BY <2>1, <1>1, <1>2 DEF HeadsOf
<1> QED BY <1>3

\* The HP core's collector keeps what is frozen.
LEMMA HpKeeps ==
  ASSUME SInv, Safe, NEW n
  PROVE  frozen \subseteq HeadsOf(HpBitmaps(n))
<1>1. CASE Place(n, used) # {}
  BY <1>1 DEF HpBitmaps, Heads, Safe
<1>2. CASE Place(n, used) = {}
  <2>1. HpBitmaps(n) = Swept(frozen \cap Small, start \cap frozen)
    BY <1>2 DEF HpBitmaps, HpCollected
  <2>2. Tidy(HpBitmaps(n), len)
    BY BitmapsTidy
  <2> QED BY <2>1, <2>2, SweepKeeps DEF Safe
<1> QED BY <1>1, <1>2

\* So it keeps all the program can use, if that is frozen or there is room.
LEMMA HpKeepsLive ==
  ASSUME SInv, Safe, NEW n, ~HpLoses(n)
  PROVE  Live \subseteq HeadsOf(HpBitmaps(n)) /\ From(Seeds) \subseteq Live
<1>1. CASE Place(n, used) # {}
  <2>1. HpBitmaps(n) = Now
    BY <1>1 DEF HpBitmaps
  <2> QED BY <2>1 DEF Safe, Live, Heads
<1>2. CASE Place(n, used) = {}
  <2>1. Live \subseteq frozen
    BY <1>2 DEF HpLoses
  <2> QED BY <2>1, HpKeeps DEF Live
<1> QED BY <1>1, <1>2

\* A set that has all the program can use after a step.
LEMMA SafeNext ==
  ASSUME SInv', NEW C \in SUBSET Addr, Seeds' \subseteq C,
         \A b \in C : points'[b] \subseteq C,
         C \subseteq Heads', (frozen \subseteq Heads)',
         (code \cup globals \cup given \subseteq frozen)',
         (core = "hp" => roots \subseteq given /\ \A g \in given : points[g] \subseteq given)'
  PROVE  Safe'
<1>1. (From(Seeds))' \subseteq C
  BY FromNext
<1> QED BY <1>1 DEF Safe

\* A request of the HP core, or a block it prepares: the block h is new, and
\* what is kept points to what it pointed to.
LEMMA HpTakeFacts ==
  ASSUME SInv, Safe, NEW n \in 1 .. MaxLen, NEW h,
         NEW p \in [Addr -> SUBSET Addr], HpTake(n, h, p)
  PROVE  /\ h \in Addr /\ h \notin frozen
         /\ frozen' = frozen \cup {h} /\ (frozen \subseteq Heads)'
         /\ \A a \in frozen \cup {h} : points'[a] = p[a]
<1>1. /\ h \in Place(n, HpBitmaps(n).used)
      /\ Take(HpBitmaps(n), h, n, p) /\ frozen' = frozen \cup {h}
  BY DEF HpTake
<1>2. Tidy(HpBitmaps(n), len) /\ Whole(HpBitmaps(n))
  BY BitmapsTidy
<1> DEFINE b == HpBitmaps(n)
<1> HIDE DEF b
<1>3. /\ Heads' = HeadsOf(b) \cup {h} /\ h \in Addr /\ h \notin HeadsOf(b)
      /\ \A a \in Addr : points'[a] = IF a \in Heads' THEN p[a] ELSE {}
  BY <1>1, <1>2, TakeKeepsTidy DEF b
<1>4. frozen \subseteq HeadsOf(b) /\ frozen \subseteq Addr
  BY HpKeeps DEF b, SInv, TypeOK
<1> QED BY <1>1, <1>3, <1>4

LEMMA InitSafe == Init => Safe
<1> SUFFICES ASSUME Init PROVE Safe
  OBVIOUS
<1>1. Seeds = {}
  BY DEF Init, Seeds
<1>2. From(Seeds) \subseteq {}
  BY <1>1, LeastLeast DEF From
<1> QED BY <1>2 DEF Init, Safe

\* What is lost stays lost.
LEMMA LostStays == [Next]_vars => (lost => lost')
BY DEF Next, vars, HpAddCode, HpAddGlobals, HpSend, HpRun, LpNew, LpExhausted,
       LpLoad, LpStore, LpErase, LpDrop, HpServe, HpServeAgain, HpExhausted,
       HpReceive, HpClear, Program

LEMMA StepSafe ==
  ASSUME SInv, SInv', Safe, ~lost', [Next]_vars
  PROVE  Safe'
<1>0. /\ points \in [Addr -> SUBSET Addr] /\ frozen \in SUBSET Addr
      /\ code \in SUBSET Addr /\ globals \in SUBSET Addr
      /\ given \in SUBSET Addr /\ roots \in SUBSET Addr
  BY DEF SInv, TypeOK
<1>1. /\ frozen \subseteq Heads /\ From(Seeds) \subseteq Heads
      /\ code \cup globals \cup given \subseteq frozen
  BY DEF Safe
<1>2. /\ Seeds \subseteq From(Seeds) /\ From(Seeds) \in SUBSET Addr
      /\ \A b \in From(Seeds) : points[b] \subseteq From(Seeds)
  BY FromFacts
<1>3. ASSUME NEW n \in 1 .. MaxLen, NEW h \in Addr,
             HpAddCode(n, h) \/ (n = 1 /\ HpAddGlobals(h))
      PROVE  Safe'
  <2> DEFINE p == [points EXCEPT ![h] = {}]
  <2>1. core = "hp" /\ HpTake(n, h, p) /\ UNCHANGED <<core, given, roots>>
        /\ code' \cup globals' \subseteq code \cup globals \cup {h}
    BY <1>3 DEF HpAddCode, HpAddGlobals
  <2>2. p \in [Addr -> SUBSET Addr] /\ \A a \in Addr \ {h} : p[a] = points[a]
    BY <1>0
  <2> HIDE DEF p
  <2>3. /\ h \notin frozen /\ frozen' = frozen \cup {h} /\ (frozen \subseteq Heads)'
        /\ \A a \in frozen \cup {h} : points'[a] = p[a]
    BY <2>1, <2>2, HpTakeFacts
  <2>4. roots \subseteq given /\ \A g \in given : points[g] \subseteq given
    BY <2>1 DEF Safe
  <2>5. \A g \in given : points'[g] \subseteq given
    BY <2>2, <2>3, <2>4, <1>0, <1>1
  <2>6. Seeds' \subseteq given
    BY <2>1, <2>4 DEF Seeds
  <2> QED BY <2>1, <2>3, <2>4, <2>5, <2>6, <1>0, <1>1, SafeNext
<1>4. ASSUME NEW n \in 1 .. MaxLen, NEW h \in Addr, HpSend(n, h) PROVE Safe'
  <2>1. PICK t \in Fields(given) : HpTake(n, h, [points EXCEPT ![h] = t])
    BY <1>4 DEF HpSend
  <2> DEFINE p == [points EXCEPT ![h] = t]
             C == given \cup {h}
  <2>2. p \in [Addr -> SUBSET Addr] /\ p[h] = t /\ t \subseteq given
        /\ \A a \in Addr \ {h} : p[a] = points[a]
    BY <1>0 DEF Fields
  <2> HIDE DEF p
  <2>3. /\ h \notin frozen /\ frozen' = frozen \cup {h} /\ (frozen \subseteq Heads)'
        /\ \A a \in frozen \cup {h} : points'[a] = p[a]
    BY <2>1, <2>2, HpTakeFacts DEF p
  <2>4. /\ core = "hp" /\ core' = "hp" /\ given' = C /\ roots' = roots \cup {h}
        /\ UNCHANGED <<code, globals>>
    BY <1>4 DEF HpSend
  <2>5. roots \subseteq given /\ \A g \in given : points[g] \subseteq given
    BY <2>4 DEF Safe
  <2>6. \A g \in C : points'[g] \subseteq C
    BY <2>2, <2>3, <2>5, <1>0, <1>1
  <2>7. Seeds' \subseteq C
    BY <2>4, <2>5 DEF Seeds
  <2>8. C \subseteq frozen'
    BY <1>1, <2>3
  <2> QED BY <2>3, <2>4, <2>5, <2>6, <2>7, <2>8, <1>0, <1>1, SafeNext
<1>5. CASE HpRun
  <2>1. PICK t \in [globals -> Fields(given)] :
          points' = [a \in Addr |-> IF a \in globals THEN t[a] ELSE points[a]]
    BY <1>5 DEF HpRun
  <2> DEFINE C == given \cup globals
  <2>2. /\ core = "hp" /\ core' = "lp"
        /\ UNCHANGED <<used, start, frozen, code, globals, given, roots>>
    BY <1>5 DEF HpRun
  <2>3. roots \subseteq given /\ \A g \in given : points[g] \subseteq given
    BY <2>2 DEF Safe
  <2>4. \A g \in globals : t[g] \subseteq given
    BY DEF Fields
  <2>5. \A g \in C : points'[g] \subseteq C
    BY <2>1, <2>3, <2>4, <1>0
  <2>6. Seeds' \subseteq C
    BY <2>2, <2>3 DEF Seeds
  <2>7. Heads' = Heads
    BY <2>2 DEF Heads, HeadsOf, Now
  <2> QED BY <2>2, <2>5, <2>6, <2>7, <1>0, <1>1, SafeNext
<1>6. ASSUME NEW n \in 1 .. MaxLen, NEW h \in Addr, LpNew(n, h) PROVE Safe'
  <2> DEFINE p == [points EXCEPT ![h] = {}]
             C == From(Seeds) \cup {h}
  <2>1. PICK b \in LpBitmaps(n) : h \in Place(n, b.used) /\ Take(b, h, n, p)
    BY <1>6 DEF LpNew
  <2>2. /\ core = "lp" /\ core' = "lp" /\ roots' = roots \cup {h}
        /\ UNCHANGED <<frozen, code, globals, given>> /\ ~LpLoses(n)
    BY <1>6 DEF LpNew
  <2>3. p \in [Addr -> SUBSET Addr] /\ p[h] = {} /\ \A a \in Addr \ {h} : p[a] = points[a]
    BY <1>0
  <2> HIDE DEF p
  <2>4. Tidy(b, len) /\ Whole(b)
    BY BitmapsTidy
  <2>5. /\ Heads' = HeadsOf(b) \cup {h} /\ h \notin HeadsOf(b)
        /\ \A a \in Addr : points'[a] = IF a \in Heads' THEN p[a] ELSE {}
    BY <2>1, <2>3, <2>4, TakeKeepsTidy
  <2>6. From(Seeds) \cup frozen \subseteq HeadsOf(b)
    BY <2>2, LpKeeps
  <2>7. \A a \in C : points'[a] \subseteq C
    BY <2>3, <2>5, <2>6, <1>2
  <2>8. Seeds' \subseteq C
    BY <2>2, <1>2 DEF Seeds
  <2>9. C \in SUBSET Addr /\ C \subseteq Heads' /\ (frozen \subseteq Heads)'
    BY <2>2, <2>5, <2>6, <1>2
  <2>10. (code \cup globals \cup given \subseteq frozen)'
    BY <2>2, <1>1
  <2> HIDE DEF C
  <2> QED BY <2>2, <2>7, <2>8, <2>9, <2>10, SafeNext
<1>7. ASSUME NEW n \in 1 .. MaxLen, LpExhausted(n) \/ HpExhausted(n) PROVE Safe'
  <2>1. /\ core' = "crashed"
        /\ UNCHANGED <<used, start, frozen, points, code, globals, given, roots>>
    BY <1>7 DEF LpExhausted, HpExhausted
  <2>2. Seeds' \subseteq From(Seeds)
    BY <2>1, <1>2 DEF Seeds
  <2>3. Heads' = Heads
    BY <2>1 DEF Heads, HeadsOf, Now
  <2> DEFINE C == From(Seeds)
  <2>4. Seeds' \subseteq C /\ C \in SUBSET Addr /\ C \subseteq Heads'
        /\ \A b \in C : points'[b] \subseteq C
    BY <2>1, <2>2, <2>3, <1>1, <1>2
  <2> HIDE DEF C
  <2> QED BY <2>1, <2>3, <2>4, <1>1, SafeNext
<1>8. ASSUME NEW a \in Addr, NEW b \in Addr,
             LpLoad(a, b) \/ LpStore(a, b) \/ LpErase(a, b) \/ HpServeAgain(a, b)
               \/ LpDrop(a)
      PROVE  Safe'
  <2> DEFINE C == From(Seeds)
  <2>1. core = "lp" /\ UNCHANGED <<core, used, start, frozen, code, globals, given>>
    BY <1>8 DEF LpLoad, LpStore, LpErase, HpServeAgain, LpDrop, Program
  <2>2. Seeds = roots \cup given \cup globals /\ Reachable \subseteq C
    BY <2>1, <1>2 DEF Seeds, Reachable
  <2>3. roots' \subseteq C
    BY <1>8, <2>2, <1>0, <1>2
       DEF LpLoad, LpStore, LpErase, HpServeAgain, LpDrop, Program, Reachable
  <2>4. \A c \in C : points'[c] \subseteq C
    <3>1. CASE LpLoad(a, b) \/ LpDrop(a)
      BY <3>1, <1>2 DEF LpLoad, LpDrop
    <3>2. CASE LpStore(a, b) \/ HpServeAgain(a, b)
      <4>1. b \in C /\ points' = [points EXCEPT ![a] = @ \cup {b}]
        BY <3>2, <2>2, <1>2 DEF LpStore, HpServeAgain
      <4> QED BY <4>1, <1>0, <1>2
    <3>3. CASE LpErase(a, b)
      BY <3>3, <1>0, <1>2 DEF LpErase
    <3> QED BY <3>1, <3>2, <3>3, <1>8
  <2>5. Seeds' \subseteq C
    BY <2>1, <2>2, <2>3, <1>2 DEF Seeds
  <2>6. C \subseteq Heads' /\ Heads' = Heads
    BY <2>1, <1>1 DEF Heads, HeadsOf, Now
  <2> HIDE DEF C
  <2>7. C \in SUBSET Addr
    BY <1>2 DEF C
  <2> QED BY <2>1, <2>4, <2>5, <2>6, <2>7, <1>1, SafeNext
<1>9. ASSUME NEW o \in Addr, NEW n \in 1 .. MaxLen, NEW h \in Addr, HpServe(o, n, h)
      PROVE  Safe'
  <2>1. PICK t \in Fields(given) :
          HpTake(n, h, [[points EXCEPT ![h] = t] EXCEPT ![o] = @ \cup {h}])
    BY <1>9 DEF HpServe
  <2>2. /\ core = "lp" /\ core' = "lp" /\ o \in Reachable /\ ~HpLoses(n)
        /\ given' = given \cup {h} /\ roots' = roots \cup {h}
        /\ UNCHANGED <<code, globals>>
    BY <1>9 DEF HpServe
  <2> DEFINE p == [[points EXCEPT ![h] = t] EXCEPT ![o] = @ \cup {h}]
             C == From(Seeds) \cup {h}
  <2>3. t \subseteq given /\ given \subseteq From(Seeds) /\ o \in From(Seeds)
    BY <2>2, <1>2 DEF Fields, Seeds, Reachable
  <2>4. /\ p \in [Addr -> SUBSET Addr]
        /\ \A a \in Addr \ {h, o} : p[a] = points[a]
        /\ p[h] \subseteq t \cup {h} /\ p[o] \subseteq points[o] \cup t \cup {h}
    <3> DEFINE q == [points EXCEPT ![h] = t]
    <3>1. q \in [Addr -> SUBSET Addr] /\ q[h] = t /\ \A a \in Addr \ {h} : q[a] = points[a]
      BY <2>3, <1>0
    <3>2. p = [q EXCEPT ![o] = @ \cup {h}]
      BY DEF p
    <3> HIDE DEF q
    <3>3. p \in [Addr -> SUBSET Addr] /\ p[o] = q[o] \cup {h}
          /\ \A a \in Addr \ {o} : p[a] = q[a]
      BY <3>1, <3>2
    <3> QED BY <3>1, <3>3
  <2> HIDE DEF p
  <2>5. HpTake(n, h, p)
    BY <2>1 DEF p
  <2>6. /\ h \notin frozen /\ frozen' = frozen \cup {h} /\ (frozen \subseteq Heads)'
    BY <2>4, <2>5, HpTakeFacts
  <2> DEFINE b == HpBitmaps(n)
  <2>7. Tidy(b, len) /\ Whole(b)
    BY BitmapsTidy
  <2>8. From(Seeds) \subseteq HeadsOf(b)
    BY HpKeepsLive, <2>2
  <2> HIDE DEF b
  <2>9. h \in Place(n, b.used) /\ Take(b, h, n, p)
    BY <2>5 DEF HpTake, b
  <2>10. /\ From(Seeds) \cup {h} \subseteq Heads'
         /\ \A a \in Addr : points'[a] = IF a \in Heads' THEN p[a] ELSE {}
    BY <2>4, <2>7, <2>8, <2>9, TakeKeepsTidy
  <2>11. \A a \in C : points'[a] \subseteq C
    BY <2>3, <2>4, <2>10, <1>2
  <2>12. Seeds' \subseteq C
    BY <2>2, <1>2 DEF Seeds
  <2>13. C \in SUBSET Addr /\ C \subseteq Heads'
    BY <2>10, <1>1, <1>2
  <2>14. (code \cup globals \cup given \subseteq frozen)'
    BY <2>2, <2>6, <1>1
  <2> HIDE DEF C
  <2> QED BY <2>2, <2>6, <2>11, <2>12, <2>13, <2>14, SafeNext
<1>10. CASE HpReceive
  <2> DEFINE b == Swept(Inverted \cap Small, start \cap Inverted)
  <2>1. /\ Set(b, len, points) /\ frozen' = Inverted /\ given' = {} /\ roots' = {}
        /\ core' = "hp" /\ UNCHANGED <<code, globals>>
    BY <1>10 DEF HpReceive
  <2>2. Tidy(b, len) /\ Whole(b)
    BY BitmapsTidy
  <2>3. Inverted \subseteq Heads /\ code \cup globals \subseteq Inverted
    BY <1>1 DEF Inverted
  <2>4. Inverted \subseteq HeadsOf(b)
    BY <2>2, <2>3, SweepKeeps
  <2>5. Heads' = HeadsOf(b)
    BY <2>1, <2>2, SetTidy DEF Whole
  <2>6. Seeds' = {}
    BY <2>1 DEF Seeds
  <2> QED BY <2>1, <2>3, <2>4, <2>5, <2>6, SafeNext
<1>11. CASE HpClear
  <2>1. Seeds' = {} /\ frozen' = {} /\ code' = {} /\ globals' = {} /\ given' = {} /\ roots' = {}
    BY <1>11 DEF HpClear, Seeds, Safe
  <2> QED BY <2>1, SafeNext
<1>12. CASE UNCHANGED vars
  <2>1. Seeds' = Seeds /\ Heads' = Heads /\ points' = points
    BY <1>12 DEF vars, Seeds, Heads, HeadsOf, Now
  <2>2. (From(Seeds))' = From(Seeds)
    BY <2>1 DEF From
  <2> QED BY <1>12, <2>1, <2>2 DEF vars, Safe
<1>13. ASSUME NEW h \in Addr, HpAddGlobals(h) PROVE Safe'
  <2>1. 1 \in 1 .. MaxLen
    BY HeapAssumption DEF HeapAssumption
  <2> QED BY <2>1, <1>3, <1>13
<1>14. ASSUME NEW a \in Addr, LpDrop(a) PROVE Safe'
  BY <1>8, <1>14
<1> QED BY <1>3, <1>4, <1>5, <1>6, <1>7, <1>8, <1>9, <1>10, <1>11, <1>12, <1>13, <1>14
        DEF Next

\* What the invariant says of memory that is handed out.
LEMMA SafeTakesNothing ==
  ASSUME SInv, Safe
  PROVE  LiveIsUsed /\ FrozenStays /\ NothingLiveIsTaken
<1>1. Live \subseteq From(Seeds) \cup frozen /\ frozen \subseteq Heads
      /\ From(Seeds) \subseteq Heads
  BY DEF Safe, Live
<1>2. ASSUME NEW n \in 1 .. MaxLen, NEW b, Tidy(b, len), Live \subseteq HeadsOf(b),
             NEW h \in Place(n, b.used)
      PROVE  Span(h, n) \cap LiveUnits = {}
  <2>1. Span(h, n) \cap b.used = {}
    BY <1>2, PlaceFree
  <2>2. LiveUnits \subseteq b.used
    BY <1>2 DEF Tidy, LiveUnits, Extent
  <2> QED BY <2>1, <2>2
<1>3. ASSUME NEW n \in 1 .. MaxLen, core = "lp", ~LpLoses(n), NEW b \in LpBitmaps(n)
      PROVE  Tidy(b, len) /\ Live \subseteq HeadsOf(b)
  BY <1>1, <1>3, BitmapsTidy, LpKeeps
<1>4. ASSUME NEW n \in 1 .. MaxLen, core = "hp" \/ ~HpLoses(n)
      PROVE  Tidy(HpBitmaps(n), len) /\ Live \subseteq HeadsOf(HpBitmaps(n))
  <2>1. core = "hp" => Live \subseteq frozen
    <3> SUFFICES ASSUME core = "hp" PROVE Live \subseteq frozen
      OBVIOUS
    <3>1. roots \subseteq given /\ given \in SUBSET Addr
          /\ \A g \in given : points[g] \subseteq given
      BY DEF Safe, SInv, TypeOK
    <3>2. Seeds \subseteq given
      BY <3>1 DEF Seeds
    <3>3. From(Seeds) \subseteq given
      BY <3>1, <3>2, LeastLeast DEF From
    <3> QED BY <3>3 DEF Safe, Live
  <2>2. ~HpLoses(n)
    BY <1>4, <2>1 DEF HpLoses
  <2> QED BY <2>2, HpKeepsLive, BitmapsTidy
<1>5. NothingLiveIsTaken
  BY <1>2, <1>3, <1>4 DEF NothingLiveIsTaken
<1> QED BY <1>1, <1>5 DEF LiveIsUsed, FrozenStays, Safe, Live

\* On a heap of any size, until the walk over the frozen blocks has missed one
\* in a collection of the LP core, or the HP core has swept a block that only
\* the LP program pointed to: no collection frees a block the program can
\* use, none frees a frozen one, and no allocation hands out memory of a block
\* the program can use.
THEOREM LiveIsKept == Spec => [](NothingLiveIsTaken /\ (~lost => LiveIsUsed /\ FrozenStays))
<1> DEFINE I == SInv /\ (~lost => Safe)
<1>1. Init => I
  BY InitTidy, InitSafe
<1>2. I /\ [Next]_vars => I'
  <2> SUFFICES ASSUME I, [Next]_vars PROVE I'
    OBVIOUS
  <2>1. SInv'
    BY NextTidy
  <2>2. ~lost' => ~lost
    BY LostStays
  <2> QED BY <2>1, <2>2, StepSafe
<1>3. I => NothingLiveIsTaken /\ (~lost => LiveIsUsed /\ FrozenStays)
  <2>1. lost => NothingLiveIsTaken
    BY DEF NothingLiveIsTaken
  <2> QED BY <2>1, SafeTakesNothing
<1> QED BY <1>1, <1>2, <1>3, PTL DEF Spec
=============================================================================
