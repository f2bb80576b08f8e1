------------------------ MODULE CoproObjectsProofs ------------------------
(***************************************************************************)
(* What holds of the objects for every number of objects, blocks, instance *)
(* variables, registers and global variables: every reference is counted,  *)
(* what the program can get at on either core is there, and it sees the    *)
(* same objects on both (the refinement of ObjectStore), but for runs in   *)
(* which a nil kept an address.                                            *)
(*                                                                         *)
(* On the HP core it is the counts that keep an object.  On the LP core it *)
(* is a set of blocks, those the program can have (Carried): they are in   *)
(* use, lead to one another or to objects of the table, and the copies are *)
(* among them and frozen.  When a run ends each pass takes over a part of  *)
(* the references; the proofs follow how many are due to be counted.       *)
(*                                                                         *)
(* For the refinement each step names the addresses that the program can   *)
(* have after it, and which each of them was before: itself, the object a  *)
(* copy was made of, or the block that an object was taken from.  That     *)
(* this is one to one needs that no two objects have the same copy         *)
(* (Joined), and that the first pass takes each block into the object it   *)
(* was a copy of, or into one nobody held (Traced).                        *)
(***************************************************************************)
EXTENDS CoproObjects, FiniteSetTheorems, WellFoundedInduction, TLAPS

-----------------------------------------------------------------------------
\* What the invariant is made of.

Address == {Nil} \cup Object \cup Block

ObjectMap == [Object -> [rc : Nat, field : [Field -> {Nil} \cup Object]]]

BlockMap ==
  [Block -> [used : BOOLEAN, frozen : BOOLEAN, word : [Field -> Address]]]

Entry ==
  [copro : {Nil} \cup Block, main : {Nil} \cup Object, ty : {"object", "nil"}]

\* How often v is held by instance variables, and by variables.
InFields(o, v) == Cardinality({h \in Object \X Field : o[h[1]].field[h[2]] = v})

InRoots(r, v) == Cardinality({x \in Root : r[x] = v})

\* What is free holds nothing.
Clean(o) == \A v \in Object : o[v].rc = 0 => o[v].field = Blank

\* Every reference is counted.
Counted(o, r) ==
  /\ o \in ObjectMap /\ Clean(o)
  /\ \A v \in Object : InFields(o, v) + InRoots(r, v) <= o[v].rc

InTable(t, v) == \E i \in DOMAIN t : t[i].main = v

\* The entry of v is of a nil.
NilIn(t, v) == \E i \in DOMAIN t : t[i].main = v /\ t[i].ty = "nil"

\* The entry e is not of an object that is free, unless it is what a nil left.
Backed(e, o) ==
  e.ty = "object" \/ e.copro # Nil => e.main \in Object /\ o[e.main].rc > 0

\* The entries of a table are of different objects, and these are alive.
Entered(t, o) ==
  /\ t \in Seq(Entry)
  /\ \A i, j \in DOMAIN t : t[i].main = t[j].main => i = j
  /\ \A i \in DOMAIN t : Backed(t[i], o)

\* The word x leads to a block of G or to an object in the table.
Leads(t, G, x) == (x \in Block => x \in G) /\ (x \in Object => InTable(t, x))

\* The blocks in G are those the program has: they are in use, they lead to
\* one another or to objects in the table, and the copies are among them.
Carried(B, t, G) ==
  /\ B \in BlockMap
  /\ Entered(t, object)
  /\ \A b \in G : B[b].used /\ \A f \in Field : Leads(t, G, B[b].word[f])
  /\ \A i \in DOMAIN t :
       t[i].copro # Nil => t[i].copro \in G /\ B[t[i].copro].frozen

Types ==
  /\ core \in {"hp", "lp"}
  /\ root \in [Root -> {Nil} \cup Object]
  /\ payload \in [Global -> {Nil} \cup Object]
  /\ cell \in [Root -> Address]
  /\ block \in BlockMap

OnLpCore(G) ==
  /\ Carried(block, table, G)
  /\ \A x \in Root : Leads(table, G, cell[x])
  /\ \A r \in Reg : cell[r] \notin Object
  /\ \A v : NilIn(table, v) => v \in {Nil} \cup Stale

IInv ==
  /\ Types
  /\ Counted(object, root)
  /\ core = "hp" => table = <<>>
  /\ core = "lp" => \E G \in SUBSET Block : OnLpCore(G)

-----------------------------------------------------------------------------
\* Lemmas on numbers and finite sets.

\* Induction over the numbers up to n, for a property given as a set.
LEMMA Climb ==
  ASSUME NEW n \in Nat, NEW T, 0 \in T, \A i \in 1 .. n : i - 1 \in T => i \in T
  PROVE  \A i \in 0 .. n : i \in T
<1> DEFINE S == {i \in 0 .. n : i \notin T}
           R == {p \in Nat \X Nat : p[1] < p[2]}
<1> SUFFICES ASSUME S # {} PROVE FALSE
  OBVIOUS
<1>1. IsWellFoundedOn(R, Nat)
  BY NatLessThanWellFounded, Zenon DEF OpToRel
<1>2. S \subseteq Nat
  OBVIOUS
<1>3. PICK i \in S : \A k \in S : ~ (<<k, i>> \in R)
  BY <1>1, <1>2, WFMin
<1>4. i \in 1 .. n
  OBVIOUS
<1>5. i - 1 \in T
  <2>1. <<i - 1, i>> \in R
    BY <1>4
  <2>2. i - 1 \notin S
    BY <2>1, <1>3
  <2> QED BY <2>2, <1>4
<1> QED BY <1>3, <1>4, <1>5

\* A set of numbers with a member has a smallest one.
LEMMA SmallestIs ==
  ASSUME NEW S \in SUBSET Nat, S # {}
  PROVE  Smallest(S) \in S /\ \A k \in S : Smallest(S) <= k
<1> DEFINE R == {p \in Nat \X Nat : p[1] < p[2]}
<1>1. IsWellFoundedOn(R, Nat)
  BY NatLessThanWellFounded, Zenon DEF OpToRel
<1>2. PICK i \in S : \A k \in S : ~ (<<k, i>> \in R)
  BY <1>1, WFMin
<1>3. \A k \in S : i <= k
  <2> SUFFICES ASSUME NEW k \in S PROVE i <= k
    OBVIOUS
  <2>1. ~ (<<k, i>> \in R)
    BY <1>2
  <2> QED BY <2>1
<1> QED BY <1>2, <1>3 DEF Smallest

\* The sizes of two subsets that agree apart from d.
LEMMA OneOff ==
  ASSUME NEW D, IsFiniteSet(D), NEW A \in SUBSET D, NEW B \in SUBSET D, NEW d,
         A \ {d} = B \ {d}
  PROVE  /\ Cardinality(A) \in Nat /\ Cardinality(B) \in Nat
         /\ Cardinality(B) + (IF d \in A THEN 1 ELSE 0)
              = Cardinality(A) + (IF d \in B THEN 1 ELSE 0)
<1>1. IsFiniteSet(A) /\ IsFiniteSet(B)
  BY FS_Subset
<1>2. Cardinality(A) \in Nat /\ Cardinality(B) \in Nat
  BY <1>1, FS_CardinalityType
<1>3. Cardinality(A \ {d}) = IF d \in A THEN Cardinality(A) - 1 ELSE Cardinality(A)
  BY <1>1, FS_RemoveElement
<1>4. Cardinality(B \ {d}) = IF d \in B THEN Cardinality(B) - 1 ELSE Cardinality(B)
  BY <1>1, FS_RemoveElement
<1> QED BY <1>2, <1>3, <1>4

\* A set with a member has a size above zero.
LEMMA Counts ==
  ASSUME NEW D, IsFiniteSet(D), NEW A \in SUBSET D, NEW d \in A
  PROVE  Cardinality(A) \in Nat /\ Cardinality(A) >= 1
<1>1. IsFiniteSet(A)
  BY FS_Subset
<1> QED BY <1>1, FS_CardinalityType, FS_EmptySet

\* What the constants give.
LEMMA Finite ==
  /\ HP \in Nat /\ LP \in Nat /\ FIELDS \in Nat /\ REGS \in Nat /\ GLOBALS \in Nat
  /\ IsFiniteSet(Object) /\ IsFiniteSet(Block) /\ IsFiniteSet(Field)
  /\ IsFiniteSet(Root) /\ IsFiniteSet(Object \X Field)
<1>1. HP \in Nat /\ LP \in Nat /\ FIELDS \in Nat /\ REGS \in Nat /\ GLOBALS \in Nat
  BY ObjectsAssumption
<1>2. IsFiniteSet(Object) /\ IsFiniteSet(Block) /\ IsFiniteSet(Field)
  BY <1>1, FS_Interval DEF Object, Block, Field
<1>3. IsFiniteSet(Reg) /\ IsFiniteSet(Global)
  BY <1>1, FS_Interval DEF Reg, Global
<1>4. IsFiniteSet(Root)
  BY <1>3, FS_Union DEF Root
<1>5. IsFiniteSet(Object \X Field)
  BY <1>2, FS_Product
<1> QED BY <1>1, <1>2, <1>4, <1>5, ObjectsAssumption

\* Nil, objects and blocks are apart, and so are registers and global variables.
LEMMA Apart ==
  /\ Nil \notin Object /\ Nil \notin Block /\ Object \cap Block = {}
  /\ Object \subseteq Nat /\ Block \subseteq Nat
  /\ NONE \notin Address
  /\ Reg \cap Global = {} /\ Reg \subseteq Root /\ Global \subseteq Root
BY Finite DEF Nil, Object, Block, NONE, Address, Reg, Global, Root

-----------------------------------------------------------------------------
\* How often an object is held.

\* One reference if a is b.
Is(a, b) == IF a = b THEN 1 ELSE 0

\* The counts are numbers.
LEMMA Numbers ==
  ASSUME NEW o, NEW r, NEW v
  PROVE  InFields(o, v) \in Nat /\ InRoots(r, v) \in Nat
<1>1. IsFiniteSet({h \in Object \X Field : o[h[1]].field[h[2]] = v})
  BY Finite, FS_Subset
<1>2. IsFiniteSet({x \in Root : r[x] = v})
  BY Finite, FS_Subset
<1> QED BY <1>1, <1>2, FS_CardinalityType DEF InFields, InRoots

\* A variable gets another value.
LEMMA RootChange ==
  ASSUME NEW r, NEW s, NEW x \in Root, NEW v,
         \A y \in Root : y # x => r[y] = s[y]
  PROVE  InRoots(s, v) + Is(r[x], v) = InRoots(r, v) + Is(s[x], v)
<1> DEFINE A == {y \in Root : r[y] = v}
           B == {y \in Root : s[y] = v}
<1>1. A \ {x} = B \ {x}
  OBVIOUS
<1>2. /\ Cardinality(A) \in Nat /\ Cardinality(B) \in Nat
      /\ Cardinality(B) + (IF x \in A THEN 1 ELSE 0)
           = Cardinality(A) + (IF x \in B THEN 1 ELSE 0)
  BY <1>1, Finite, OneOff
<1> QED BY <1>2 DEF InRoots, Is

\* An instance variable gets another value.
LEMMA FieldChange ==
  ASSUME NEW o, NEW p, NEW u \in Object, NEW f \in Field, NEW v,
         \A w \in Object, g \in Field :
           w # u \/ g # f => o[w].field[g] = p[w].field[g]
  PROVE  InFields(p, v) + Is(o[u].field[f], v) = InFields(o, v) + Is(p[u].field[f], v)
<1> DEFINE A == {h \in Object \X Field : o[h[1]].field[h[2]] = v}
           B == {h \in Object \X Field : p[h[1]].field[h[2]] = v}
           d == <<u, f>>
<1>1. ASSUME NEW h \in Object \X Field, h # d
      PROVE  o[h[1]].field[h[2]] = p[h[1]].field[h[2]]
  BY <1>1
<1>2. A \ {d} = B \ {d}
  BY <1>1
<1>3. (d \in A <=> o[u].field[f] = v) /\ (d \in B <=> p[u].field[f] = v)
  OBVIOUS
<1> DEFINE D == Object \X Field
<1>4. A \in SUBSET D /\ B \in SUBSET D /\ IsFiniteSet(D)
  BY Finite
<1> HIDE DEF d, D, A, B
<1>5. /\ Cardinality(A) \in Nat /\ Cardinality(B) \in Nat
      /\ Cardinality(B) + (IF d \in A THEN 1 ELSE 0)
           = Cardinality(A) + (IF d \in B THEN 1 ELSE 0)
  BY <1>2, <1>4, OneOff
<1> QED BY <1>3, <1>5 DEF InFields, Is, A, B

\* Only the instance variables matter.
LEMMA SameFields ==
  ASSUME NEW o, NEW p, NEW v, \A w \in Object : o[w].field = p[w].field
  PROVE  InFields(o, v) = InFields(p, v)
<1>1. \A h \in Object \X Field : o[h[1]].field[h[2]] = p[h[1]].field[h[2]]
  OBVIOUS
<1>2. {h \in Object \X Field : o[h[1]].field[h[2]] = v}
        = {h \in Object \X Field : p[h[1]].field[h[2]] = v}
  BY <1>1
<1> QED BY <1>2 DEF InFields

\* What is held is counted.
LEMMA FieldCounts ==
  ASSUME NEW o, NEW w \in Object, NEW f \in Field
  PROVE  InFields(o, o[w].field[f]) >= 1
<1> DEFINE v == o[w].field[f]
           A == {h \in Object \X Field : o[h[1]].field[h[2]] = v}
<1>1. <<w, f>> \in A
  OBVIOUS
<1> HIDE DEF v
<1> QED BY <1>1, Finite, Counts DEF InFields, v

\* And a variable that holds an object is one of its holders.
LEMMA RootCounts ==
  ASSUME NEW r, NEW x \in Root
  PROVE  InRoots(r, r[x]) >= 1
<1> DEFINE v == r[x]
           A == {y \in Root : r[y] = v}
<1>1. x \in A
  OBVIOUS
<1> HIDE DEF v
<1> QED BY <1>1, Finite, Counts DEF InRoots, v

-----------------------------------------------------------------------------
\* mrbc_decref.

\* What an object that is freed held is not held by it any more.
LEMMA FreeFields ==
  ASSUME NEW o \in ObjectMap, NEW u \in Object, NEW v \in Object
  PROVE  LET n == Cardinality({f \in Field : o[u].field[f] = v})
         IN  /\ n \in Nat
             /\ InFields([o EXCEPT ![u] = NoObject], v) + n = InFields(o, v)
<1> DEFINE p == [o EXCEPT ![u] = NoObject]
           F == {f \in Field : o[u].field[f] = v}
           A == {h \in Object \X Field : o[h[1]].field[h[2]] = v}
           B == {h \in Object \X Field : p[h[1]].field[h[2]] = v}
           C == {u} \X F
<1>1. IsFiniteSet(F) /\ IsFiniteSet(B) /\ IsFiniteSet({u}) /\ Cardinality({u}) = 1
  BY Finite, FS_Subset, FS_Singleton
<1>2. IsFiniteSet(C) /\ Cardinality(C) = 1 * Cardinality(F)
  BY <1>1, FS_Product
<1>3. \A w \in Object : p[w] = IF w = u THEN NoObject ELSE o[w]
  BY DEF ObjectMap
<1>4. \A f \in Field : NoObject.field[f] # v
  BY Apart DEF NoObject, Blank
<1>5. ASSUME NEW h \in Object \X Field PROVE h \in A <=> h \in B \/ h \in C
  <2>1. CASE h[1] = u
    BY <2>1, <1>3, <1>4
  <2>2. CASE h[1] # u
    BY <2>2, <1>3
  <2> QED BY <2>1, <2>2
<1>6. A = B \cup C
  <2>1. A \subseteq B \cup C
    BY <1>5
  <2>2. B \subseteq A
    BY <1>5
  <2>3. C \subseteq Object \X Field
    OBVIOUS
  <2>4. C \subseteq A
    BY <2>3, <1>5
  <2> QED BY <2>1, <2>2, <2>4
<1>7. B \cap C = {}
  BY <1>3, <1>4
<1> HIDE DEF A, B, C
<1>8. Cardinality(A) = Cardinality(B) + Cardinality(C) - Cardinality(B \cap C)
  BY <1>1, <1>2, <1>6, FS_Union
<1>9. Cardinality(B) \in Nat /\ Cardinality(F) \in Nat /\ Cardinality(B \cap C) = 0
  BY <1>1, <1>7, FS_CardinalityType, FS_EmptySet
<1> QED BY <1>2, <1>8, <1>9 DEF InFields, A, B, F

\* The references in S, one each.
Due(S) == [v \in Object |-> IF v \in S THEN 1 ELSE 0]

Steps == HP + HP * FIELDS

\* The objects o, whose references are those of their instance variables, e[v]
\* others of v, and due[v] that are about to go.
Owed(o, e, due) ==
  /\ o \in ObjectMap /\ Clean(o)
  /\ due \in [Object -> Nat]
  /\ \A v \in Object : InFields(o, v) + e[v] + due[v] <= o[v].rc

\* A step of mrbc_decref keeps every reference counted.
LEMMA DecrefKeeps ==
  ASSUME NEW s, NEW i, NEW e \in [Object -> Nat], Owed(s.object, e, s.due)
  PROVE  Owed(Decref(s, i).object, e, Decref(s, i).due)
<1> DEFINE o == s.object
           S == {u \in Object : s.due[u] > 0}
           v == Smallest(S)
           rest == [s.due EXCEPT ![v] = @ - 1]
           held == [u \in Object |-> Cardinality({f \in Field : o[v].field[f] = u})]
<1>1. CASE \A u \in Object : s.due[u] = 0
  <2>1. Decref(s, i) = s
    BY <1>1, Zenon DEF Decref
  <2> QED BY <2>1
<1>2. CASE ~ \A u \in Object : s.due[u] = 0
  <2>1. S # {} /\ S \in SUBSET Nat
    <3>1. \A u \in Object : s.due[u] \in Nat
      BY DEF Owed
    <3>2. S # {}
      BY <1>2, <3>1
    <3>3. S \subseteq Object
      OBVIOUS
    <3> QED BY <3>2, <3>3, Apart
  <2>2. v \in S
    BY <2>1, SmallestIs
  <2> HIDE DEF v
  <2>3. v \in Object /\ s.due[v] >= 1
    BY <2>2 DEF Owed
  <2>4. o[v] \in [rc : Nat, field : [Field -> {Nil} \cup Object]]
    BY <2>3 DEF Owed, ObjectMap
  <2>5. rest \in [Object -> Nat] /\ rest[v] = s.due[v] - 1
        /\ \A u \in Object : u # v => rest[u] = s.due[u]
    BY <2>3 DEF Owed
  <2>6. CASE o[v].rc > 1
    <3> DEFINE p == [o EXCEPT ![v].rc = @ - 1]
    <3>1. Decref(s, i) = [object |-> p, due |-> rest]
      BY <1>2, <2>6 DEF Decref, v
    <3>2. p \in ObjectMap
      BY <2>3, <2>4, <2>6 DEF Owed, ObjectMap
    <3>3. \A u \in Object :
            p[u].field = o[u].field /\ p[u].rc = IF u = v THEN o[v].rc - 1 ELSE o[u].rc
      BY <2>3 DEF Owed, ObjectMap
    <3>4. Clean(p)
      BY <3>3, <2>4, <2>6 DEF Owed, Clean
    <3> HIDE DEF p, rest
    <3>5. ASSUME NEW u \in Object PROVE InFields(p, u) + e[u] + rest[u] <= p[u].rc
      <4>1. InFields(p, u) = InFields(o, u) /\ InFields(o, u) \in Nat
        BY <3>3, SameFields, Numbers
      <4>2. InFields(o, u) + e[u] + s.due[u] <= o[u].rc
        BY DEF Owed
      <4>3. s.due[u] \in Nat /\ o[u].rc \in Nat
        BY DEF Owed, ObjectMap
      <4> QED BY <4>1, <4>2, <4>3, <3>3, <2>5
    <3> QED BY <3>1, <3>2, <3>4, <3>5, <2>5 DEF Owed
  <2>7. CASE ~ (o[v].rc > 1)
    <3> DEFINE p == [o EXCEPT ![v] = NoObject]
               due == [u \in Object |-> rest[u] + held[u]]
    <3>1. Decref(s, i) = [object |-> p, due |-> due]
      BY <1>2, <2>7 DEF Decref, v
    <3>2. p \in ObjectMap
      BY DEF Owed, ObjectMap, NoObject, Blank
    <3>3. \A u \in Object : p[u] = IF u = v THEN NoObject ELSE o[u]
      BY DEF Owed, ObjectMap
    <3>4. Clean(p)
      BY <3>3 DEF Owed, Clean, NoObject
    <3>5. ASSUME NEW u \in Object
          PROVE  held[u] \in Nat /\ InFields(p, u) + held[u] = InFields(o, u)
      BY <2>3, FreeFields DEF Owed
    <3>6. due \in [Object -> Nat]
      BY <3>5, <2>5
    <3>7. \A u \in Object : due[u] = rest[u] + held[u]
      OBVIOUS
    <3> HIDE DEF p, rest, held, due
    <3>8. ASSUME NEW u \in Object PROVE InFields(p, u) + e[u] + due[u] <= p[u].rc
      <4>1. InFields(p, u) + held[u] = InFields(o, u) /\ held[u] \in Nat
            /\ InFields(p, u) \in Nat /\ InFields(o, u) \in Nat
        BY <3>5, Numbers
      <4>2. InFields(o, u) + e[u] + s.due[u] <= o[u].rc
        BY DEF Owed
      <4>3. s.due[u] \in Nat /\ o[u].rc \in Nat /\ e[u] \in Nat
        BY DEF Owed, ObjectMap
      <4>4. CASE u = v
        <5>1. p[u].rc = 0
          BY <4>4, <3>3 DEF NoObject
        <5> QED BY <5>1, <4>1, <4>2, <4>3, <4>4, <3>7, <2>3, <2>5, <2>7
      <4>5. CASE u # v
        BY <4>5, <4>1, <4>2, <4>3, <3>3, <3>7, <2>5
      <4> QED BY <4>4, <4>5
    <3> QED BY <3>1, <3>2, <3>4, <3>6, <3>8 DEF Owed
  <2> QED BY <2>6, <2>7
<1> QED BY <1>1, <1>2

\* The states the objects go through.
LEMMA DroppedSteps ==
  ASSUME NEW o, NEW S
  PROVE  \E at : /\ at[0] = [object |-> o, due |-> Due(S)]
                 /\ \A i \in 1 .. Steps : at[i] = Decref(at[i - 1], i)
                 /\ Dropped(o, S) = at[Steps].object
<1> DEFINE n == Steps
           a == [object |-> o, due |-> Due(S)]
           F(f, m) == [i \in 0 .. m |-> IF i = 0 THEN a ELSE Decref(f[i - 1], i)]
           T == {m \in 0 .. n : \E f : f = F(f, m)}
           at == CHOOSE f : f = F(f, n)
<1>1. n \in Nat
  BY Finite DEF Steps
<1>2. Dropped(o, S) = at[n].object
  BY DEF Dropped, Folded, Due, Steps
<1> HIDE DEF a, n, at
<1>3. 0 \in T
  <2> DEFINE g == [i \in 0 .. 0 |-> a]
  <2>1. g = F(g, 0)
    OBVIOUS
  <2>2. 0 \in 0 .. n
    BY <1>1
  <2> QED BY <2>1, <2>2
<1>4. ASSUME NEW m \in 1 .. n, m - 1 \in T PROVE m \in T
  <2>1. PICK f : f = F(f, m - 1)
    BY <1>4
  <2> DEFINE g == [i \in 0 .. m |-> IF i = m THEN Decref(f[m - 1], m) ELSE f[i]]
  <2>2. \A i \in 0 .. m : g[i] = IF i = 0 THEN a ELSE Decref(g[i - 1], i)
    BY <2>1, <1>1
  <2>3. g = F(g, m)
    BY <2>2
  <2>4. m \in 0 .. n
    BY <1>1
  <2> QED BY <2>3, <2>4
<1>5. n \in T
  <2> HIDE DEF T
  <2> QED BY <1>1, <1>3, <1>4, Climb
<1>6. at = F(at, n)
  BY <1>5 DEF at
<1>7. at[0] = a /\ \A i \in 1 .. n : at[i] = Decref(at[i - 1], i)
  BY <1>6, <1>1
<1> QED BY <1>1, <1>2, <1>7 DEF a, n

\* Objects that no reference is left of are freed, and no others.
LEMMA DropKeeps ==
  ASSUME NEW o \in ObjectMap, Clean(o), NEW e \in [Object -> Nat], NEW S,
         \A v \in Object : InFields(o, v) + e[v] + (IF v \in S THEN 1 ELSE 0) <= o[v].rc
  PROVE  /\ Dropped(o, S) \in ObjectMap /\ Clean(Dropped(o, S))
         /\ \A v \in Object : InFields(Dropped(o, S), v) + e[v] <= Dropped(o, S)[v].rc
<1> DEFINE n == Steps
<1>0. n \in Nat
  BY Finite DEF Steps
<1>1. PICK at : /\ at[0] = [object |-> o, due |-> Due(S)]
                /\ \A i \in 1 .. n : at[i] = Decref(at[i - 1], i)
                /\ Dropped(o, S) = at[n].object
  BY DroppedSteps, Zenon
<1> DEFINE T == {i \in 0 .. n : Owed(at[i].object, e, at[i].due)}
<1>2. Owed(o, e, Due(S))
  BY DEF Owed, Due
<1> HIDE DEF n
<1>3. 0 \in T
  BY <1>0, <1>1, <1>2
<1>4. ASSUME NEW i \in 1 .. n, i - 1 \in T PROVE i \in T
  BY <1>0, <1>1, <1>4, DecrefKeeps
<1>5. n \in T
  <2> HIDE DEF T
  <2> QED BY <1>0, <1>3, <1>4, Climb
<1> DEFINE p == at[n].object
           d == at[n].due
<1>6. Owed(p, e, d)
  BY <1>5
<1> HIDE DEF p, d
<1>7. ASSUME NEW v \in Object PROVE InFields(p, v) + e[v] <= p[v].rc
  <2>1. InFields(p, v) + e[v] + d[v] <= p[v].rc /\ d[v] \in Nat /\ p[v].rc \in Nat
    BY <1>6 DEF Owed, ObjectMap
  <2> QED BY <2>1, Numbers
<1> QED BY <1>1, <1>6, <1>7 DEF Owed, p

\* Of an object with more than one reference only the count changes.
LEMMA DropOne ==
  ASSUME NEW o \in ObjectMap, NEW v \in Object, o[v].rc > 1
  PROVE  Dropped(o, {v}) = [o EXCEPT ![v].rc = @ - 1]
<1> DEFINE n == Steps
           S == {v}
           p == [o EXCEPT ![v].rc = @ - 1]
           due == Due(S)
           s == [object |-> o, due |-> due]
           t == [object |-> p, due |-> [u \in Object |-> 0]]
<1> HIDE DEF S
<1>1. PICK at : /\ at[0] = s
                /\ \A i \in 1 .. n : at[i] = Decref(at[i - 1], i)
                /\ Dropped(o, S) = at[n].object
  BY DroppedSteps, Zenon
<1> HIDE DEF n, s, due, t
<1>2. n \in Nat /\ n >= 1
  <2>1. HP >= 1
    BY Finite DEF Object
  <2>2. HP * FIELDS \in Nat
    BY Finite
  <2> QED BY <2>1, <2>2, Finite DEF Steps, n
<1>3. Decref(s, 1) = t
  <2> DEFINE P == {u \in Object : s.due[u] > 0}
  <2>1. \A u \in Object : s.due[u] = IF u = v THEN 1 ELSE 0
    BY DEF Due, s, due, S
  <2>2. [due EXCEPT ![v] = @ - 1] = [u \in Object |-> 0]
    <3> DEFINE rest == [due EXCEPT ![v] = @ - 1]
    <3>1. due \in [Object -> Nat] /\ \A u \in Object : due[u] = IF u = v THEN 1 ELSE 0
      BY DEF Due, due, S
    <3>2. rest \in [Object -> Int] /\ \A u \in Object : rest[u] = 0
      <4> HIDE DEF due
      <4> QED BY <3>1
    <3>3. rest = [u \in Object |-> 0]
      <4> HIDE DEF rest
      <4> QED BY <3>2
    <3> QED BY <3>3
  <2>3. s.object = o /\ s.due = due
    BY DEF s
  <2>4. P = {v}
    BY <2>1
  <2>5. Smallest(P) = v
    BY <2>4, SmallestIs, Apart
  <2>6. ~ \A u \in Object : s.due[u] = 0
    BY <2>1
  <2> QED BY <2>2, <2>3, <2>5, <2>6 DEF Decref, t
<1>4. ASSUME NEW i PROVE Decref(t, i) = t
  <2>1. \A u \in Object : t.due[u] = 0
    BY DEF t
  <2> QED BY <2>1, Zenon DEF Decref
<1> DEFINE T == {i \in 0 .. n : i = 0 \/ at[i] = t}
<1>5. 0 \in T
  BY <1>2
<1>6. ASSUME NEW i \in 1 .. n, i - 1 \in T PROVE i \in T
  <2>1. CASE i = 1
    BY <2>1, <1>1, <1>2, <1>3
  <2>2. CASE i # 1
    BY <2>2, <1>1, <1>2, <1>4, <1>6
  <2> QED BY <2>1, <2>2
<1>7. n \in T
  <2> HIDE DEF T
  <2> QED BY <1>2, <1>5, <1>6, Climb
<1>8. at[n] = t
  BY <1>2, <1>7
<1> QED BY <1>1, <1>8 DEF t, S

-----------------------------------------------------------------------------
\* Reference counts while a run ends.

Worlds == [object : ObjectMap, buf : SUBSET Object]

\* The references of v that are not just kept for the end.
Net(w, v) == w.object[v].rc - (IF v \in w.buf THEN 1 ELSE 0)

\* From w to u no instance variable changes.
FieldsKept(w, u) == \A v \in Object : u.object[v].field = w.object[v].field

\* What is left of a count is a number, and not more than the count.
LEMMA NetIsInt ==
  ASSUME NEW w \in Worlds, NEW v \in Object
  PROVE  /\ Net(w, v) \in Int /\ Net(w, v) <= w.object[v].rc
         /\ w.object[v] \in [rc : Nat, field : [Field -> {Nil} \cup Object]]
BY DEF Worlds, ObjectMap, Net

\* mrbc_incref adds one to the count of its object and changes nothing else.
LEMMA IncrefCounts ==
  ASSUME NEW o \in ObjectMap, NEW v \in {Nil} \cup Object
  PROVE  /\ Incref(o, v) \in ObjectMap
         /\ Clean(o) => Clean(Incref(o, v))
         /\ \A u \in Object :
              /\ Incref(o, v)[u].field = o[u].field
              /\ Incref(o, v)[u].rc = o[u].rc + (IF u = v THEN 1 ELSE 0)
<1> DEFINE p == [o EXCEPT ![v].rc = @ + 1]
<1>1. CASE v = Nil
  <2>1. Incref(o, v) = o /\ \A u \in Object : u # v
    BY <1>1, Apart DEF Incref
  <2> QED BY <2>1 DEF ObjectMap
<1>2. CASE v # Nil
  <2>1. v \in Object /\ Incref(o, v) = p
    BY <1>2 DEF Incref
  <2>2. \A u \in Object : o[u] \in [rc : Nat, field : [Field -> {Nil} \cup Object]]
    BY DEF ObjectMap
  <2>3. p \in ObjectMap
    BY <2>1, <2>2 DEF ObjectMap
  <2>4. \A u \in Object : p[u].field = o[u].field
                          /\ p[u].rc = o[u].rc + (IF u = v THEN 1 ELSE 0)
    BY <2>1, <2>2 DEF ObjectMap
  <2> HIDE DEF p
  <2>5. Clean(o) => Clean(p)
    BY <2>2, <2>4 DEF Clean
  <2> QED BY <2>1, <2>3, <2>4, <2>5
<1> QED BY <1>1, <1>2

\* A reference that is given up is not counted any more, or it is the last one.
LEMMA SafeDecrefCounts ==
  ASSUME NEW w \in Worlds, Clean(w.object), NEW v \in {Nil} \cup Object,
         v \in Object => w.object[v].rc >= 1,
         NEW u, u = SafeDecref(w, v)
  PROVE  /\ u \in Worlds /\ Clean(u.object) /\ FieldsKept(w, u)
         /\ \A x \in Object : Net(u, x) >= Net(w, x) - (IF x = v THEN 1 ELSE 0)
<1> DEFINE o == w.object
           p == [o EXCEPT ![v].rc = @ - 1]
<1>0. \A x \in Object : o[x] \in [rc : Nat, field : [Field -> {Nil} \cup Object]]
  BY DEF Worlds, ObjectMap
<1>1. CASE v = Nil \/ v \in w.buf
  <2>1. u = w
    BY <1>1 DEF SafeDecref
  <2> QED BY <2>1, NetIsInt DEF FieldsKept
<1>2. CASE ~ (v = Nil \/ v \in w.buf) /\ o[v].rc = 1
  <2>1. v \in Object /\ u = [w EXCEPT !.buf = @ \cup {v}]
    BY <1>2 DEF SafeDecref
  <2>2. u \in Worlds /\ u.object = o /\ u.buf = w.buf \cup {v}
    BY <2>1 DEF Worlds
  <2> QED BY <1>0, <1>2, <2>1, <2>2 DEF FieldsKept, Net
<1>3. CASE ~ (v = Nil \/ v \in w.buf) /\ o[v].rc # 1
  <2>1. v \in Object /\ u = [w EXCEPT !.object = Dropped(@, {v})]
    BY <1>3 DEF SafeDecref
  <2>2. o \in ObjectMap
    BY DEF Worlds
  <2>3. o[v].rc > 1
    BY <1>0, <1>3, <2>1
  <2>4. Dropped(o, {v}) = p
    BY <2>1, <2>2, <2>3, DropOne
  <2>5. p \in ObjectMap
    BY <2>1, <2>3, <1>0, <2>2 DEF ObjectMap
  <2>6. \A x \in Object :
          p[x].field = o[x].field /\ p[x].rc = IF x = v THEN o[v].rc - 1 ELSE o[x].rc
    BY <2>1, <2>2, <1>0 DEF ObjectMap
  <2>7. u = [w EXCEPT !.object = p]
    BY <2>1, <2>4
  <2> HIDE DEF p
  <2>8. u \in Worlds /\ u.object = p /\ u.buf = w.buf
    BY <2>5, <2>7 DEF Worlds
  <2>9. Clean(p)
    BY <1>0, <2>3, <2>6 DEF Clean
  <2> QED BY <1>0, <1>3, <2>3, <2>6, <2>8, <2>9 DEF FieldsKept, Net
<1> QED BY <1>1, <1>2, <1>3

\* And one that is taken instead is counted.
LEMMA TranslatedCounts ==
  ASSUME NEW w \in Worlds, Clean(w.object), NEW v \in {Nil} \cup Object,
         v \in Object => w.object[v].rc >= 1,
         NEW t, NEW x, Value(t, x) \in {Nil} \cup Object,
         NEW u, u = Translated(w, t, v, x)
  PROVE  /\ u \in Worlds /\ Clean(u.object) /\ FieldsKept(w, u)
         /\ \A y \in Object : Net(u, y) >= Net(w, y) - (IF y = v THEN 1 ELSE 0)
                                                     + (IF y = Value(t, x) THEN 1 ELSE 0)
<1> DEFINE s == SafeDecref(w, v)
           n == Value(t, x)
           p == Incref(s.object, n)
<1>1. /\ s \in Worlds /\ Clean(s.object) /\ FieldsKept(w, s)
      /\ \A y \in Object : Net(s, y) >= Net(w, y) - (IF y = v THEN 1 ELSE 0)
  BY SafeDecrefCounts
<1>2. n # NONE
  BY Apart DEF Address
<1>3. u = [s EXCEPT !.object = p]
  BY <1>2 DEF Translated
<1> HIDE DEF s, n
<1>4. s.object \in ObjectMap
  BY <1>1 DEF Worlds
<1>5. /\ p \in ObjectMap /\ Clean(p)
      /\ \A y \in Object : /\ p[y].field = s.object[y].field
                           /\ p[y].rc = s.object[y].rc + (IF y = n THEN 1 ELSE 0)
  BY <1>1, <1>4, IncrefCounts DEF n
<1> HIDE DEF p
<1>6. u \in Worlds /\ u.object = p /\ u.buf = s.buf
  BY <1>1, <1>3, <1>5 DEF Worlds
<1>7. FieldsKept(w, u)
  BY <1>1, <1>5, <1>6 DEF FieldsKept
<1>8. ASSUME NEW y \in Object
      PROVE  Net(u, y) >= Net(w, y) - (IF y = v THEN 1 ELSE 0) + (IF y = n THEN 1 ELSE 0)
  <2>1. Net(u, y) = Net(s, y) + (IF y = n THEN 1 ELSE 0)
    <3>1. s.object[y].rc \in Nat
      BY <1>4 DEF ObjectMap
    <3> QED BY <1>5, <1>6, <3>1 DEF Net
  <2>2. Net(s, y) \in Int /\ Net(w, y) \in Int
    BY <1>1, NetIsInt
  <2>3. Net(s, y) >= Net(w, y) - (IF y = v THEN 1 ELSE 0)
    BY <1>1
  <2> QED BY <2>1, <2>2, <2>3
<1> QED BY <1>5, <1>6, <1>7, <1>8 DEF n

-----------------------------------------------------------------------------
\* The program on the HP core.

\* A variable lets go of its object after it has the new one.
LEMMA HpSetKeeps ==
  ASSUME Types, NEW o \in ObjectMap, Clean(o), NEW x \in Root,
         NEW v \in {Nil} \cup Object,
         \A u \in Object :
           InFields(o, u) + InRoots(root, u) + (IF u = v THEN 1 ELSE 0) <= o[u].rc,
         HpSet(o, x, v)
  PROVE  Counted(object', root') /\ root' \in [Root -> {Nil} \cup Object]
<1> DEFINE r == [root EXCEPT ![x] = v]
           S == {root[x]}
           e == [u \in Object |-> InRoots(r, u)]
<1>1. object' = Dropped(o, S) /\ root' = r
  BY DEF HpSet
<1>2. root[x] \in {Nil} \cup Object /\ r \in [Root -> {Nil} \cup Object]
      /\ r[x] = v /\ \A y \in Root : y # x => root[y] = r[y]
  BY DEF Types
<1>3. \A u : u \in S <=> u = root[x]
  OBVIOUS
<1> HIDE DEF S, r
<1>4. e \in [Object -> Nat]
  BY Numbers
<1>5. ASSUME NEW u \in Object
      PROVE  InFields(o, u) + e[u] + (IF u \in S THEN 1 ELSE 0) <= o[u].rc
  <2>1. InRoots(r, u) + Is(root[x], u) = InRoots(root, u) + Is(r[x], u)
    BY <1>2, RootChange
  <2>2. InFields(o, u) + InRoots(root, u) + (IF u = v THEN 1 ELSE 0) <= o[u].rc
    OBVIOUS
  <2>3. e[u] = InRoots(r, u)
    OBVIOUS
  <2>4. InFields(o, u) \in Nat /\ InRoots(r, u) \in Nat /\ InRoots(root, u) \in Nat
        /\ o[u].rc \in Nat
    BY Numbers DEF ObjectMap
  <2> HIDE DEF e
  <2> QED BY <1>2, <1>3, <2>1, <2>2, <2>3, <2>4 DEF Is
<1>6. \A u \in Object : e[u] = InRoots(r, u)
  OBVIOUS
<1> HIDE DEF e
<1>7. /\ Dropped(o, S) \in ObjectMap /\ Clean(Dropped(o, S))
      /\ \A u \in Object : InFields(Dropped(o, S), u) + e[u] <= Dropped(o, S)[u].rc
  BY <1>4, <1>5, DropKeeps
<1> QED BY <1>1, <1>2, <1>6, <1>7 DEF Counted

\* A variable takes over a reference of an object there is.
LEMMA HpShare ==
  ASSUME Types, Counted(object, root), NEW x \in Root, NEW v \in {Nil} \cup Object,
         HpSet(Incref(object, v), x, v)
  PROVE  Counted(object', root') /\ root' \in [Root -> {Nil} \cup Object]
<1> DEFINE o == Incref(object, v)
<1>1. /\ o \in ObjectMap /\ Clean(o)
      /\ \A u \in Object : /\ o[u].field = object[u].field
                           /\ o[u].rc = object[u].rc + (IF u = v THEN 1 ELSE 0)
  BY IncrefCounts DEF Counted
<1> HIDE DEF o
<1>2. ASSUME NEW u \in Object
      PROVE  InFields(o, u) + InRoots(root, u) + (IF u = v THEN 1 ELSE 0) <= o[u].rc
  <2>1. InFields(o, u) = InFields(object, u)
    BY <1>1, SameFields
  <2>2. InFields(object, u) + InRoots(root, u) <= object[u].rc
    BY DEF Counted
  <2>3. object[u].rc \in Nat
    BY DEF Counted, ObjectMap
  <2> QED BY <1>1, <2>1, <2>2, <2>3, Numbers
<1>3. HpSet(o, x, v)
  BY DEF o
<1> QED BY <1>1, <1>2, <1>3, HpSetKeeps

\* A move on the HP core keeps every reference counted.
LEMMA HpMoves ==
  ASSUME Types, Counted(object, root), NEW x \in Root, NEW y \in Root, HpMove(x, y)
  PROVE  Counted(object', root') /\ root' \in [Root -> {Nil} \cup Object]
<1>1. root[y] \in {Nil} \cup Object
  BY DEF Types
<1>2. HpSet(Incref(object, root[y]), x, root[y])
  BY DEF HpMove
<1> QED BY <1>1, <1>2, HpShare

\* So does a register that becomes nil.
LEMMA HpNils ==
  ASSUME Types, Counted(object, root), NEW r \in Root, HpNil(r)
  PROVE  Counted(object', root') /\ root' \in [Root -> {Nil} \cup Object]
<1>1. HpSet(Incref(object, Nil), r, Nil)
  BY DEF HpNil, Incref
<1> QED BY <1>1, HpShare

\* So does an instance variable that is read.
LEMMA HpGets ==
  ASSUME Types, Counted(object, root), NEW r \in Root, NEW q \in Root, NEW f \in Field,
         HpGetIv(r, q, f)
  PROVE  Counted(object', root') /\ root' \in [Root -> {Nil} \cup Object]
<1> DEFINE v == object[root[q]].field[f]
<1>1. root[q] \in Object
  BY DEF Types, HpGetIv
<1>2. v \in {Nil} \cup Object
  BY <1>1 DEF Counted, ObjectMap
<1>3. HpSet(Incref(object, v), r, v)
  BY DEF HpGetIv
<1> HIDE DEF v
<1> QED BY <1>2, <1>3, HpShare

\* So does a new object.
LEMMA HpNews ==
  ASSUME Types, Counted(object, root), NEW r \in Root, HpNew(r)
  PROVE  Counted(object', root') /\ root' \in [Root -> {Nil} \cup Object]
<1> DEFINE v == Smallest(FreeObjects(object))
           o == [object EXCEPT ![v].rc = 1]
<1>1. v \in Object /\ object[v].rc = 0
  BY SmallestIs, Apart DEF HpNew, FreeObjects
<1>2. HpSet(o, r, v)
  BY DEF HpNew
<1> HIDE DEF v
<1>3. \A u \in Object : object[u] \in [rc : Nat, field : [Field -> {Nil} \cup Object]]
  BY DEF Counted, ObjectMap
<1>4. o \in ObjectMap
  BY <1>1, <1>3 DEF Counted, ObjectMap
<1>5. \A u \in Object : /\ o[u].field = object[u].field
                        /\ o[u].rc = IF u = v THEN 1 ELSE object[u].rc
  BY <1>1, <1>3 DEF Counted, ObjectMap
<1> HIDE DEF o
<1>6. Clean(o)
  BY <1>5 DEF Clean, Counted
<1>7. ASSUME NEW u \in Object
      PROVE  InFields(o, u) + InRoots(root, u) + (IF u = v THEN 1 ELSE 0) <= o[u].rc
  <2>1. InFields(o, u) = InFields(object, u)
    BY <1>5, SameFields
  <2>2. InFields(object, u) + InRoots(root, u) <= object[u].rc
    BY DEF Counted
  <2> QED BY <1>1, <1>3, <1>5, <2>1, <2>2, Numbers
<1> QED BY <1>1, <1>2, <1>4, <1>6, <1>7, HpSetKeeps

\* And an instance variable that is set.
LEMMA HpSets ==
  ASSUME Types, Counted(object, root), NEW q \in Root, NEW r \in Root, NEW f \in Field,
         HpSetIv(q, f, r)
  PROVE  Counted(object', root') /\ root' \in [Root -> {Nil} \cup Object]
<1> DEFINE v == root[r]
           w == root[q]
           o == Incref(object, v)
           p == [o EXCEPT ![w].field[f] = v]
           old == object[w].field[f]
           S == {old}
           e == [u \in Object |-> InRoots(root, u)]
<1>1. v \in {Nil} \cup Object /\ w \in Object
  BY DEF Types, HpSetIv
<1>2. object' = Dropped(p, S) /\ root' = root
  BY DEF HpSetIv
<1>3. /\ o \in ObjectMap /\ Clean(o)
      /\ \A u \in Object : /\ o[u].field = object[u].field
                           /\ o[u].rc = object[u].rc + (IF u = v THEN 1 ELSE 0)
  BY <1>1, IncrefCounts DEF Counted
<1>4. \A u : u \in S <=> u = old
  OBVIOUS
<1> HIDE DEF S, o
<1>5. \A u \in Object : o[u] \in [rc : Nat, field : [Field -> {Nil} \cup Object]]
  BY <1>3 DEF ObjectMap
<1>6. p \in ObjectMap
  BY <1>1, <1>3, <1>5 DEF ObjectMap
<1>7. \A u \in Object : /\ p[u].rc = o[u].rc
                        /\ \A g \in Field :
                             p[u].field[g] = IF u = w /\ g = f THEN v ELSE o[u].field[g]
  BY <1>1, <1>3, <1>5 DEF ObjectMap
<1>8. \A u \in Object : u # w => p[u].field = o[u].field
  BY <1>3 DEF ObjectMap
<1>9. InRoots(root, w) >= 1
  BY RootCounts
<1> HIDE DEF p, v, w
<1>10. Clean(p)
  <2>1. object[w].rc >= 1 /\ object[w].rc \in Nat
    <3>1. InFields(object, w) + InRoots(root, w) <= object[w].rc /\ object[w].rc \in Nat
      BY <1>1 DEF Counted, ObjectMap
    <3> QED BY <1>9, <3>1, Numbers
  <2>2. o[w].rc # 0
    BY <1>1, <1>3, <1>5, <2>1
  <2> QED BY <1>3, <1>7, <1>8, <2>2 DEF Clean
<1>11. e \in [Object -> Nat] /\ \A u \in Object : e[u] = InRoots(root, u)
  BY Numbers
<1> HIDE DEF e
<1>12. ASSUME NEW u \in Object
       PROVE  InFields(p, u) + e[u] + (IF u \in S THEN 1 ELSE 0) <= p[u].rc
  <2>1. InFields(p, u) + Is(o[w].field[f], u) = InFields(o, u) + Is(p[w].field[f], u)
    <3>1. \A k \in Object, g \in Field :
            k # w \/ g # f => o[k].field[g] = p[k].field[g]
      BY <1>7
    <3>2. w \in Object
      BY <1>1
    <3> HIDE DEF old
    <3> QED BY <3>1, <3>2, FieldChange, SMTT(30)
  <2>2. InFields(o, u) = InFields(object, u)
    BY <1>3, SameFields
  <2>3. o[w].field[f] = old /\ p[w].field[f] = v
    BY <1>1, <1>3, <1>7
  <2>4. InFields(object, u) + InRoots(root, u) <= object[u].rc /\ object[u].rc \in Nat
    BY DEF Counted, ObjectMap
  <2> HIDE DEF old
  <2> QED BY <1>3, <1>4, <1>7, <1>11, <2>1, <2>2, <2>3, <2>4, Numbers DEF Is
<1>13. /\ Dropped(p, S) \in ObjectMap /\ Clean(Dropped(p, S))
       /\ \A u \in Object : InFields(Dropped(p, S), u) + e[u] <= Dropped(p, S)[u].rc
  BY <1>6, <1>10, <1>11, <1>12, DropKeeps
<1> QED BY <1>2, <1>11, <1>13 DEF Counted, Types

-----------------------------------------------------------------------------
\* The address table.

\* What an entry of a table is.
LEMMA EntryIs ==
  ASSUME NEW t \in Seq(Entry)
  PROVE  /\ Len(t) \in Nat /\ DOMAIN t = 1 .. Len(t)
         /\ \A i \in DOMAIN t : /\ t[i] \in Entry
                                /\ t[i].copro \in {Nil} \cup Block
                                /\ t[i].main \in {Nil} \cup Object
                                /\ t[i].ty \in {"object", "nil"}
<1>1. Len(t) \in Nat /\ DOMAIN t = 1 .. Len(t) /\ \A i \in DOMAIN t : t[i] \in Entry
  OBVIOUS
<1> QED BY <1>1 DEF Entry

\* The first entry with either address is found, if there is one.
LEMMA LookupIs ==
  ASSUME NEW t \in Seq(Entry), NEW c, NEW m, NEW k, k = Lookup(t, c, m)
  PROVE  /\ k \in Nat
         /\ k = 0 => \A i \in DOMAIN t : t[i].copro # c /\ t[i].main # m
         /\ k # 0 => /\ k \in DOMAIN t /\ (t[k].copro = c \/ t[k].main = m)
                     /\ \A i \in DOMAIN t : t[i].copro = c \/ t[i].main = m => k <= i
<1> DEFINE found == {i \in DOMAIN t : t[i].copro = c \/ t[i].main = m}
<1>1. DOMAIN t = 1 .. Len(t) /\ Len(t) \in Nat
  BY EntryIs
<1>2. CASE found = {}
  BY <1>2 DEF Lookup
<1>3. CASE found # {}
  <2>1. k = Smallest(found)
    BY <1>3 DEF Lookup
  <2>2. found \in SUBSET Nat
    BY <1>1
  <2>3. k \in found /\ \A i \in found : k <= i
    BY <1>3, <2>1, <2>2, SmallestIs
  <2>4. k \in DOMAIN t /\ k # 0
    BY <1>1, <2>3
  <2> QED BY <2>2, <2>3, <2>4
<1> QED BY <1>2, <1>3

\* By the object alone its entry is found.
LEMMA MainIs ==
  ASSUME NEW t \in Seq(Entry), NEW v, NEW k, k = Lookup(t, NONE, v)
  PROVE  /\ k = 0 => ~InTable(t, v)
         /\ k # 0 => k \in DOMAIN t /\ t[k].main = v
<1>1. \A i \in DOMAIN t : t[i].copro # NONE
  BY EntryIs, Apart DEF Address
<1> QED BY <1>1, LookupIs DEF InTable

\* What CopyOf finds in a table with one entry for an object.
LEMMA CopyIs ==
  ASSUME NEW t, NEW o, Entered(t, o), NEW v
  PROVE  /\ \A i \in DOMAIN t : t[i].main = v => CopyOf(t, v) = t[i].copro
         /\ ~InTable(t, v) => CopyOf(t, v) = Nil
         /\ CopyOf(t, v) \in {Nil} \cup Block
<1> DEFINE k == Lookup(t, NONE, v)
<1>1. t \in Seq(Entry)
  BY DEF Entered
<1>2. /\ k = 0 => ~InTable(t, v)
      /\ k # 0 => k \in DOMAIN t /\ t[k].main = v
  BY <1>1, MainIs
<1>3. CopyOf(t, v) = IF k = 0 THEN Nil ELSE t[k].copro
  BY DEF CopyOf
<1> HIDE DEF k
<1>4. CASE k = 0
  BY <1>2, <1>3, <1>4 DEF InTable
<1>5. CASE k # 0
  <2>1. t[k].copro \in {Nil} \cup Block
    BY <1>1, <1>2, <1>5, EntryIs
  <2>2. \A i \in DOMAIN t : t[i].main = v => i = k
    BY <1>2, <1>5 DEF Entered
  <2> QED BY <1>2, <1>3, <1>5, <2>1, <2>2 DEF InTable
<1> QED BY <1>4, <1>5

\* The table u has the entries of t and more, none of them of a copy.
Grown(t, u) ==
  /\ DOMAIN t \subseteq DOMAIN u
  /\ \A i \in DOMAIN t : u[i].copro = t[i].copro /\ u[i].main = t[i].main
  /\ \A i \in DOMAIN u \ DOMAIN t : u[i].copro = Nil

\* A table with one entry more has the entries it had.
LEMMA GrownTables ==
  ASSUME NEW t, NEW u, NEW w
  PROVE  /\ Grown(t, t)
         /\ Grown(t, u) /\ Grown(u, w) => Grown(t, w)
         /\ Grown(t, u) => \A v : InTable(t, v) => InTable(u, v)
<1>1. Grown(t, t)
  BY DEF Grown
<1>2. ASSUME Grown(t, u), Grown(u, w) PROVE Grown(t, w)
  BY <1>2 DEF Grown
<1>3. ASSUME Grown(t, u), NEW v, InTable(t, v) PROVE InTable(u, v)
  BY <1>3 DEF Grown, InTable
<1> QED BY <1>1, <1>2, <1>3

\* What one more entry does, of an object that has none.
LEMMA AppendIs ==
  ASSUME NEW t, NEW o, Entered(t, o), NEW e \in Entry, ~InTable(t, e.main),
         Backed(e, o), NEW u, u = Append(t, e)
  PROVE  /\ Entered(u, o) /\ InTable(u, e.main)
         /\ DOMAIN t \subseteq DOMAIN u
         /\ \A i \in DOMAIN u : u[i] = IF i \in DOMAIN t THEN t[i] ELSE e
<1>1. t \in Seq(Entry) /\ Len(t) \in Nat /\ DOMAIN t = 1 .. Len(t)
  BY EntryIs DEF Entered
<1>2. u \in Seq(Entry) /\ DOMAIN u = 1 .. Len(t) + 1
      /\ \A i \in DOMAIN u : u[i] = IF i = Len(t) + 1 THEN e ELSE t[i]
  BY <1>1
<1>3. DOMAIN t \subseteq DOMAIN u /\ \A i \in DOMAIN u : i \in DOMAIN t <=> i # Len(t) + 1
  BY <1>1, <1>2
<1>4. \A i \in DOMAIN u : u[i] = IF i \in DOMAIN t THEN t[i] ELSE e
  BY <1>2, <1>3
<1>5. InTable(u, e.main)
  BY <1>1, <1>2 DEF InTable
<1>6. ASSUME NEW i \in DOMAIN u, NEW j \in DOMAIN u, u[i].main = u[j].main PROVE i = j
  <2>1. i \in DOMAIN t \/ i = Len(t) + 1
    BY <1>3
  <2>2. j \in DOMAIN t \/ j = Len(t) + 1
    BY <1>3
  <2> QED BY <1>3, <1>4, <1>6, <2>1, <2>2 DEF Entered, InTable
<1>7. \A i \in DOMAIN u : Backed(u[i], o)
  BY <1>4 DEF Entered
<1> QED BY <1>2, <1>3, <1>4, <1>5, <1>6, <1>7 DEF Entered

\* What it does to change an entry, but not of which object it is.
LEMMA ReplaceIs ==
  ASSUME NEW t, NEW o, Entered(t, o), NEW k \in DOMAIN t, NEW e \in Entry,
         e.main = t[k].main, Backed(e, o), NEW u, u = [t EXCEPT ![k] = e]
  PROVE  /\ Entered(u, o) /\ DOMAIN u = DOMAIN t
         /\ \A i \in DOMAIN t : u[i] = IF i = k THEN e ELSE t[i]
         /\ \A v : InTable(t, v) <=> InTable(u, v)
<1>1. t \in Seq(Entry) /\ Len(t) \in Nat /\ DOMAIN t = 1 .. Len(t)
  BY EntryIs DEF Entered
<1>2. u \in Seq(Entry) /\ DOMAIN u = DOMAIN t
      /\ \A i \in DOMAIN t : u[i] = IF i = k THEN e ELSE t[i]
  BY <1>1
<1>3. \A i \in DOMAIN t : u[i].main = t[i].main
  BY <1>2
<1>4. \A v : InTable(t, v) <=> InTable(u, v)
  BY <1>2, <1>3 DEF InTable
<1>5. Entered(u, o)
  BY <1>2, <1>3 DEF Entered
<1> QED BY <1>2, <1>4, <1>5

\* mrbcopro_addrtrans_register_type adds an entry, or changes one in its type.
LEMMA RegisterTypeIs ==
  ASSUME NEW t, NEW o, Entered(t, o), NEW v \in {Nil} \cup Object,
         NEW ty \in {"object", "nil"}, ty = "object" => v \in Object /\ o[v].rc > 0,
         NEW u, u = RegisterType(t, v, ty)
  PROVE  /\ Entered(u, o) /\ Grown(t, u) /\ InTable(u, v)
         /\ \A y : NilIn(u, y) => NilIn(t, y) \/ (y = v /\ ty = "nil")
<1> DEFINE k == Lookup(t, NONE, v)
<1>1. t \in Seq(Entry)
  BY DEF Entered
<1>2. /\ k = 0 => ~InTable(t, v)
      /\ k # 0 => k \in DOMAIN t /\ t[k].main = v
  BY <1>1, MainIs
<1>3. u = IF k # 0 THEN [t EXCEPT ![k].ty = ty]
          ELSE Append(t, [copro |-> Nil, main |-> v, ty |-> ty])
  BY DEF RegisterType
<1> HIDE DEF k
<1>4. CASE k = 0
  <2> DEFINE e == [copro |-> Nil, main |-> v, ty |-> ty]
  <2>1. /\ e \in Entry /\ e.copro = Nil /\ e.main = v /\ e.ty = ty
        /\ Backed(e, o)
    BY DEF Entry, Backed
  <2>2. u = Append(t, e)
    BY <1>3, <1>4
  <2> HIDE DEF e
  <2>3. /\ Entered(u, o) /\ InTable(u, v)
        /\ DOMAIN t \subseteq DOMAIN u
        /\ \A i \in DOMAIN u : u[i] = IF i \in DOMAIN t THEN t[i] ELSE e
    BY <1>2, <1>4, <2>1, <2>2, AppendIs
  <2>4. \A y : NilIn(u, y) => NilIn(t, y) \/ (y = v /\ ty = "nil")
    BY <2>1, <2>3 DEF NilIn
  <2> QED BY <2>1, <2>3, <2>4 DEF Grown
<1>5. CASE k # 0
  <2> DEFINE e == [t[k] EXCEPT !.ty = ty]
  <2>1. k \in DOMAIN t /\ t[k].main = v /\ t[k] \in Entry
    BY <1>1, <1>2, <1>5, EntryIs
  <2>2. e \in Entry /\ e.copro = t[k].copro /\ e.main = t[k].main /\ e.ty = ty
    BY <2>1 DEF Entry
  <2>3. u = [t EXCEPT ![k] = e]
    BY <1>3, <1>5
  <2> HIDE DEF e
  <2>4. /\ Entered(u, o) /\ DOMAIN u = DOMAIN t
        /\ \A i \in DOMAIN t : u[i] = IF i = k THEN e ELSE t[i]
        /\ \A w : InTable(t, w) <=> InTable(u, w)
    <3>1. Backed(e, o)
      BY <2>1, <2>2 DEF Entered, Backed
    <3>2. k \in DOMAIN t /\ e \in Entry /\ e.main = t[k].main
      BY <2>1, <2>2
    <3>3. /\ Entered(u, o) /\ DOMAIN u = DOMAIN t
          /\ \A i \in DOMAIN t : u[i] = IF i = k THEN e ELSE t[i]
      BY <2>3, <3>1, <3>2, ReplaceIs
    <3>4. \A i \in DOMAIN t : u[i].main = t[i].main
      BY <3>2, <3>3
    <3> QED BY <3>3, <3>4 DEF InTable
  <2>5. InTable(u, v)
    BY <2>1, <2>4 DEF InTable
  <2>6. \A y : NilIn(u, y) => NilIn(t, y) \/ (y = v /\ ty = "nil")
    BY <2>1, <2>2, <2>4 DEF NilIn
  <2> QED BY <2>2, <2>4, <2>5, <2>6 DEF Grown
<1> QED BY <1>4, <1>5

-----------------------------------------------------------------------------
\* To the LP core.

\* What is held is alive.
LEMMA HeldAlive ==
  ASSUME NEW o, NEW r, Counted(o, r), NEW w \in Object, NEW f \in Field
  PROVE  o[w].field[f] \in {Nil} \cup Object
         /\ (o[w].field[f] \in Object => o[o[w].field[f]].rc > 0)
<1> DEFINE v == o[w].field[f]
<1>1. v \in {Nil} \cup Object
  BY DEF Counted, ObjectMap
<1>2. InFields(o, v) >= 1
  BY FieldCounts
<1> HIDE DEF v
<1>3. ASSUME v \in Object PROVE o[v].rc > 0
  <2>1. InFields(o, v) + InRoots(r, v) <= o[v].rc /\ o[v].rc \in Nat
    BY <1>3 DEF Counted, ObjectMap
  <2> QED BY <1>2, <2>1, Numbers
<1>4. v \in {Nil} \cup Object /\ (v \in Object => o[v].rc > 0)
  BY <1>1, <1>3
<1> QED BY <1>4 DEF v

\* What a variable holds is alive.
LEMMA RootAlive ==
  ASSUME NEW o, NEW r, Counted(o, r), NEW x \in Root, r[x] \in Object
  PROVE  o[r[x]].rc > 0
<1> DEFINE v == r[x]
<1>1. v \in Object /\ InRoots(r, v) >= 1
  BY RootCounts
<1> HIDE DEF v
<1>2. InFields(o, v) + InRoots(r, v) <= o[v].rc /\ o[v].rc \in Nat
  BY <1>1 DEF Counted, ObjectMap
<1>3. o[v].rc > 0
  BY <1>1, <1>2, Numbers
<1> QED BY <1>3 DEF v

\* An address leads on when the table grows.
LEMMA LeadsOn ==
  ASSUME NEW t, NEW u, NEW G, NEW H, NEW x, Leads(t, G, x), G \subseteq H,
         \A v : InTable(t, v) => InTable(u, v)
  PROVE  Leads(u, H, x)
BY DEF Leads

\* And so do blocks.
LEMMA CarriedOn ==
  ASSUME NEW B, NEW t, NEW G, Carried(B, t, G), NEW u, Entered(u, object), Grown(t, u)
  PROVE  Carried(B, u, G)
<1>1. \A v : InTable(t, v) => InTable(u, v)
  BY GrownTables
<1>2. ASSUME NEW b \in G, NEW f \in Field PROVE Leads(u, G, B[b].word[f])
  BY <1>1, LeadsOn DEF Carried
<1>3. \A i \in DOMAIN u : u[i].copro # Nil => i \in DOMAIN t /\ u[i].copro = t[i].copro
  BY DEF Grown
<1> QED BY <1>2, <1>3 DEF Carried

\* The word for a value leads to it, if its object is in the table afterwards.
LEMMA WordIs ==
  ASSUME NEW B, NEW t, NEW G, G \subseteq Block, Carried(B, t, G),
         NEW v \in {Nil} \cup Object, NEW x, x = Word(t, v)
  PROVE  /\ x \in Address
         /\ x \in Block => x \in G
         /\ x \notin Block => x = v
         /\ x \in Object => ToCopro(t, v) = Nil
<1> DEFINE k == Lookup(t, Nil, v)
           c == IF v = Nil THEN Nil ELSE ToCopro(t, v)
<1>1. t \in Seq(Entry)
  BY DEF Carried, Entered
<1>2. k # 0 => k \in DOMAIN t
  BY <1>1, LookupIs
<1>3. ToCopro(t, v) = IF k = 0 THEN Nil ELSE t[k].copro
  BY DEF ToCopro
<1> HIDE DEF k
<1>4. k # 0 => t[k].copro \in {Nil} \cup G
  BY <1>1, <1>2, EntryIs DEF Carried
<1>5. c \in {Nil} \cup G
  BY <1>3, <1>4
<1>6. x = IF c = Nil THEN v ELSE c
  BY DEF Word
<1>7. v # Nil => c = ToCopro(t, v)
  OBVIOUS
<1> HIDE DEF c
<1> QED BY <1>5, <1>6, <1>7, Apart DEF Address

\* Another word of a block in G leads on.
LEMMA WordPut ==
  ASSUME NEW B, NEW t, NEW G, G \subseteq Block, Carried(B, t, G), NEW b \in G,
         NEW f \in Field,
         NEW x \in Address, Leads(t, G, x), NEW C, C = [B EXCEPT ![b].word[f] = x]
  PROVE  /\ Carried(C, t, G)
         /\ \A a \in Block : C[a].used = B[a].used /\ C[a].frozen = B[a].frozen
         /\ \A a \in Block : a # b => C[a] = B[a]
<1>1. B \in BlockMap /\ b \in Block
  BY DEF Carried
<1>2. \A a \in Block : B[a] \in
        [used : BOOLEAN, frozen : BOOLEAN, word : [Field -> Address]]
  BY <1>1 DEF BlockMap
<1> DEFINE e == [B[b] EXCEPT !.word[f] = x]
<1>3. C = [B EXCEPT ![b] = e]
  BY <1>1 DEF BlockMap
<1>4. /\ e \in [used : BOOLEAN, frozen : BOOLEAN, word : [Field -> Address]]
      /\ e.used = B[b].used /\ e.frozen = B[b].frozen
      /\ \A g \in Field : e.word[g] = IF g = f THEN x ELSE B[b].word[g]
  BY <1>1, <1>2
<1> HIDE DEF e
<1>5. C \in BlockMap /\ \A a \in Block : C[a] = IF a = b THEN e ELSE B[a]
  BY <1>1, <1>3, <1>4 DEF BlockMap
<1>6. \A a \in Block : C[a].used = B[a].used /\ C[a].frozen = B[a].frozen
  BY <1>4, <1>5
<1>7. ASSUME NEW a \in G, NEW g \in Field PROVE Leads(t, G, C[a].word[g])
  <2>1. Leads(t, G, B[a].word[g])
    BY DEF Carried
  <2>2. C[a].word[g] = x \/ C[a].word[g] = B[a].word[g]
    BY <1>4, <1>5
  <2> QED BY <2>1, <2>2
<1>8. \A i \in DOMAIN t : t[i].copro # Nil => t[i].copro \in G /\ C[t[i].copro].frozen
  BY <1>6 DEF Carried
<1> QED BY <1>5, <1>6, <1>7, <1>8 DEF Carried

\* The block b, which was free, becomes e and is had.
TakenUp(B, G, b, e, C, H) ==
  /\ b \in Block /\ ~B[b].used
  /\ e \in [used : BOOLEAN, frozen : BOOLEAN, word : [Field -> Address]]
  /\ e.used /\ e.word = Blank
  /\ C = [B EXCEPT ![b] = e]
  /\ H = G \cup {b}

\* A block that was free is had by the program, with nothing in it.
LEMMA BlockTaken ==
  ASSUME NEW B, NEW t, NEW G, G \subseteq Block, Carried(B, t, G),
         NEW b, NEW e, NEW C, NEW H, TakenUp(B, G, b, e, C, H)
  PROVE  /\ H \subseteq Block /\ Carried(C, t, H) /\ b \notin G /\ C[b] = e
         /\ \A a \in Block : a # b => C[a] = B[a]
<1>0. /\ b \in Block /\ ~B[b].used /\ e.used /\ e.word = Blank
      /\ H = G \cup {b} /\ H \subseteq Block
  BY DEF TakenUp
<1>1. C \in BlockMap /\ \A a \in Block : C[a] = IF a = b THEN e ELSE B[a]
  BY DEF Carried, BlockMap, TakenUp
<1>2. b \notin G
  BY <1>0 DEF Carried
<1>3. ASSUME NEW a \in H, NEW f \in Field
      PROVE  C[a].used /\ Leads(t, H, C[a].word[f])
  <2>1. CASE a = b
    <3>1. C[a] = e /\ e.word[f] = Nil
      BY <2>1, <1>0, <1>1 DEF Blank
    <3> QED BY <1>0, <3>1, Apart DEF Leads
  <2>2. CASE a # b
    <3>1. C[a] = B[a] /\ a \in G
      BY <2>2, <1>0, <1>1
    <3>2. B[a].used /\ Leads(t, G, B[a].word[f])
      BY <3>1 DEF Carried
    <3> QED BY <1>0, <3>1, <3>2 DEF Leads
  <2> QED BY <2>1, <2>2
<1>4. ASSUME NEW a \in H PROVE C[a].used
  BY <1>0, <1>1, <1>2 DEF Carried
<1>5. \A i \in DOMAIN t : t[i].copro # Nil =>
        t[i].copro \in H /\ C[t[i].copro].frozen
  BY <1>0, <1>1, <1>2 DEF Carried
<1> QED BY <1>0, <1>1, <1>2, <1>3, <1>4, <1>5 DEF Carried

\* mrbcopro_objman_to2 gives an object an entry and keeps the others.
LEMMA TypedIs ==
  ASSUME NEW t, Entered(t, object), NEW v \in {Nil} \cup Object,
         v \in Object => object[v].rc > 0, NEW u, u = Typed(t, v)
  PROVE  /\ Entered(u, object) /\ Grown(t, u) /\ (v \in Object => InTable(u, v))
         /\ \A y : NilIn(u, y) => NilIn(t, y)
<1>1. CASE v = Nil
  <2>1. u = t /\ v \notin Object
    BY <1>1, Apart DEF Typed
  <2> QED BY <2>1, GrownTables
<1>2. CASE v # Nil
  <2>1. v \in Object /\ u = RegisterType(t, v, "object")
    BY <1>2 DEF Typed
  <2> QED BY <2>1, RegisterTypeIs
<1> QED BY <1>1, <1>2

\* The blocks and the table.
World == [block : BlockMap, table : Seq(Entry)]

\* The state u is w but for the block b, which is had like those in H now, and for
\* entries of objects that are not copied.
Filled(w, u, H, b) ==
  /\ u \in World
  /\ Carried(u.block, u.table, H)
  /\ Grown(w.table, u.table)
  /\ \A y : NilIn(u.table, y) => NilIn(w.table, y)
  /\ u.block[b].used /\ u.block[b].frozen
  /\ \A a \in Block : a # b => u.block[a] = w.block[a]

\* One instance variable is copied.
LEMMA FieldCopies ==
  ASSUME Counted(object, root), NEW w, NEW H, H \subseteq Block, NEW v \in Object,
         NEW b \in H, NEW f \in Field, NEW s, Filled(w, s, H, b),
         NEW u, u = FieldCopied(s, v, b, f)
  PROVE  Filled(w, u, H, b)
<1> DEFINE x == object[v].field[f]
           t == Typed(s.table, x)
           y == Word(t, x)
<1>1. u.block = [s.block EXCEPT ![b].word[f] = y] /\ u.table = t
  BY DEF FieldCopied
<1>2. x \in {Nil} \cup Object /\ (x \in Object => object[x].rc > 0)
  BY HeldAlive
<1> HIDE DEF x
<1>3. Entered(s.table, object) /\ Carried(s.block, s.table, H)
  BY DEF Filled, Carried
<1>4. /\ Entered(t, object) /\ Grown(s.table, t) /\ (x \in Object => InTable(t, x))
      /\ \A z : NilIn(t, z) => NilIn(s.table, z)
  BY <1>2, <1>3, TypedIs
<1> HIDE DEF t
<1>5. Carried(s.block, t, H)
  BY <1>3, <1>4, CarriedOn
<1>6. y \in Address /\ (y \in Block => y \in H) /\ (y \notin Block => y = x)
  BY <1>2, <1>5, WordIs
<1> HIDE DEF y
<1>7. Leads(t, H, y)
  BY <1>4, <1>6, Apart DEF Leads
<1>8. /\ Carried(u.block, t, H)
      /\ \A a \in Block : u.block[a].used = s.block[a].used
                          /\ u.block[a].frozen = s.block[a].frozen
      /\ \A a \in Block : a # b => u.block[a] = s.block[a]
  BY <1>1, <1>5, <1>6, <1>7, WordPut
<1>9. Grown(w.table, t)
  BY <1>4, GrownTables DEF Filled
<1>10. u \in World
  <2>1. u = [block |-> u.block, table |-> u.table]
    BY DEF FieldCopied
  <2>2. u.block \in BlockMap /\ u.table \in Seq(Entry)
    BY <1>1, <1>8 DEF Carried, Entered
  <2> QED BY <2>1, <2>2 DEF World
<1>11. \A z : NilIn(t, z) => NilIn(w.table, z)
  BY <1>4 DEF Filled
<1> QED BY <1>1, <1>8, <1>9, <1>10, <1>11 DEF Filled

\* The states of the copy of an object.
LEMMA CopiedSteps ==
  ASSUME NEW w, NEW v, NEW b
  PROVE  \E at :
           /\ at[0] = Allocated(w, b)
           /\ \A i \in 1 .. FIELDS : at[i] = FieldCopied(at[i - 1], v, b, i)
           /\ Copied(w, v, b) = at[FIELDS]
<1> DEFINE n == FIELDS
           a == Allocated(w, b)
           F(f, m) == [i \in 0 .. m |->
                        IF i = 0 THEN a ELSE FieldCopied(f[i - 1], v, b, i)]
           T == {m \in 0 .. n : \E f : f = F(f, m)}
           at == CHOOSE f : f = F(f, n)
<1>1. n \in Nat
  BY Finite
<1>2. Copied(w, v, b) = at[n]
  BY DEF Copied, Folded
<1> HIDE DEF a, n, at
<1>3. 0 \in T
  <2> DEFINE g == [i \in 0 .. 0 |-> a]
  <2>1. g = F(g, 0)
    OBVIOUS
  <2>2. 0 \in 0 .. n
    BY <1>1
  <2> QED BY <2>1, <2>2
<1>4. ASSUME NEW m \in 1 .. n, m - 1 \in T PROVE m \in T
  <2>1. PICK f : f = F(f, m - 1)
    BY <1>4
  <2> DEFINE g == [i \in 0 .. m |->
                    IF i = m THEN FieldCopied(f[m - 1], v, b, m) ELSE f[i]]
  <2>2. \A i \in 0 .. m : g[i] = IF i = 0 THEN a ELSE FieldCopied(g[i - 1], v, b, i)
    BY <2>1, <1>1
  <2>3. g = F(g, m)
    BY <2>2
  <2>4. m \in 0 .. n
    BY <1>1
  <2> QED BY <2>3, <2>4
<1>5. n \in T
  <2> HIDE DEF T
  <2> QED BY <1>1, <1>3, <1>4, Climb
<1>6. at = F(at, n)
  BY <1>5 DEF at
<1>7. at[0] = a /\ \A i \in 1 .. n : at[i] = FieldCopied(at[i - 1], v, b, i)
  BY <1>6, <1>1
<1> QED BY <1>1, <1>2, <1>7 DEF a, n

\* A block that is allocated for a copy leads nowhere yet.
LEMMA AllocatedFills ==
  ASSUME NEW w \in World, NEW G, G \subseteq Block, Carried(w.block, w.table, G),
         NEW b \in Block, ~w.block[b].used
  PROVE  Filled(w, Allocated(w, b), G \cup {b}, b) /\ b \notin G
<1> DEFINE H == G \cup {b}
           a == Allocated(w, b)
           e == [used |-> TRUE, frozen |-> TRUE, word |-> Blank]
           B == w.block
           t == w.table
           C == [B EXCEPT ![b] = e]
<1>1. e \in [used : BOOLEAN, frozen : BOOLEAN, word : [Field -> Address]]
      /\ e.used /\ e.frozen /\ e.word = Blank
  BY DEF Blank, Address
<1>2. a.block = C /\ a.table = t
  BY DEF World, a, Allocated
<1>3. Carried(B, t, G) /\ TakenUp(B, G, b, e, C, H)
  BY <1>1 DEF TakenUp
<1> HIDE DEF e, B, t, C, H, a
<1>4. /\ Carried(C, t, H) /\ b \notin G /\ C[b] = e
      /\ \A c \in Block : c # b => C[c] = B[c]
  BY <1>3, BlockTaken
<1>5. Grown(t, t)
  BY GrownTables
<1>6. a \in World
  <2>1. a = [w EXCEPT !.block = C]
    BY DEF C, e, B, a, Allocated
  <2>2. C \in BlockMap
    BY <1>4 DEF Carried
  <2> QED BY <2>1, <2>2 DEF World
<1>7. Filled(w, a, H, b)
  BY <1>1, <1>2, <1>4, <1>5, <1>6 DEF Filled, B, t
<1> QED BY <1>4, <1>7 DEF a, H

\* A copy leads to copies and to objects the table has.
LEMMA CopyFills ==
  ASSUME Counted(object, root), NEW w \in World, NEW G, G \subseteq Block,
         Carried(w.block, w.table, G), NEW v \in Object,
         NEW b \in Block, ~w.block[b].used, NEW u, u = Copied(w, v, b)
  PROVE  Filled(w, u, G \cup {b}, b) /\ b \notin G
<1> DEFINE n == FIELDS
           H == G \cup {b}
           a == Allocated(w, b)
<1>1. PICK at : /\ at[0] = a
                /\ \A i \in 1 .. n : at[i] = FieldCopied(at[i - 1], v, b, i)
                /\ Copied(w, v, b) = at[n]
  BY CopiedSteps
<1> HIDE DEF a, n
<1>2. Filled(w, a, H, b) /\ b \notin G
  BY AllocatedFills DEF a
<1>4. H \subseteq Block /\ b \in H /\ n \in Nat /\ Field = 1 .. n
  BY Finite DEF Field, n
<1> HIDE DEF H
<1> DEFINE T == {i \in 0 .. n : Filled(w, at[i], H, b)}
<1>5. 0 \in T
  BY <1>1, <1>2, <1>4
<1>6. ASSUME NEW i \in 1 .. n, i - 1 \in T PROVE i \in T
  <2>1. /\ Filled(w, at[i - 1], H, b)
        /\ at[i] = FieldCopied(at[i - 1], v, b, i) /\ i \in Field
    BY <1>1, <1>4, <1>6
  <2>2. Filled(w, at[i], H, b)
    BY <2>1, <1>4, FieldCopies
  <2> QED BY <2>2
<1>7. n \in T
  <2> HIDE DEF T
  <2> QED BY <1>4, <1>5, <1>6, Climb
<1> QED BY <1>1, <1>2, <1>7 DEF H

\* The table u is t with e for the entry of its object, or with e as well.
Put(t, o, e, u) ==
  /\ e \in Entry /\ Backed(e, o) /\ (e.ty = "nil" => NilIn(t, e.main))
  /\ \/ ~InTable(t, e.main) /\ u = Append(t, e)
     \/ \E k \in DOMAIN t : t[k].main = e.main /\ u = [t EXCEPT ![k] = e]

\* What that does to the entries.
LEMMA PutIs ==
  ASSUME NEW t, NEW o, Entered(t, o), NEW e, NEW u, Put(t, o, e, u)
  PROVE  /\ Entered(u, o) /\ e \in Entry
         /\ DOMAIN t \subseteq DOMAIN u
         /\ \A i \in DOMAIN u : u[i] = e \/ (i \in DOMAIN t /\ u[i] = t[i])
         /\ \A i \in DOMAIN t : u[i] = t[i] \/ (u[i] = e /\ t[i].main = e.main)
         /\ \E i \in DOMAIN u : u[i] = e
<1>0. e \in Entry /\ Backed(e, o)
  BY DEF Put
<1>1. CASE ~InTable(t, e.main) /\ u = Append(t, e)
  <2>1. /\ Entered(u, o) /\ InTable(u, e.main)
        /\ DOMAIN t \subseteq DOMAIN u
        /\ \A i \in DOMAIN u : u[i] = IF i \in DOMAIN t THEN t[i] ELSE e
    BY <1>0, <1>1, AppendIs
  <2>2. PICK i \in DOMAIN u : u[i].main = e.main
    BY <2>1 DEF InTable
  <2>3. u[i] = e
    BY <1>1, <2>1, <2>2 DEF InTable
  <2>4. \A j \in DOMAIN u : u[j] = e \/ (j \in DOMAIN t /\ u[j] = t[j])
    BY <2>1
  <2>5. \A j \in DOMAIN t : u[j] = t[j]
    BY <2>1
  <2> QED BY <1>0, <2>1, <2>2, <2>3, <2>4, <2>5, Zenon
<1>2. ASSUME NEW k \in DOMAIN t, t[k].main = e.main, u = [t EXCEPT ![k] = e]
      PROVE  /\ Entered(u, o) /\ DOMAIN u = DOMAIN t
             /\ \A i \in DOMAIN t : u[i] = IF i = k THEN e ELSE t[i]
  BY <1>0, <1>2, ReplaceIs
<1>3. CASE \E k \in DOMAIN t : t[k].main = e.main /\ u = [t EXCEPT ![k] = e]
  <2>1. PICK k \in DOMAIN t : t[k].main = e.main /\ u = [t EXCEPT ![k] = e]
    BY <1>3
  <2>2. /\ Entered(u, o) /\ DOMAIN u = DOMAIN t
        /\ \A i \in DOMAIN t : u[i] = IF i = k THEN e ELSE t[i]
    BY <1>2, <2>1
  <2>3. \A j \in DOMAIN t : u[j] = e \/ u[j] = t[j]
    BY <2>2
  <2>4. \A j \in DOMAIN t : u[j] = t[j] \/ (u[j] = e /\ t[j].main = e.main)
    BY <2>1, <2>2
  <2>5. u[k] = e
    BY <2>2
  <2> QED BY <1>0, <2>2, <2>3, <2>4, <2>5, Zenon
<1>4. \/ ~InTable(t, e.main) /\ u = Append(t, e)
      \/ \E k \in DOMAIN t : t[k].main = e.main /\ u = [t EXCEPT ![k] = e]
  BY DEF Put
<1> QED BY <1>1, <1>3, <1>4

\* The table u has the entries of t, for the object v that of the copy b.
Noted(t, u, v, b) ==
  /\ \A y : InTable(t, y) => InTable(u, y)
  /\ \A y : y # v => CopyOf(u, y) = CopyOf(t, y)
  /\ CopyOf(u, v) = b /\ InTable(u, v)

\* Only of one object another copy is known.
LEMMA PutNotes ==
  ASSUME NEW t, NEW o, Entered(t, o), NEW e, NEW u, Put(t, o, e, u)
  PROVE  /\ Noted(t, u, e.main, e.copro)
         /\ \A y : NilIn(u, y) => NilIn(t, y)
<1>1. /\ Entered(u, o) /\ e \in Entry
      /\ DOMAIN t \subseteq DOMAIN u
      /\ \A i \in DOMAIN u : u[i] = e \/ (i \in DOMAIN t /\ u[i] = t[i])
      /\ \A i \in DOMAIN t : u[i] = t[i] \/ (u[i] = e /\ t[i].main = e.main)
      /\ \E i \in DOMAIN u : u[i] = e
  BY PutIs
<1>2. ASSUME NEW y, InTable(t, y) PROVE InTable(u, y)
  BY <1>1, <1>2 DEF InTable
<1>3. ASSUME NEW y, y # e.main PROVE CopyOf(u, y) = CopyOf(t, y)
  <2>1. CASE InTable(t, y)
    <3>1. PICK i \in DOMAIN t : t[i].main = y
      BY <2>1 DEF InTable
    <3>2. i \in DOMAIN u /\ u[i] = t[i]
      BY <1>1, <1>3, <3>1
    <3>3. CopyOf(t, y) = t[i].copro
      BY <3>1, CopyIs
    <3>4. CopyOf(u, y) = u[i].copro
      BY <1>1, <3>1, <3>2, CopyIs
    <3> QED BY <3>2, <3>3, <3>4
  <2>2. CASE ~InTable(t, y)
    <3>1. ~InTable(u, y)
      BY <1>1, <1>3, <2>2 DEF InTable
    <3> QED BY <1>1, <2>2, <3>1, CopyIs
  <2> QED BY <2>1, <2>2
<1>4. CopyOf(u, e.main) = e.copro /\ InTable(u, e.main)
  <2>1. PICK i \in DOMAIN u : u[i] = e
    BY <1>1
  <2>2. CopyOf(u, e.main) = u[i].copro
    BY <1>1, <2>1, CopyIs
  <2> QED BY <2>1, <2>2 DEF InTable
<1>5. ASSUME NEW y, NilIn(u, y) PROVE NilIn(t, y)
  <2>1. PICK i \in DOMAIN u : u[i].main = y /\ u[i].ty = "nil"
    BY <1>5 DEF NilIn
  <2>2. CASE u[i] = e
    BY <2>1, <2>2 DEF Put
  <2>3. CASE i \in DOMAIN t /\ u[i] = t[i]
    BY <2>1, <2>3 DEF NilIn
  <2> QED BY <1>1, <2>2, <2>3
<1> QED BY <1>2, <1>3, <1>4, <1>5 DEF Noted

\* The copy may be one of the blocks that are had.
LEMMA PutCarries ==
  ASSUME NEW B, NEW t, NEW H, H \subseteq Block, Carried(B, t, H),
         NEW e, NEW u, Put(t, object, e, u), e.copro \in H, B[e.copro].frozen
  PROVE  Carried(B, u, H)
<1>1. /\ Entered(u, object) /\ e \in Entry
      /\ \A i \in DOMAIN u : u[i] = e \/ (i \in DOMAIN t /\ u[i] = t[i])
  BY PutIs DEF Carried
<1>2. \A y : InTable(t, y) => InTable(u, y)
  BY PutNotes DEF Carried, Noted
<1>3. ASSUME NEW b \in H, NEW f \in Field PROVE Leads(u, H, B[b].word[f])
  BY <1>2, LeadsOn DEF Carried
<1>4. ASSUME NEW i \in DOMAIN u, u[i].copro # Nil
      PROVE  u[i].copro \in H /\ B[u[i].copro].frozen
  BY <1>1, <1>4 DEF Carried
<1> QED BY <1>1, <1>3, <1>4 DEF Carried
\* No other copy is known by the entries that came in.
LEMMA GrownCopy ==
  ASSUME NEW t, NEW u, NEW o, Entered(t, o), Entered(u, o), Grown(t, u), NEW v
  PROVE  CopyOf(u, v) = CopyOf(t, v)
<1>1. CASE InTable(t, v)
  <2>1. PICK i \in DOMAIN t : t[i].main = v
    BY <1>1 DEF InTable
  <2>2. i \in DOMAIN u /\ u[i].main = v /\ u[i].copro = t[i].copro
    BY <2>1 DEF Grown
  <2> QED BY <2>1, <2>2, CopyIs
<1>2. CASE ~InTable(t, v)
  <2>1. CopyOf(t, v) = Nil
    BY <1>2, CopyIs
  <2>2. CASE InTable(u, v)
    <3>1. PICK i \in DOMAIN u : u[i].main = v
      BY <2>2 DEF InTable
    <3>2. u[i].copro = Nil
      BY <1>2, <3>1 DEF Grown, InTable
    <3> QED BY <2>1, <3>1, <3>2, CopyIs
  <2>3. CASE ~InTable(u, v)
    BY <2>1, <2>3, CopyIs
  <2> QED BY <2>2, <2>3
<1> QED BY <1>1, <1>2

\* The state u is w with the copy b of the object v, which has the entry e.
Copies(w, v, b, e, u) ==
  /\ v \in Object /\ b \in FreeBlocks(w)
  /\ e.copro = b /\ e.main = v
  /\ \E t : /\ Put(Copied(w, v, b).table, object, e, t)
            /\ u = [Copied(w, v, b) EXCEPT !.table = t]

\* What the program has, and the blocks it does not use, when b is a copy of v.
CopyHad(w, u, G, v, b) ==
  /\ u \in World /\ Noted(w.table, u.table, v, b)
  /\ b \in FreeBlocks(w) /\ FreeBlocks(u) = FreeBlocks(w) \ {b}
  /\ Carried(u.block, u.table, G \cup {b})
  /\ \A y : NilIn(u.table, y) => NilIn(w.table, y)

\* An object that is copied is had by the program.
LEMMA CopyCarries ==
  ASSUME Counted(object, root), NEW w \in World, NEW G, G \subseteq Block,
         Carried(w.block, w.table, G), NEW v, NEW b, NEW e, NEW u, Copies(w, v, b, e, u)
  PROVE  CopyHad(w, u, G, v, b)
<1> DEFINE c == Copied(w, v, b)
           H == G \cup {b}
<1>1. /\ v \in Object /\ b \in Block /\ ~w.block[b].used /\ b \in FreeBlocks(w)
      /\ e.copro = b /\ e.main = v
  BY DEF Copies, FreeBlocks
<1>2. PICK t : Put(c.table, object, e, t) /\ u = [c EXCEPT !.table = t]
  BY DEF Copies
<1>3. Filled(w, c, H, b)
  BY <1>1, CopyFills
<1>4. H \subseteq Block /\ b \in H
  BY <1>1
<1> HIDE DEF c, H
<1>5. c \in World /\ Carried(c.block, c.table, H) /\ c.block[b].frozen
  BY <1>3 DEF Filled
<1>6. Carried(c.block, t, H)
  BY <1>1, <1>2, <1>4, <1>5, PutCarries
<1>7. u \in World /\ u.block = c.block /\ u.table = t
  <2>1. t \in Seq(Entry)
    BY <1>6 DEF Carried, Entered
  <2> QED BY <1>2, <1>5, <2>1 DEF World
<1>8. Entered(w.table, object) /\ Entered(c.table, object) /\ Grown(w.table, c.table)
  BY <1>3, <1>5 DEF Carried, Filled
<1>9. Noted(c.table, t, v, b)
  BY <1>1, <1>2, <1>8, PutNotes
<1>10. Noted(w.table, t, v, b)
  <2>1. \A y : InTable(w.table, y) => InTable(c.table, y)
    BY <1>8, GrownTables
  <2>2. \A y : CopyOf(c.table, y) = CopyOf(w.table, y)
    BY <1>8, GrownCopy
  <2> QED BY <1>9, <2>1, <2>2 DEF Noted
<1>11. FreeBlocks(u) = FreeBlocks(w) \ {b}
  <2>1. \A a \in Block : ~u.block[a].used <=> (~w.block[a].used /\ a # b)
    BY <1>3, <1>7 DEF Filled
  <2> QED BY <2>1 DEF FreeBlocks
<1>12. \A y : NilIn(u.table, y) => NilIn(w.table, y)
  <2>1. \A y : NilIn(t, y) => NilIn(c.table, y)
    BY <1>2, <1>8, PutNotes
  <2> QED BY <1>3, <1>7, <2>1 DEF Filled
<1> QED BY <1>1, <1>6, <1>7, <1>10, <1>11, <1>12 DEF CopyHad, H
\* A copy that is known is had by the program.
LEMMA CopyOfHad ==
  ASSUME NEW B, NEW t, NEW G, Carried(B, t, G), NEW v, CopyOf(t, v) # Nil
  PROVE  CopyOf(t, v) \in G
<1>1. Entered(t, object)
  BY DEF Carried
<1>2. PICK i \in DOMAIN t : t[i].main = v
  BY <1>1, CopyIs DEF InTable
<1>3. CopyOf(t, v) = t[i].copro
  BY <1>1, <1>2, CopyIs
<1> QED BY <1>2, <1>3 DEF Carried

\* The word of an object that has no copy is answered with a new one.
LEMMA ServedCopies ==
  ASSUME Counted(object, root), NEW w \in World, NEW G, G \subseteq Block,
         Carried(w.block, w.table, G), NEW v \in Object, InTable(w.table, v),
         object[v].rc > 0, CopyOf(w.table, v) = Nil, FreeBlocks(w) # {},
         NEW u, u = Served(w, v)
  PROVE  \E b, e : Copies(w, v, b, e, u)
<1> DEFINE b == Smallest(FreeBlocks(w))
           c == Copied(w, v, b)
           k == Lookup(w.table, NONE, v)
           e == [c.table[k] EXCEPT !.copro = b]
           t == [c.table EXCEPT ![k] = e]
<1>1. b \in FreeBlocks(w)
  <2>1. FreeBlocks(w) # {} /\ FreeBlocks(w) \in SUBSET Nat
    BY Apart DEF FreeBlocks
  <2> QED BY <2>1, SmallestIs
<1>2. b \in Block /\ ~w.block[b].used
  BY <1>1 DEF FreeBlocks
<1>3. u = [c EXCEPT !.table[k].copro = b]
  BY DEF Served
<1> HIDE DEF b
<1>4. Filled(w, c, G \cup {b}, b)
  BY <1>2, CopyFills
<1>5. k \in DOMAIN w.table /\ w.table[k].main = v
  <2>1. w.table \in Seq(Entry)
    BY DEF Carried, Entered
  <2> QED BY <2>1, MainIs
<1>6. c \in World /\ Entered(c.table, object)
  BY <1>4 DEF Filled, Carried
<1>7. k \in DOMAIN c.table /\ c.table[k].main = v
  BY <1>4, <1>5 DEF Filled, Grown
<1>8. c.table[k] \in Entry
  BY <1>6, <1>7, EntryIs DEF Entered
<1> HIDE DEF c, k
<1>9. e \in Entry /\ e.copro = b /\ e.main = v /\ Backed(e, object)
  BY <1>2, <1>7, <1>8 DEF Entry, Backed
<1>10. u = [c EXCEPT !.table = t]
  BY <1>3, <1>6, <1>7 DEF World
<1> HIDE DEF e
<1>11. Put(c.table, object, e, t)
  <2>1. e.ty = "nil" => NilIn(c.table, v)
    BY <1>7, <1>8 DEF NilIn, e, Entry
  <2> QED BY <1>7, <1>9, <2>1 DEF Put
<1> HIDE DEF t
<1>12. Copies(w, v, b, e, u)
  BY <1>1, <1>9, <1>10, <1>11 DEF Copies, c
<1> QED BY <1>12

\* The word of an object is answered with a copy.
LEMMA ServedIs ==
  ASSUME Counted(object, root), NEW w \in World, NEW G, G \subseteq Block,
         Carried(w.block, w.table, G), NEW v \in Object, InTable(w.table, v),
         CopyOf(w.table, v) = Nil => object[v].rc > 0 /\ FreeBlocks(w) # {},
         NEW u, u = Served(w, v)
  PROVE  \E H \in SUBSET Block :
           /\ G \subseteq H /\ Carried(u.block, u.table, H)
           /\ \A y : InTable(w.table, y) => InTable(u.table, y)
           /\ CopyOf(u.table, v) \in H
           /\ \A y : NilIn(u.table, y) => NilIn(w.table, y)
<1>1. CASE CopyOf(w.table, v) # Nil
  <2>1. u = w
    BY <1>1 DEF Served
  <2>2. CopyOf(w.table, v) \in G
    BY <1>1, CopyOfHad
  <2> QED BY <2>1, <2>2
<1>2. CASE CopyOf(w.table, v) = Nil
  <2>1. PICK b, e : Copies(w, v, b, e, u)
    BY <1>2, ServedCopies
  <2>2. CopyHad(w, u, G, v, b) /\ b \in Block
    BY <2>1, CopyCarries DEF Copies, FreeBlocks
  <2> QED BY <2>2 DEF CopyHad, Noted
<1> QED BY <1>1, <1>2

\* The objects in registers that have no copy yet.
Unsent(t) == {v \in {root[r] : r \in Reg} \ {Nil} : CopyOf(t, v) = Nil}

\* There is memory for the copies of all of them.
Sendable(w, G) ==
  /\ w \in World /\ G \subseteq Block /\ Carried(w.block, w.table, G)
  /\ \A y : ~NilIn(w.table, y)
  /\ Cardinality(Unsent(w.table)) <= Cardinality(FreeBlocks(w))

\* One of them has a copy more.
LEMMA Sends ==
  ASSUME Types, NEW w, NEW u, NEW G, Sendable(w, G), NEW b, NEW v \in Unsent(w.table),
         CopyHad(w, u, G, v, b)
  PROVE  Sendable(u, G \cup {b})
<1> DEFINE A == Unsent(w.table)
           B == FreeBlocks(w)
<1>1. A \subseteq Object
  BY DEF Unsent, Types, Root
<1>2. IsFiniteSet(A) /\ IsFiniteSet(B) /\ b \in B /\ b \in Block
  BY <1>1, Finite, FS_Subset DEF FreeBlocks, CopyHad
<1>3. Unsent(u.table) = A \ {v}
  <2>1. \A y \in Object : CopyOf(u.table, y) = Nil <=> (CopyOf(w.table, y) = Nil /\ y # v)
    BY <1>2, Apart DEF CopyHad, Noted
  <2> QED BY <1>1, <2>1 DEF Unsent, Types, Root
<1>4. FreeBlocks(u) = B \ {b}
  BY DEF CopyHad
<1> HIDE DEF A, B
<1>5. Cardinality(A \ {v}) = Cardinality(A) - 1
  BY <1>2, FS_RemoveElement DEF A
<1>6. Cardinality(B \ {b}) = Cardinality(B) - 1
  BY <1>2, FS_RemoveElement
<1>7. Cardinality(A) <= Cardinality(B) /\ Cardinality(A) \in Nat /\ Cardinality(B) \in Nat
  BY <1>2, FS_CardinalityType DEF Sendable, A, B
<1>8. Cardinality(A \ {v}) <= Cardinality(B \ {b})
  BY <1>5, <1>6, <1>7
<1>9. u \in World /\ Carried(u.block, u.table, G \cup {b})
  BY DEF CopyHad
<1>10. G \cup {b} \subseteq Block
  BY <1>2 DEF Sendable
<1>11. Cardinality(Unsent(u.table)) <= Cardinality(FreeBlocks(u))
  BY <1>3, <1>4, <1>8
<1>12. \A y : ~NilIn(u.table, y)
  BY DEF CopyHad, Sendable
<1> QED BY <1>9, <1>10, <1>11, <1>12 DEF Sendable

\* No entry is of a block that is not used.
LEMMA NoEntry ==
  ASSUME NEW w, NEW G, G \subseteq Block, Carried(w.block, w.table, G), NEW u,
         Grown(w.table, u), NEW b \in Block, ~w.block[b].used
  PROVE  \A i \in DOMAIN u : u[i].copro # b
<1>1. b \notin G /\ b # Nil
  BY Apart DEF Carried
<1>2. ASSUME NEW i \in DOMAIN u PROVE u[i].copro # b
  <2>1. CASE i \in DOMAIN w.table
    BY <1>1, <2>1 DEF Grown, Carried
  <2>2. CASE i \notin DOMAIN w.table
    BY <1>1, <2>2 DEF Grown
  <2> QED BY <2>1, <2>2
<1> QED BY <1>2

\* The object in a register that has no copy gets one.
LEMMA WithCopyCopies ==
  ASSUME Types, Counted(object, root), NEW w, NEW G, Sendable(w, G), NEW r \in Reg,
         root[r] # Nil, CopyOf(w.table, root[r]) = Nil
  PROVE  /\ root[r] \in Unsent(w.table)
         /\ \E b, e : Copies(w, root[r], b, e, WithCopy(w, r))
<1> DEFINE v == root[r]
           b == Smallest(FreeBlocks(w))
           c == Copied(w, v, b)
           e == [copro |-> b, main |-> v, ty |-> "object"]
           t == Register(c.table, b, v, "object")
           u == [c EXCEPT !.table = t]
<1>1. v \in Object /\ v \in Unsent(w.table) /\ object[v].rc > 0
  <2>1. v \in Object
    BY Apart DEF Types
  <2>2. v \in Unsent(w.table)
    BY DEF Unsent
  <2> QED BY <2>1, <2>2, RootAlive, Apart
<1>2. FreeBlocks(w) # {}
  <2>1. Unsent(w.table) \subseteq Object
    BY DEF Unsent, Types, Root
  <2>2. Cardinality(Unsent(w.table)) \in Nat /\ Cardinality(Unsent(w.table)) >= 1
    BY <1>1, <2>1, Finite, Counts
  <2> QED BY <2>2, FS_EmptySet DEF Sendable
<1>3. b \in FreeBlocks(w)
  <2>1. FreeBlocks(w) \in SUBSET Nat
    BY Apart DEF FreeBlocks
  <2> QED BY <1>2, <2>1, SmallestIs
<1>4. b \in Block /\ ~w.block[b].used
  BY <1>3 DEF FreeBlocks
<1>5. WithCopy(w, r) = u
  BY DEF WithCopy
<1> HIDE DEF b, v
<1>6. Filled(w, c, G \cup {b}, b)
  BY <1>1, <1>4, CopyFills DEF Sendable
<1> HIDE DEF c
<1>7. Entered(c.table, object) /\ Grown(w.table, c.table)
  BY <1>6 DEF Filled, Carried
<1>8. \A i \in DOMAIN c.table : c.table[i].copro # b
  BY <1>4, <1>7, NoEntry DEF Sendable
<1>9. e \in Entry /\ e.copro = b /\ e.main = v /\ Backed(e, object)
  BY <1>1, <1>4 DEF Entry, Backed
<1>10. Put(c.table, object, e, t)
  <2> DEFINE k == Lookup(c.table, b, v)
  <2>1. t = IF k # 0 THEN [c.table EXCEPT ![k] = e] ELSE Append(c.table, e)
    BY DEF Register
  <2>2. c.table \in Seq(Entry)
    BY <1>7 DEF Entered
  <2>3. /\ k = 0 => ~InTable(c.table, v)
        /\ k # 0 => k \in DOMAIN c.table /\ c.table[k].main = v
    BY <1>8, <2>2, LookupIs DEF InTable
  <2>4. e.ty = "object"
    OBVIOUS
  <2> HIDE DEF k, e
  <2> QED BY <1>1, <1>9, <2>1, <2>3, <2>4 DEF Put
<1> HIDE DEF e, t
<1>11. Copies(w, v, b, e, u)
  BY <1>1, <1>3, <1>9, <1>10 DEF Copies, c
<1> HIDE DEF u
<1> QED BY <1>1, <1>5, <1>11 DEF v

\* The object in a register is copied.
LEMMA WithCopyIs ==
  ASSUME Types, Counted(object, root), NEW w, NEW G, Sendable(w, G), NEW r \in Reg
  PROVE  \E H : Sendable(WithCopy(w, r), H)
<1> DEFINE v == root[r]
           u == WithCopy(w, r)
<1>1. CASE v = Nil \/ CopyOf(w.table, v) # Nil
  <2>1. WithCopy(w, r) = w
    BY <1>1 DEF WithCopy
  <2> QED BY <2>1
<1>2. CASE ~ (v = Nil \/ CopyOf(w.table, v) # Nil)
  <2>1. v \in Unsent(w.table) /\ \E b, e : Copies(w, v, b, e, u)
    BY <1>2, WithCopyCopies
  <2> HIDE DEF v, u
  <2>2. PICK b, e : Copies(w, v, b, e, u)
    BY <2>1
  <2>3. CopyHad(w, u, G, v, b)
    BY <2>2, CopyCarries DEF Sendable
  <2>4. Sendable(u, G \cup {b})
    BY <2>1, <2>3, Sends
  <2> QED BY <2>4 DEF u
<1> QED BY <1>1, <1>2
-----------------------------------------------------------------------------
\* A run starts.

\* The states when the registers are sent.
LEMMA RegsSteps ==
  \E at : /\ at[0] = Sent
          /\ \A i \in 1 .. REGS : at[i] = WithCopy(at[i - 1], i)
          /\ Folded(WithCopy, Sent, REGS) = at[REGS]
<1> DEFINE n == REGS
           a == Sent
           F(f, m) == [i \in 0 .. m |-> IF i = 0 THEN a ELSE WithCopy(f[i - 1], i)]
           T == {m \in 0 .. n : \E f : f = F(f, m)}
           at == CHOOSE f : f = F(f, n)
<1>1. n \in Nat
  BY Finite
<1>2. Folded(WithCopy, Sent, REGS) = at[n]
  BY DEF Folded
<1> HIDE DEF a, n, at
<1>3. 0 \in T
  <2> DEFINE g == [i \in 0 .. 0 |-> a]
  <2>1. g = F(g, 0)
    OBVIOUS
  <2>2. 0 \in 0 .. n
    BY <1>1
  <2> QED BY <2>1, <2>2
<1>4. ASSUME NEW m \in 1 .. n, m - 1 \in T PROVE m \in T
  <2>1. PICK f : f = F(f, m - 1)
    BY <1>4
  <2> DEFINE g == [i \in 0 .. m |-> IF i = m THEN WithCopy(f[m - 1], m) ELSE f[i]]
  <2>2. \A i \in 0 .. m : g[i] = IF i = 0 THEN a ELSE WithCopy(g[i - 1], i)
    BY <2>1, <1>1
  <2>3. g = F(g, m)
    BY <2>2
  <2>4. m \in 0 .. n
    BY <1>1
  <2> QED BY <2>3, <2>4
<1>5. n \in T
  <2> HIDE DEF T
  <2> QED BY <1>1, <1>3, <1>4, Climb
<1>6. at = F(at, n)
  BY <1>5 DEF at
<1>7. at[0] = a /\ \A i \in 1 .. n : at[i] = WithCopy(at[i - 1], i)
  BY <1>6, <1>1
<1> QED BY <1>1, <1>2, <1>7 DEF a, n

\* The tables when the global variables are.
LEMMA GlobalsSteps ==
  ASSUME NEW t, NEW p, NEW at, at = GlobalsSent(t, p)
  PROVE  /\ at[0] = t
         /\ \A i \in 1 .. GLOBALS : at[i] = GlobalSent(at[i - 1], REGS + i, p[REGS + i])
<1> DEFINE n == GLOBALS
           F(f, m) == [i \in 0 .. m |->
                         IF i = 0 THEN t ELSE GlobalSent(f[i - 1], REGS + i, p[REGS + i])]
           T == {m \in 0 .. n : \E f : f = F(f, m)}
           ch == CHOOSE f : f = F(f, n)
<1>1. n \in Nat
  BY Finite
<1>2. at = ch
  BY DEF GlobalsSent
<1> HIDE DEF n, ch
<1>3. 0 \in T
  <2> DEFINE g == [i \in 0 .. 0 |-> t]
  <2>1. g = F(g, 0)
    OBVIOUS
  <2>2. 0 \in 0 .. n
    BY <1>1
  <2> QED BY <2>1, <2>2
<1>4. ASSUME NEW m \in 1 .. n, m - 1 \in T PROVE m \in T
  <2>1. PICK f : f = F(f, m - 1)
    BY <1>4
  <2> DEFINE g == [i \in 0 .. m |->
                     IF i = m THEN GlobalSent(f[m - 1], REGS + m, p[REGS + m]) ELSE f[i]]
  <2>2. \A i \in 0 .. m :
          g[i] = IF i = 0 THEN t ELSE GlobalSent(g[i - 1], REGS + i, p[REGS + i])
    BY <2>1, <1>1
  <2>3. g = F(g, m)
    BY <2>2
  <2>4. m \in 0 .. n
    BY <1>1
  <2> QED BY <2>3, <2>4
<1>5. n \in T
  <2> HIDE DEF T
  <2> QED BY <1>1, <1>3, <1>4, Climb
<1>6. ch = F(ch, n)
  BY <1>5 DEF ch
<1>7. ch[0] = t
      /\ \A i \in 1 .. n : ch[i] = GlobalSent(ch[i - 1], REGS + i, p[REGS + i])
  BY <1>6, <1>1
<1> QED BY <1>1, <1>2, <1>7 DEF n

\* Before anything is sent there is room for all the copies.
LEMMA SentSendable ==
  ASSUME IInv, core = "hp",
         Cardinality(FreeBlocks(Sent)) >= Cardinality({root[r] : r \in Reg} \ {Nil})
  PROVE  Sendable(Sent, {}) /\ table = <<>>
<1>0. Types /\ Counted(object, root) /\ table = <<>> /\ block \in BlockMap
  BY DEF IInv, Types
<1> DEFINE A == {root[r] : r \in Reg} \ {Nil}
<1>1. Entered(<<>>, object)
  BY DEF Entered
<1>2. Carried(block, <<>>, {})
  BY <1>0, <1>1 DEF Carried
<1>3. Sent \in World /\ Sent.block = block /\ Sent.table = <<>>
  BY <1>0, <1>1 DEF World, Sent, Entered
<1>4. A \subseteq Object
  BY <1>0 DEF Types, Root
<1>5. IsFiniteSet(A) /\ Unsent(<<>>) \subseteq A
  BY <1>4, Finite, FS_Subset DEF Unsent
<1> HIDE DEF A
<1>6. /\ Cardinality(Unsent(<<>>)) <= Cardinality(A)
      /\ Cardinality(Unsent(<<>>)) \in Nat /\ Cardinality(A) \in Nat
  BY <1>5, FS_Subset, FS_CardinalityType
<1>7. Cardinality(FreeBlocks(Sent)) \in Nat
  BY Finite, FS_Subset, FS_CardinalityType DEF FreeBlocks
<1>8. Cardinality(FreeBlocks(Sent)) >= Cardinality(A)
  BY DEF A
<1>9. Cardinality(Unsent(Sent.table)) <= Cardinality(FreeBlocks(Sent))
  BY <1>3, <1>6, <1>7, <1>8
<1>10. \A y : ~NilIn(<<>>, y)
  BY DEF NilIn
<1> QED BY <1>0, <1>2, <1>3, <1>9, <1>10 DEF Sendable

\* The registers are sent: their objects are copied.
LEMMA RegsSent ==
  ASSUME IInv, core = "hp",
         Cardinality(FreeBlocks(Sent)) >= Cardinality({root[r] : r \in Reg} \ {Nil})
  PROVE  \E G : Sendable(Folded(WithCopy, Sent, REGS), G)
<1>0. Types /\ Counted(object, root)
  BY DEF IInv
<1>1. PICK at : /\ at[0] = Sent
                /\ \A i \in 1 .. REGS : at[i] = WithCopy(at[i - 1], i)
                /\ Folded(WithCopy, Sent, REGS) = at[REGS]
  BY RegsSteps
<1>2. Sendable(Sent, {})
  BY SentSendable
<1> DEFINE T == {i \in 0 .. REGS : \E G : Sendable(at[i], G)}
<1>3. REGS \in Nat /\ Reg = 1 .. REGS
  BY Finite DEF Reg
<1>4. 0 \in T
  BY <1>1, <1>2, <1>3
<1>5. ASSUME NEW i \in 1 .. REGS, i - 1 \in T PROVE i \in T
  <2>1. PICK G : Sendable(at[i - 1], G)
    BY <1>5
  <2>2. \E H : Sendable(WithCopy(at[i - 1], i), H)
    BY <1>0, <1>3, <2>1, WithCopyIs
  <2> QED BY <1>1, <1>3, <2>2
<1>6. REGS \in T
  <2> HIDE DEF T
  <2> QED BY <1>3, <1>4, <1>5, Climb
<1> QED BY <1>1, <1>6
\* The global variables are sent: the table has their objects.
LEMMA GlobalSentIs ==
  ASSUME NEW B, NEW t, NEW G, G \subseteq Block, Carried(B, t, G), NEW g,
         NEW p \in {Nil} \cup Object, root[g] # Nil => p \in Object /\ object[p].rc > 0,
         NEW u, u = GlobalSent(t, g, p)
  PROVE  /\ Carried(B, u, G) /\ Grown(t, u)
         /\ Word(t, p) \in Address /\ Leads(u, G, Word(t, p))
         /\ \A y : NilIn(u, y) => NilIn(t, y) \/ (y = p /\ root[g] = Nil)
<1>1. Entered(t, object)
  BY DEF Carried
<1>2. /\ Word(t, p) \in Address
      /\ Word(t, p) \in Block => Word(t, p) \in G
      /\ Word(t, p) \notin Block => Word(t, p) = p
      /\ Word(t, p) \in Object => ToCopro(t, p) = Nil
  BY WordIs
<1>3. CASE ToCopro(t, p) # Nil
  <2>1. u = t
    BY <1>3 DEF GlobalSent
  <2>2. Word(t, p) \notin Object
    BY <1>2, <1>3, Apart
  <2> QED BY <1>2, <2>1, <2>2, GrownTables DEF Leads
<1>4. CASE ToCopro(t, p) = Nil
  <2> DEFINE ty == IF root[g] = Nil THEN "nil" ELSE "object"
  <2>1. u = RegisterType(t, p, ty)
    BY <1>4 DEF GlobalSent
  <2>3. /\ ty \in {"object", "nil"} /\ (ty = "nil" => root[g] = Nil)
        /\ ty = "object" => p \in Object /\ object[p].rc > 0
    OBVIOUS
  <2> HIDE DEF ty
  <2>4. /\ Entered(u, object) /\ Grown(t, u) /\ InTable(u, p)
        /\ \A y : NilIn(u, y) => NilIn(t, y) \/ (y = p /\ ty = "nil")
    BY <1>1, <2>1, <2>3, RegisterTypeIs
  <2>5. Carried(B, u, G)
    BY <2>4, CarriedOn
  <2>6. Word(t, p) \in Object => Word(t, p) = p
    BY <1>2, Apart
  <2> QED BY <1>2, <2>3, <2>4, <2>5, <2>6 DEF Leads
<1> QED BY <1>3, <1>4

\* The state of the LP core holds from the state in which an action leaves it.
LEMMA Arrived ==
  ASSUME UNCHANGED object, NEW G \in SUBSET Block, Carried(block', table', G),
         \A x \in Root : Leads(table', G, cell'[x]), \A r \in Reg : cell'[r] \notin Object,
         \A v : NilIn(table', v) => v \in {Nil} \cup Stale'
  PROVE  (\E H \in SUBSET Block : OnLpCore(H))'
<1>1. Carried(block, table, G)'
  BY DEF Carried
<1>2. OnLpCore(G)'
  BY <1>1 DEF OnLpCore
<1> QED BY <1>2

\* The payload of a variable that holds an object is that object.
LEMMA PayloadIs ==
  ASSUME Counted(object, root), NEW g \in Global, NEW p \in {Nil} \cup Object,
         p \in Payload(g)
  PROVE  root[g] # Nil => p = root[g] /\ p \in Object /\ object[p].rc > 0
<1>1. g \in Root
  BY Apart
<1>2. CASE root[g] # Nil
  <2>1. p = root[g]
    BY <1>2 DEF Payload
  <2> QED BY <1>1, <1>2, <2>1, RootAlive
<1> QED BY <1>2

\* Each global variable has a word that leads to its object.
LEMMA GlobalsAreSent ==
  ASSUME Counted(object, root), NEW B, NEW t,
         NEW G, G \subseteq Block, Carried(B, t, G),
         NEW p \in [Global -> {Nil} \cup Object], \A g \in Global : p[g] \in Payload(g),
         NEW at, at = GlobalsSent(t, p)
  PROVE  /\ Carried(B, at[GLOBALS], G)
         /\ Grown(t, at[GLOBALS])
         /\ \A i \in 1 .. GLOBALS :
              /\ Word(at[i - 1], p[REGS + i]) \in Address
              /\ Leads(at[GLOBALS], G, Word(at[i - 1], p[REGS + i]))
         /\ \A y : NilIn(at[GLOBALS], y) =>
              NilIn(t, y) \/ \E g \in Global : y = p[g] /\ root[g] = Nil
<1> DEFINE n == GLOBALS
           W(i) == Word(at[i - 1], p[REGS + i])
           N(y) == NilIn(t, y) \/ \E g \in Global : y = p[g] /\ root[g] = Nil
<1>1. at[0] = t /\ \A i \in 1 .. n : at[i] = GlobalSent(at[i - 1], REGS + i, p[REGS + i])
  BY GlobalsSteps
<1>2. n \in Nat /\ \A i \in 1 .. n : REGS + i \in Global
  BY Finite DEF Global
<1>3. ASSUME NEW g \in Global
      PROVE  /\ p[g] \in {Nil} \cup Object
             /\ root[g] # Nil => p[g] \in Object /\ object[p[g]].rc > 0
  BY PayloadIs
<1> DEFINE T == {i \in 0 .. n :
                   /\ Carried(B, at[i], G) /\ Grown(t, at[i])
                   /\ \A j \in 1 .. i : W(j) \in Address /\ Leads(at[i], G, W(j))
                   /\ \A y : NilIn(at[i], y) => N(y)}
<1> HIDE DEF W
<1>4. 0 \in T
  BY <1>1, <1>2, GrownTables
<1>5. ASSUME NEW i \in 1 .. n, i - 1 \in T PROVE i \in T
  <2> DEFINE q == p[REGS + i]
             a == at[i - 1]
  <2>1. /\ Carried(B, a, G) /\ Grown(t, a)
        /\ \A j \in 1 .. i - 1 : W(j) \in Address /\ Leads(a, G, W(j))
        /\ \A y : NilIn(a, y) => N(y)
    BY <1>5
  <2>2. at[i] = GlobalSent(a, REGS + i, q) /\ REGS + i \in Global
    BY <1>1, <1>2
  <2>3. /\ q \in {Nil} \cup Object
        /\ root[REGS + i] # Nil => q \in Object /\ object[q].rc > 0
    BY <1>3, <2>2
  <2>4. W(i) = Word(a, q)
    BY DEF W
  <2> HIDE DEF q, a
  <2>5. /\ Carried(B, at[i], G) /\ Grown(a, at[i])
        /\ Word(a, q) \in Address /\ Leads(at[i], G, Word(a, q))
        /\ \A y : NilIn(at[i], y) => NilIn(a, y) \/ (y = q /\ root[REGS + i] = Nil)
    BY <2>1, <2>2, <2>3, GlobalSentIs
  <2>6. Grown(t, at[i]) /\ \A v : InTable(a, v) => InTable(at[i], v)
    BY <2>1, <2>5, GrownTables
  <2>7. ASSUME NEW j \in 1 .. i PROVE W(j) \in Address /\ Leads(at[i], G, W(j))
    <3>1. CASE j = i
      BY <3>1, <2>4, <2>5
    <3>2. CASE j # i
      <4>1. j \in 1 .. i - 1
        BY <1>2, <3>2
      <4>2. W(j) \in Address /\ Leads(a, G, W(j))
        BY <2>1, <4>1
      <4> QED BY <2>6, <4>2, LeadsOn
    <3> QED BY <3>1, <3>2
  <2>8. \A y : NilIn(at[i], y) => N(y)
    BY <2>1, <2>2, <2>5 DEF q
  <2> HIDE DEF N
  <2> QED BY <1>2, <2>5, <2>6, <2>7, <2>8
<1>6. n \in T
  <2> HIDE DEF T
  <2> QED BY <1>2, <1>4, <1>5, Climb
<1> QED BY <1>6 DEF W

\* execute_on_ulp starts the LP core.
LEMMA EnterKeeps ==
  ASSUME IInv, Enter
  PROVE  IInv'
<1> DEFINE w == Folded(WithCopy, Sent, REGS)
<1>0. Types /\ Counted(object, root)
  BY DEF IInv
<1>1. /\ core = "hp" /\ core' = "lp"
      /\ Cardinality(FreeBlocks(Sent)) >= Cardinality({root[r] : r \in Reg} \ {Nil})
      /\ block' = w.block
      /\ root' = root /\ object' = object
  BY DEF Enter
<1>2. PICK p \in [Global -> {Nil} \cup Object] :
        /\ \A g \in Global : p[g] \in Payload(g)
        /\ payload' = p
        /\ table' = GlobalsSent(w.table, p)[GLOBALS]
        /\ cell' = [x \in Root |->
             IF x \in Reg THEN CopyOf(w.table, root[x])
             ELSE Word(GlobalsSent(w.table, p)[x - REGS - 1], p[x])]
  BY DEF Enter
<1> DEFINE at == GlobalsSent(w.table, p)
<1>3. PICK G : Sendable(w, G)
  BY <1>1, RegsSent
<1> HIDE DEF w
<1>4. G \subseteq Block /\ Carried(w.block, w.table, G)
  BY <1>3 DEF Sendable
<1>5. /\ Carried(w.block, at[GLOBALS], G)
      /\ Grown(w.table, at[GLOBALS])
      /\ \A i \in 1 .. GLOBALS :
           /\ Word(at[i - 1], p[REGS + i]) \in Address
           /\ Leads(at[GLOBALS], G, Word(at[i - 1], p[REGS + i]))
      /\ \A y : NilIn(at[GLOBALS], y) =>
           NilIn(w.table, y) \/ \E g \in Global : y = p[g] /\ root[g] = Nil
  BY <1>0, <1>2, <1>4, GlobalsAreSent
<1>6. table' = at[GLOBALS]
      /\ \A x \in Root : cell'[x] = IF x \in Reg THEN CopyOf(w.table, root[x])
                                    ELSE Word(at[x - REGS - 1], p[x])
  BY <1>2
<1> HIDE DEF at
<1>7. ASSUME NEW r \in Reg
      PROVE  cell'[r] \in {Nil} \cup G
  <2>1. cell'[r] = CopyOf(w.table, root[r])
    BY <1>6, Apart
  <2>2. CopyOf(w.table, root[r]) # Nil => CopyOf(w.table, root[r]) \in G
    BY <1>4, CopyOfHad
  <2> QED BY <2>1, <2>2
<1>8. ASSUME NEW x \in Root
      PROVE  cell'[x] \in Address /\ Leads(table', G, cell'[x])
  <2>1. CASE x \in Reg
    <3>1. cell'[x] \in {Nil} \cup G
      BY <1>7, <2>1
    <3> QED BY <1>4, <3>1, Apart DEF Address, Leads
  <2>2. CASE x \notin Reg
    <3> DEFINE i == x - REGS
    <3>1. i \in 1 .. GLOBALS /\ i - 1 = x - REGS - 1 /\ REGS + i = x
      BY <2>2, Finite DEF Root, Global, Reg
    <3>2. cell'[x] = Word(at[i - 1], p[REGS + i])
      BY <1>6, <2>2, <3>1
    <3> HIDE DEF i
    <3> QED BY <1>5, <1>6, <3>1, <3>2
  <2> QED BY <2>1, <2>2
<1>9. (\E H \in SUBSET Block : OnLpCore(H))'
  <2>1. \A r \in Reg : cell'[r] \notin Object
    BY <1>4, <1>7, Apart
  <2>2. Carried(block', table', G)
    BY <1>1, <1>5, <1>6
  <2>3. ASSUME NEW y, NilIn(table', y) PROVE y \in {Nil} \cup Stale'
    <3>1. PICK g \in Global : y = p[g] /\ root[g] = Nil
      BY <1>3, <1>5, <1>6, <2>3 DEF Sendable
    <3> QED BY <1>1, <1>2, <3>1 DEF Stale
  <2> QED BY <1>1, <1>4, <1>8, <2>1, <2>2, <2>3, Arrived
<1>10. cell' \in [Root -> Address]
  <2>1. cell' = [x \in Root |-> cell'[x]]
    BY <1>2
  <2> QED BY <1>8, <2>1
<1>11. Types'
  <2>1. block' \in BlockMap
    BY <1>1, <1>4 DEF Carried
  <2> QED BY <1>0, <1>1, <1>2, <1>10, <2>1 DEF Types
<1>12. Counted(object, root)'
  BY <1>0, <1>1
<1> QED BY <1>1, <1>9, <1>11, <1>12 DEF IInv
-----------------------------------------------------------------------------
\* The program on the LP core.

\* It stays there, and has the blocks in G.
LEMMA Stays ==
  ASSUME IInv, UNCHANGED <<root, payload, object>>, core' = "lp",
         NEW G \in SUBSET Block, Carried(block', table', G), cell' \in [Root -> Address],
         \A x \in Root : Leads(table', G, cell'[x]), \A r \in Reg : cell'[r] \notin Object,
         core = "lp", \A v : NilIn(table', v) => NilIn(table, v)
  PROVE  IInv'
<1>0. \A v : NilIn(table', v) => v \in {Nil} \cup Stale'
  BY DEF IInv, OnLpCore, Stale
<1>1. (\E H \in SUBSET Block : OnLpCore(H))'
  BY <1>0, Arrived
<1>2. Types'
  BY DEF IInv, Types, Carried
<1>3. Counted(object, root)'
  BY DEF IInv
<1> QED BY <1>1, <1>2, <1>3 DEF IInv

\* What the program has when it is on the LP core.
LEMMA Has ==
  ASSUME IInv, core = "lp"
  PROVE  \E G \in SUBSET Block :
           /\ Carried(block, table, G)
           /\ cell \in [Root -> Address] /\ block \in BlockMap
           /\ \A x \in Root : Leads(table, G, cell[x])
           /\ \A r \in Reg : r \in Root /\ cell[r] \in {Nil} \cup G
           /\ \A v : NilIn(table, v) => v \in {Nil} \cup Stale
<1>1. PICK G \in SUBSET Block : OnLpCore(G)
  BY DEF IInv
<1>2. cell \in [Root -> Address] /\ block \in BlockMap
  BY DEF IInv, Types
<1>3. ASSUME NEW r \in Reg PROVE r \in Root /\ cell[r] \in {Nil} \cup G
  <2>1. r \in Root
    BY Apart
  <2>2. cell[r] \in Address /\ Leads(table, G, cell[r]) /\ cell[r] \notin Object
    BY <1>1, <1>2, <2>1 DEF OnLpCore
  <2> QED BY <2>1, <2>2 DEF Address, Leads
<1>4. /\ Carried(block, table, G) /\ \A x \in Root : Leads(table, G, cell[x])
      /\ \A v : NilIn(table, v) => v \in {Nil} \cup Stale
  BY <1>1 DEF OnLpCore
<1> QED BY <1>2, <1>3, <1>4

\* A new object of the LP core keeps the invariant.
LEMMA LpNews ==
  ASSUME IInv, NEW r \in Reg, LpNew(r)
  PROVE  IInv'
<1> DEFINE b == Smallest(FreeBlocks(Sent))
           e == [used |-> TRUE, frozen |-> FALSE, word |-> Blank]
<1>1. /\ core = "lp" /\ core' = "lp" /\ table' = table
      /\ UNCHANGED <<root, payload, object>>
      /\ block' = [block EXCEPT ![b] = e] /\ cell' = [cell EXCEPT ![r] = b]
  BY DEF LpNew, OnLp, Quiet
<1>2. b \in Block /\ ~block[b].used
  <2>1. FreeBlocks(Sent) # {} /\ FreeBlocks(Sent) \in SUBSET Nat
    BY Apart DEF LpNew, FreeBlocks
  <2> QED BY <2>1, SmallestIs DEF FreeBlocks, Sent
<1> HIDE DEF b
<1>3. PICK G \in SUBSET Block :
        /\ Carried(block, table, G)
        /\ cell \in [Root -> Address]
        /\ \A x \in Root : Leads(table, G, cell[x])
        /\ \A q \in Reg : q \in Root /\ cell[q] \in {Nil} \cup G
  BY <1>1, Has
<1>4. e \in [used : BOOLEAN, frozen : BOOLEAN, word : [Field -> Address]]
      /\ e.used /\ e.word = Blank
  BY DEF Blank, Address
<1> DEFINE H == G \cup {b}
<1>5. TakenUp(block, G, b, e, block', H)
  BY <1>1, <1>2, <1>4 DEF TakenUp
<1> HIDE DEF e
<1>6. H \subseteq Block /\ Carried(block', table, H)
  BY <1>3, <1>5, BlockTaken
<1>7. r \in Root /\ \A x \in Root : cell'[x] = IF x = r THEN b ELSE cell[x]
  BY <1>1, <1>3
<1>8. G \subseteq H /\ b \in H
  OBVIOUS
<1> HIDE DEF H
<1>9. ASSUME NEW x \in Root PROVE Leads(table', H, cell'[x])
  <2>1. Leads(table', H, cell[x])
    BY <1>1, <1>3, <1>8, LeadsOn
  <2>2. Leads(table', H, b)
    BY <1>2, <1>8, Apart DEF Leads
  <2> QED BY <1>7, <2>1, <2>2
<1>10. cell' \in [Root -> Address]
  BY <1>1, <1>2, <1>3 DEF Address
<1>11. \A q \in Reg : cell'[q] \notin Object
  BY <1>2, <1>3, <1>7, Apart
<1>12. Carried(block', table', H)
  BY <1>1, <1>6
<1> QED BY <1>1, <1>6, <1>9, <1>10, <1>11, <1>12, Stays

\* A collection keeps what the program has.
LEMMA LpCollects ==
  ASSUME IInv, LpCollect
  PROVE  IInv'
<1> DEFINE kept == {b \in Block : block[b].frozen} \cup (Range(cell) \cap Block)
           closed == {S \in SUBSET Block :
                        \A b \in S, f \in Field :
                          block[b].word[f] \in Block => block[b].word[f] \in S}
<1>1. /\ core = "lp" /\ core' = "lp" /\ table' = table
      /\ UNCHANGED <<root, payload, object>>
      /\ cell' = cell
  BY DEF LpCollect, OnLp, Quiet
<1>2. PICK stray \in SUBSET {b \in Block \ kept : block[b].used} :
        block' = [b \in Block |->
          IF \A S \in closed : kept \cup stray \subseteq S => b \in S
          THEN block[b] ELSE NoBlock]
  BY DEF LpCollect
<1> DEFINE K == {b \in Block : \A S \in closed : kept \cup stray \subseteq S => b \in S}
<1>3. \A b \in Block : block'[b] = IF b \in K THEN block[b] ELSE NoBlock
  BY <1>2
<1>4. kept \subseteq K
  OBVIOUS
<1>5. ASSUME NEW b \in K, NEW f \in Field, block[b].word[f] \in Block
      PROVE  block[b].word[f] \in K
  BY <1>5
<1>6. PICK G \in SUBSET Block :
        /\ Carried(block, table, G)
        /\ cell \in [Root -> Address] /\ block \in BlockMap
        /\ \A x \in Root : Leads(table, G, cell[x])
        /\ \A q \in Reg : q \in Root /\ cell[q] \in {Nil} \cup G
  BY <1>1, Has
<1>7. /\ \A b \in Block : block[b].frozen => b \in K
      /\ \A x \in Root : cell[x] \in Block => cell[x] \in K
  BY <1>4, <1>6 DEF Range
<1>8. K \subseteq Block
  OBVIOUS
<1>9. block' \in BlockMap
  <2>1. NoBlock \in [used : BOOLEAN, frozen : BOOLEAN, word : [Field -> Address]]
    BY DEF NoBlock, Blank, Address
  <2>2. \A b \in Block : block'[b] \in
          [used : BOOLEAN, frozen : BOOLEAN, word : [Field -> Address]]
    BY <1>3, <1>6, <2>1 DEF BlockMap
  <2>3. block' = [b \in Block |-> block'[b]]
    BY <1>2
  <2> QED BY <2>2, <2>3 DEF BlockMap
<1> HIDE DEF K, kept, closed
<1> DEFINE H == G \cap K
<1>10. Carried(block', table', H)
  <2>1. ASSUME NEW b \in H PROVE block'[b] = block[b] /\ block[b].used
    BY <1>3, <1>6, <1>8 DEF Carried
  <2>2. ASSUME NEW b \in H, NEW f \in Field PROVE Leads(table, H, block[b].word[f])
    BY <1>5, <1>6 DEF Carried, Leads
  <2>3. ASSUME NEW i \in DOMAIN table, table[i].copro # Nil
        PROVE  table[i].copro \in H /\ block'[table[i].copro].frozen
    <3>1. table[i].copro \in G /\ block[table[i].copro].frozen
      BY <1>6, <2>3 DEF Carried
    <3>2. table[i].copro \in H
      BY <1>6, <1>7, <3>1
    <3> QED BY <2>1, <3>1, <3>2
  <2>4. Entered(table, object)
    BY <1>6 DEF Carried
  <2> QED BY <1>1, <1>9, <2>1, <2>2, <2>3, <2>4 DEF Carried
<1>11. ASSUME NEW x \in Root PROVE Leads(table', H, cell'[x])
  BY <1>1, <1>6, <1>7 DEF Leads
<1>12. \A r \in Reg : cell'[r] \notin Object
  BY <1>1, <1>6, Apart
<1>13. H \in SUBSET Block /\ cell' \in [Root -> Address]
  BY <1>1, <1>6
<1> HIDE DEF H
<1> QED BY <1>1, <1>10, <1>11, <1>12, <1>13, Stays

\* A register or a global variable gets what a register has, or nil.
LEMMA LpPuts ==
  ASSUME IInv, OnLp, Quiet, UNCHANGED block, NEW x \in Root, NEW v,
         v = Nil \/ \E r \in Reg : v = cell[r], cell' = [cell EXCEPT ![x] = v]
  PROVE  IInv'
<1>1. /\ core = "lp" /\ core' = "lp" /\ UNCHANGED <<root, payload, object>>
      /\ table' = table /\ block' = block
  BY DEF OnLp, Quiet
<1>2. PICK G \in SUBSET Block :
        /\ Carried(block, table, G)
        /\ cell \in [Root -> Address]
        /\ \A y \in Root : Leads(table, G, cell[y])
        /\ \A q \in Reg : q \in Root /\ cell[q] \in {Nil} \cup G
  BY <1>1, Has
<1>3. v \in {Nil} \cup G
  BY <1>2
<1>4. v \in Address /\ Leads(table, G, v) /\ v \notin Object
  BY <1>3, Apart DEF Address, Leads
<1>5. cell' \in [Root -> Address]
      /\ \A y \in Root : cell'[y] = IF y = x THEN v ELSE cell[y]
  BY <1>2, <1>4
<1>6. \A y \in Root : Leads(table', G, cell'[y])
  BY <1>1, <1>2, <1>4, <1>5
<1>7. \A r \in Reg : cell'[r] \notin Object
  BY <1>2, <1>4, <1>5, Apart
<1>8. Carried(block', table', G)
  BY <1>1, <1>2
<1> QED BY <1>1, <1>5, <1>6, <1>7, <1>8, Stays

\* So does an instance variable that is set on the LP core.
LEMMA LpSets ==
  ASSUME IInv, NEW q \in Reg, NEW f \in Field, NEW r \in Reg, LpSetIv(q, f, r)
  PROVE  IInv'
<1>1. /\ core = "lp" /\ core' = "lp" /\ table' = table
      /\ UNCHANGED <<root, payload, object>>
      /\ cell[q] # Nil
      /\ block' = [block EXCEPT ![cell[q]].word[f] = cell[r]] /\ cell' = cell
  BY DEF LpSetIv, OnLp, Quiet
<1>2. PICK G \in SUBSET Block :
        /\ Carried(block, table, G)
        /\ cell \in [Root -> Address]
        /\ \A y \in Root : Leads(table, G, cell[y])
        /\ \A p \in Reg : p \in Root /\ cell[p] \in {Nil} \cup G
  BY <1>1, Has
<1> DEFINE b == cell[q]
           x == cell[r]
<1>3. b \in G /\ x \in Address /\ Leads(table, G, x) /\ G \subseteq Block
      /\ block' = [block EXCEPT ![b].word[f] = x]
  BY <1>1, <1>2
<1> HIDE DEF b, x
<1>4. Carried(block', table, G)
  BY <1>2, <1>3, WordPut
<1>5. \A p \in Reg : cell'[p] \notin Object
  BY <1>1, <1>2, Apart
<1>6. Carried(block', table', G) /\ \A y \in Root : Leads(table', G, cell'[y])
  BY <1>1, <1>2, <1>4
<1> QED BY <1>1, <1>2, <1>5, <1>6, Stays
\* What gets its copy now is alive.
LEMMA AskedAlive ==
  ASSUME NEW G, Carried(block, table, G), NEW v, Answers(v), CopyOf(table, v) = Nil
  PROVE  object[v].rc > 0
<1> DEFINE k == Lookup(table, NONE, v)
<1>1. table[k].ty = "object"
  BY DEF Answers
<1>2. k \in DOMAIN table /\ table[k].main = v
  BY MainIs DEF Answers, Carried, Entered
<1> QED BY <1>1, <1>2 DEF Carried, Entered, Backed

\* The read barrier: the HP core answers for the object v.
LEMMA Answered ==
  ASSUME IInv, core = "lp", NEW G \in SUBSET Block, Carried(block, table, G),
         NEW v \in Object, Leads(table, G, v), Answers(v), NEW w, w = Served(Sent, v)
  PROVE  \E H \in SUBSET Block :
           /\ G \subseteq H /\ Carried(w.block, w.table, H)
           /\ \A y : InTable(table, y) => InTable(w.table, y)
           /\ CopyOf(w.table, v) \in H
           /\ \A y : NilIn(w.table, y) => NilIn(table, y)
<1> DEFINE s == Sent
<1>1. s \in World /\ s.block = block /\ s.table = table
  BY DEF World, Sent, Carried, Entered
<1>2. InTable(s.table, v) /\ Carried(s.block, s.table, G)
  BY <1>1 DEF Leads
<1>3. CopyOf(s.table, v) = Nil => object[v].rc > 0 /\ FreeBlocks(s) # {}
  BY <1>1, AskedAlive DEF Answers
<1>4. w = Served(s, v)
  OBVIOUS
<1>5. Counted(object, root)
  BY DEF IInv
<1> HIDE DEF s
<1>6. \E H \in SUBSET Block :
        /\ G \subseteq H /\ Carried(w.block, w.table, H)
        /\ \A y : InTable(s.table, y) => InTable(w.table, y)
        /\ CopyOf(w.table, v) \in H
        /\ \A y : NilIn(w.table, y) => NilIn(s.table, y)
  BY <1>1, <1>2, <1>3, <1>4, <1>5, ServedIs
<1> QED BY <1>1, <1>6

\* What the read barrier hands over is a copy, or no object.
LEMMA LpGetsGlobal ==
  ASSUME IInv, NEW r \in Reg, NEW g \in Global, LpGetGlobal(r, g)
  PROVE  IInv'
<1> DEFINE v == cell[g]
<1>1. /\ core = "lp" /\ core' = "lp" /\ UNCHANGED <<root, payload, object>>
      /\ g \in Root /\ r \in Root
  BY Apart DEF LpGetGlobal, OnLp
<1>2. PICK G \in SUBSET Block :
        /\ Carried(block, table, G)
        /\ cell \in [Root -> Address]
        /\ \A y \in Root : Leads(table, G, cell[y])
        /\ \A p \in Reg : p \in Root /\ cell[p] \in {Nil} \cup G
  BY <1>1, Has
<1>3. CASE v \in Object
  <2> DEFINE w == Served(Sent, v)
             c == CopyOf(w.table, v)
  <2>1. /\ Answers(v) /\ block' = w.block /\ table' = w.table
        /\ cell' = [cell EXCEPT ![r] = c, ![g] = c]
    BY <1>3 DEF LpGetGlobal
  <2>2. Leads(table, G, v)
    BY <1>1, <1>2
  <2> HIDE DEF v
  <2>3. PICK H \in SUBSET Block :
          /\ G \subseteq H /\ Carried(w.block, w.table, H)
          /\ \A y : InTable(table, y) => InTable(w.table, y)
          /\ c \in H
          /\ \A y : NilIn(w.table, y) => NilIn(table, y)
    BY <1>1, <1>2, <1>3, <2>1, <2>2, Answered
  <2> HIDE DEF w, c
  <2>4. c \in Address /\ c \notin Object /\ Leads(w.table, H, c)
    BY <2>3, Apart DEF Address, Leads
  <2>5. cell' \in [Root -> Address]
        /\ \A y \in Root : cell'[y] = IF y = r \/ y = g THEN c ELSE cell[y]
    BY <1>1, <1>2, <2>1, <2>4
  <2>6. ASSUME NEW y \in Root PROVE Leads(table', H, cell'[y])
    <3>1. Leads(w.table, H, cell[y])
      BY <1>2, <2>3, LeadsOn
    <3> QED BY <2>1, <2>4, <2>5, <3>1
  <2>7. \A p \in Reg : cell'[p] \notin Object
    BY <1>2, <2>4, <2>5, Apart
  <2>8. Carried(block', table', H)
    BY <2>1, <2>3
  <2>9. \A y : NilIn(table', y) => NilIn(table, y)
    BY <2>1, <2>3
  <2> QED BY <1>1, <2>5, <2>6, <2>7, <2>8, <2>9, Stays
<1>4. CASE v \notin Object
  <2>1. block' = block /\ table' = table /\ cell' = [cell EXCEPT ![r] = v]
    BY <1>4 DEF LpGetGlobal
  <2>2. v \in Address /\ Leads(table, G, v)
    BY <1>1, <1>2
  <2> HIDE DEF v
  <2>3. cell' \in [Root -> Address]
        /\ \A y \in Root : cell'[y] = IF y = r THEN v ELSE cell[y]
    BY <1>1, <1>2, <2>1, <2>2
  <2>4. \A y \in Root : Leads(table', G, cell'[y])
    BY <1>2, <2>1, <2>2, <2>3
  <2>5. \A p \in Reg : cell'[p] \notin Object
    BY <1>2, <1>4, <2>3, Apart
  <2>6. Carried(block', table', G)
    BY <1>2, <2>1
  <2> QED BY <1>1, <2>1, <2>3, <2>4, <2>5, <2>6, Stays
<1> QED BY <1>3, <1>4

\* And one that is read.
LEMMA LpGetsIv ==
  ASSUME IInv, NEW r \in Reg, NEW q \in Reg, NEW f \in Field, LpGetIv(r, q, f)
  PROVE  IInv'
<1> DEFINE b == cell[q]
           v == block[b].word[f]
<1>1. /\ core = "lp" /\ core' = "lp" /\ UNCHANGED <<root, payload, object>>
      /\ r \in Root /\ b # Nil
  BY Apart DEF LpGetIv, OnLp
<1>2. PICK G \in SUBSET Block :
        /\ Carried(block, table, G)
        /\ cell \in [Root -> Address]
        /\ \A y \in Root : Leads(table, G, cell[y])
        /\ \A p \in Reg : p \in Root /\ cell[p] \in {Nil} \cup G
  BY <1>1, Has
<1>3. b \in G /\ b \in Block
  BY <1>1, <1>2
<1>4. v \in Address /\ Leads(table, G, v)
  <2>1. Leads(table, G, v)
    BY <1>2, <1>3 DEF Carried
  <2>2. v \in Address
    BY <1>2, <1>3 DEF Carried, BlockMap
  <2> QED BY <2>1, <2>2
<1>5. CASE v \in Object
  <2> DEFINE w == Served(Sent, v)
             c == CopyOf(w.table, v)
  <2>1. /\ Answers(v) /\ table' = w.table
        /\ block' = [w.block EXCEPT ![b].word[f] = c]
        /\ cell' = [cell EXCEPT ![r] = c]
    BY <1>5 DEF LpGetIv
  <2> HIDE DEF v, b
  <2>2. PICK H \in SUBSET Block :
          /\ G \subseteq H /\ Carried(w.block, w.table, H)
          /\ \A y : InTable(table, y) => InTable(w.table, y)
          /\ c \in H
          /\ \A y : NilIn(w.table, y) => NilIn(table, y)
    BY <1>1, <1>2, <1>4, <1>5, <2>1, Answered
  <2> HIDE DEF w, c
  <2>3. c \in Address /\ c \notin Object /\ Leads(w.table, H, c)
    BY <2>2, Apart DEF Address, Leads
  <2>4. cell' \in [Root -> Address]
        /\ \A y \in Root : cell'[y] = IF y = r THEN c ELSE cell[y]
    BY <1>1, <1>2, <2>1, <2>3
  <2>5. ASSUME NEW y \in Root PROVE Leads(table', H, cell'[y])
    <3>1. Leads(w.table, H, cell[y])
      BY <1>2, <2>2, LeadsOn
    <3> QED BY <2>1, <2>3, <2>4, <3>1
  <2>6. \A p \in Reg : cell'[p] \notin Object
    BY <1>2, <2>3, <2>4, Apart
  <2>7. Carried(block', table', H)
    <3>1. b \in H /\ H \subseteq Block
      BY <1>3, <2>2
    <3>2. Carried(block', w.table, H)
      BY <2>1, <2>2, <2>3, <3>1, WordPut
    <3> QED BY <2>1, <3>2
  <2>8. \A y : NilIn(table', y) => NilIn(table, y)
    BY <2>1, <2>2
  <2> QED BY <1>1, <2>4, <2>5, <2>6, <2>7, <2>8, Stays
<1>6. CASE v \notin Object
  <2>1. block' = block /\ table' = table /\ cell' = [cell EXCEPT ![r] = v]
    BY <1>6 DEF LpGetIv
  <2> HIDE DEF v
  <2>2. cell' \in [Root -> Address]
        /\ \A y \in Root : cell'[y] = IF y = r THEN v ELSE cell[y]
    BY <1>1, <1>2, <1>4, <2>1
  <2>3. \A y \in Root : Leads(table', G, cell'[y])
    BY <1>2, <1>4, <2>1, <2>2
  <2>4. \A p \in Reg : cell'[p] \notin Object
    BY <1>2, <1>6, <2>2, Apart
  <2>5. Carried(block', table', G)
    BY <1>2, <2>1
  <2> QED BY <1>1, <2>1, <2>2, <2>3, <2>4, <2>5, Stays
<1> QED BY <1>5, <1>6

\* mrbcopro_gc_clear: the HP core has nothing on the LP core.
LEMMA HpClears ==
  ASSUME IInv, HpClear
  PROVE  IInv'
<1>1. /\ core = "hp" /\ UNCHANGED <<core, root, payload, object, cell, table>>
      /\ block' = [b \in Block |-> NoBlock]
  BY DEF HpClear
<1>2. NoBlock \in [used : BOOLEAN, frozen : BOOLEAN, word : [Field -> Address]]
  BY DEF NoBlock, Blank, Address
<1>3. block' \in BlockMap
  BY <1>1, <1>2 DEF BlockMap
<1>4. Types' /\ Counted(object, root)'
  BY <1>1, <1>3 DEF IInv, Types
<1> QED BY <1>1, <1>4 DEF IInv
-----------------------------------------------------------------------------
\* A run ends.  In the first pass the blocks are taken over into objects.

\* The blocks after the i first that get the object v.
Mains(m, i, v) == Cardinality({b \in Block : b > HP + i /\ m[b] = v})

\* The blocks after the i first that get a new object.
Pending(t, i) ==
  {b \in Block : b > HP + i /\ block[b].used /\ \A j \in DOMAIN t : t[j].copro # b}

\* The table knows the block b as a copy of v.
KnownAs(t, b, v) == \E j \in DOMAIN t : t[j].copro = b /\ t[j].main = v

\* The objects are those there were, and others with nothing in them.
TakenObjects(o, m) ==
  /\ o \in ObjectMap /\ Clean(o)
  /\ \A v \in Object : o[v].field = object[v].field
  /\ m \in [Block -> {Nil} \cup Object]
  /\ \A v \in Object : InFields(object, v) + InRoots(root, v) + Mains(m, 0, v) <= o[v].rc

\* The table knows the blocks that were taken.
TakenTable(t, m, i, G) ==
  /\ \A v : InTable(table, v) => InTable(t, v)
  /\ \A b \in Block : m[b] # Nil => b <= HP + i /\ KnownAs(t, b, m[b])
  /\ \A b \in Block : block[b].used /\ b <= HP + i => \E v : KnownAs(t, b, v)
  /\ \A b \in Block : \A v : KnownAs(t, b, v) => b <= HP + i \/ b \in G
  /\ \A b \in Block \ G : m[b] # Nil => object[m[b]].field = Blank

\* The first i blocks are taken.
Taking(w, i, G) ==
  /\ TakenObjects(w.object, w.main)
  /\ Entered(w.table, w.object)
  /\ TakenTable(w.table, w.main, i, G)
  /\ Cardinality(Pending(w.table, i)) <= Cardinality(FreeObjects(w.object))

\* The block HP + i is taken into v.
TakenInto(w, u, i, v, G) ==
  /\ v \in Object
  /\ u.main = [w.main EXCEPT ![HP + i] = v]
  /\ u.object \in ObjectMap /\ Clean(u.object)
  /\ \A y \in Object : /\ u.object[y].field = w.object[y].field
                       /\ u.object[y].rc >= w.object[y].rc + Is(v, y)
  /\ Entered(u.table, u.object)
  /\ KnownAs(u.table, HP + i, v)
  /\ \A b \in Block : \A y : KnownAs(w.table, b, y) => KnownAs(u.table, b, y)
  /\ \A b \in Block : \A y : KnownAs(u.table, b, y) =>
       KnownAs(w.table, b, y) \/ (b = HP + i /\ y = v)
  /\ \/ KnownAs(w.table, HP + i, v)
     \/ w.object[v].rc = 0 /\ \A y : ~KnownAs(w.table, HP + i, y)
  /\ \A y : InTable(w.table, y) => InTable(u.table, y)
  /\ \A y : NilIn(u.table, y) => NilIn(w.table, y)
  /\ HP + i \notin G => object[v].field = Blank
  /\ Cardinality(Pending(u.table, i)) <= Cardinality(FreeObjects(u.object))

\* One object more has a block that is taken into it.
LEMMA MainsChange ==
  ASSUME NEW m, NEW n, NEW i, NEW b \in Block, b > HP + i,
         \A a \in Block : a # b => m[a] = n[a], NEW y
  PROVE  Mains(n, i, y) + Is(m[b], y) = Mains(m, i, y) + Is(n[b], y)
<1> DEFINE A == {a \in Block : a > HP + i /\ m[a] = y}
           B == {a \in Block : a > HP + i /\ n[a] = y}
<1>2. A \ {b} = B \ {b}
  OBVIOUS
<1>3. (b \in A <=> m[b] = y) /\ (b \in B <=> n[b] = y)
  OBVIOUS
<1>4. A \in SUBSET Block /\ B \in SUBSET Block
  OBVIOUS
<1> HIDE DEF A, B
<1>5. /\ Cardinality(A) \in Nat /\ Cardinality(B) \in Nat
      /\ Cardinality(B) + (IF b \in A THEN 1 ELSE 0)
           = Cardinality(A) + (IF b \in B THEN 1 ELSE 0)
  BY <1>2, <1>4, Finite, OneOff
<1>6. Mains(n, i, y) = Cardinality(B) /\ Mains(m, i, y) = Cardinality(A)
  BY DEF Mains, A, B
<1> QED BY <1>3, <1>5, <1>6 DEF Is

\* How many blocks were taken into an object is a number.
LEMMA MainsIs ==
  ASSUME NEW m, NEW i, NEW v
  PROVE  Mains(m, i, v) \in Nat
<1>1. IsFiniteSet({b \in Block : b > HP + i /\ m[b] = v})
  BY Finite, FS_Subset
<1> QED BY <1>1, FS_CardinalityType DEF Mains

\* When a block is taken into an object the next block may be.
LEMMA TakenKeeps ==
  ASSUME NEW w, NEW i \in 1 .. LP, NEW G, Taking(w, i - 1, G), NEW v, NEW u,
         TakenInto(w, u, i, v, G)
  PROVE  Taking(u, i, G)
<1> DEFINE b == HP + i
           m == w.main
           n == u.main
<1>1. b \in Block /\ HP \in Nat /\ i \in Nat /\ b = HP + (i - 1) + 1
  BY Finite DEF Block
<1>2. m \in [Block -> {Nil} \cup Object] /\ v \in Object /\ n = [m EXCEPT ![b] = v]
  BY DEF Taking, TakenObjects, TakenInto
<1>3. /\ n \in [Block -> {Nil} \cup Object]
      /\ \A a \in Block : n[a] = IF a = b THEN v ELSE m[a]
  BY <1>1, <1>2
<1>4. m[b] = Nil
  <2>1. m[b] # Nil => b <= HP + (i - 1)
    BY <1>1 DEF Taking, TakenTable
  <2> QED BY <1>1, <2>1
<1>5. ASSUME NEW y \in Object
      PROVE  InFields(object, y) + InRoots(root, y) + Mains(n, 0, y) <= u.object[y].rc
  <2>1. Mains(n, 0, y) + Is(m[b], y) = Mains(m, 0, y) + Is(n[b], y) /\ n[b] = v
    <3> DEFINE z == 0
    <3>1. b > HP + z /\ n[b] = v /\ \A a \in Block : a # b => m[a] = n[a]
      BY <1>1, <1>3
    <3> HIDE DEF b, n, m, z
    <3>2. Mains(n, z, y) + Is(m[b], y) = Mains(m, z, y) + Is(n[b], y)
      BY <1>1, <3>1, MainsChange
    <3> QED BY <3>1, <3>2 DEF z
  <2>2. InFields(object, y) + InRoots(root, y) + Mains(m, 0, y) <= w.object[y].rc
    BY DEF Taking, TakenObjects
  <2>3. u.object[y].rc >= w.object[y].rc + Is(v, y)
    BY DEF TakenInto
  <2>4. Is(m[b], y) = 0 /\ Is(v, y) \in Nat
    BY <1>4, Apart DEF Is
  <2>5. w.object[y].rc \in Nat /\ u.object[y].rc \in Nat
    BY DEF Taking, TakenObjects, TakenInto, ObjectMap
  <2> HIDE DEF n, m, b
  <2> QED BY <2>1, <2>2, <2>3, <2>4, <2>5, MainsIs, Numbers
<1>6. TakenObjects(u.object, n)
  <2>1. \A y \in Object : u.object[y].field = object[y].field
    BY DEF Taking, TakenObjects, TakenInto
  <2>2. u.object \in ObjectMap /\ Clean(u.object)
    BY DEF TakenInto
  <2> HIDE DEF n
  <2> QED BY <1>3, <1>5, <2>1, <2>2 DEF TakenObjects
<1>7. TakenTable(w.table, m, i - 1, G)
  BY DEF Taking
<1>8. /\ KnownAs(u.table, b, v)
      /\ \A a \in Block : \A y : KnownAs(w.table, a, y) => KnownAs(u.table, a, y)
      /\ \A a \in Block : \A y : KnownAs(u.table, a, y) => KnownAs(w.table, a, y) \/ a = b
      /\ \A y : InTable(w.table, y) => InTable(u.table, y)
      /\ b \notin G => object[v].field = Blank
  BY DEF TakenInto
<1>9. \A a \in Block : a <= HP + i <=> (a = b \/ a <= HP + (i - 1))
  BY <1>1, Apart
<1> HIDE DEF b, m, n
<1>10. TakenTable(u.table, n, i, G)
  <2>1. \A y : InTable(table, y) => InTable(u.table, y)
    BY <1>7, <1>8 DEF TakenTable
  <2>2. ASSUME NEW a \in Block, n[a] # Nil
        PROVE  a <= HP + i /\ KnownAs(u.table, a, n[a])
    BY <1>3, <1>7, <1>8, <1>9, <2>2 DEF TakenTable
  <2>3. ASSUME NEW a \in Block, block[a].used, a <= HP + i
        PROVE  \E y : KnownAs(u.table, a, y)
    BY <1>7, <1>8, <1>9, <2>3 DEF TakenTable
  <2>4. ASSUME NEW a \in Block, NEW y, KnownAs(u.table, a, y)
        PROVE  a <= HP + i \/ a \in G
    BY <1>7, <1>8, <1>9, <2>4 DEF TakenTable
  <2>5. ASSUME NEW a \in Block \ G, n[a] # Nil PROVE object[n[a]].field = Blank
    BY <1>3, <1>7, <1>8, <2>5 DEF TakenTable
  <2> QED BY <2>1, <2>2, <2>3, <2>4, <2>5 DEF TakenTable
<1> QED BY <1>6, <1>10 DEF Taking, TakenInto, n
\* The entries stay those of objects that are alive.
LEMMA EnteredOn ==
  ASSUME NEW t, NEW o, Entered(t, o), NEW p \in ObjectMap,
         \A v \in Object : p[v].rc >= o[v].rc, o \in ObjectMap
  PROVE  Entered(t, p)
<1>1. ASSUME NEW i \in DOMAIN t PROVE Backed(t[i], p)
  <2>1. Backed(t[i], o)
    BY DEF Entered
  <2> HIDE DEF ObjectMap
  <2>2. \A v \in Object : p[v].rc \in Nat /\ o[v].rc \in Nat
    BY DEF ObjectMap
  <2> QED BY <2>1, <2>2 DEF Backed
<1> QED BY <1>1 DEF Entered

\* A block that is not used, or is known for a nil, is left out.
LEMMA TakenSkips ==
  ASSUME NEW w, NEW i \in 1 .. LP, NEW G, Taking(w, i - 1, G),
         block[HP + i].used => \E v : KnownAs(w.table, HP + i, v)
  PROVE  Taking(w, i, G)
<1> DEFINE b == HP + i
           t == w.table
           m == w.main
<1>1. b \in Block /\ HP \in Nat /\ i \in Nat
      /\ \A a \in Block : a <= HP + i <=> (a = b \/ a <= HP + (i - 1))
  BY Finite, Apart DEF Block
<1>2. TakenTable(t, m, i - 1, G)
  BY DEF Taking
<1>3. block[b].used => \E v : KnownAs(t, b, v)
  OBVIOUS
<1>4. Pending(t, i) = Pending(t, i - 1)
  <2>1. \A a \in Block : a > HP + (i - 1) <=> (a = b \/ a > HP + i)
    BY <1>1, Apart
  <2>2. b \notin Pending(t, i - 1)
    BY <1>3 DEF Pending, KnownAs
  <2>3. ~ (b > HP + i)
    BY <1>1
  <2>4. \A a \in Block : a \in Pending(t, i) <=> a \in Pending(t, i - 1)
    BY <2>1, <2>2, <2>3 DEF Pending
  <2> QED BY <2>4 DEF Pending
<1> HIDE DEF b, t, m
<1>5. TakenTable(t, m, i, G)
  BY <1>1, <1>2, <1>3 DEF TakenTable
<1> QED BY <1>4, <1>5 DEF Taking, t, m

\* A block is taken into the object it is a copy of.
LEMMA TakenKnown ==
  ASSUME NEW w, NEW i \in 1 .. LP, NEW G, Taking(w, i - 1, G), NEW k \in DOMAIN w.table,
         k = Lookup(w.table, HP + i, NONE), w.table[k].copro = HP + i,
         w.table[k].ty # "nil", block[HP + i].used, NEW u, u = Taken(w, i)
  PROVE  TakenInto(w, u, i, w.table[k].main, G)
<1> DEFINE b == HP + i
           t == w.table
           v == t[k].main
           o == w.object
           T == Register(t, b, v, "object")
           p == Incref(o, v)
<1>1. /\ b \in Block /\ HP \in Nat /\ i \in Nat /\ k # 0
      /\ t \in Seq(Entry) /\ Entered(t, o) /\ o \in ObjectMap /\ Clean(o)
  <2>1. t \in Seq(Entry) /\ Entered(t, o) /\ o \in ObjectMap /\ Clean(o)
    BY DEF Taking, TakenObjects, Entered
  <2>2. DOMAIN t = 1 .. Len(t) /\ Len(t) \in Nat
    BY <2>1, EntryIs
  <2> QED BY <2>1, <2>2, Finite DEF Block
<1>2. /\ v \in Object /\ o[v].rc > 0
      /\ t[k].copro = b /\ t[k].ty = "object" /\ t[k] \in Entry
  BY <1>1, EntryIs DEF Entered, Backed
<1>3. u = [object |-> p, table |-> T, main |-> [w.main EXCEPT ![b] = v]]
  BY <1>1 DEF Taken
<1>4. T = t
  <2> DEFINE j == Lookup(t, b, v)
             e == [copro |-> b, main |-> v, ty |-> "object"]
  <2>1. /\ k \in Nat
        /\ \A h \in DOMAIN t : t[h].copro = b => k <= h
    BY <1>1, LookupIs
  <2>2. /\ j \in Nat
        /\ j = 0 => \A h \in DOMAIN t : t[h].copro # b /\ t[h].main # v
        /\ j # 0 => /\ j \in DOMAIN t /\ (t[j].copro = b \/ t[j].main = v)
                    /\ \A h \in DOMAIN t : t[h].copro = b \/ t[h].main = v => j <= h
    BY <1>1, LookupIs
  <2>3. j # 0
    BY <1>2, <2>2
  <2>4. T = [t EXCEPT ![j] = e]
    BY <2>3 DEF Register
  <2>5. t[k] = e
    BY <1>2 DEF Entry
  <2> HIDE DEF j, e
  <2>6. j = k
    <3>1. j \in DOMAIN t /\ j <= k
      BY <1>2, <2>2, <2>3
    <3>2. CASE t[j].copro = b
      BY <2>1, <2>2, <3>1, <3>2
    <3>3. CASE t[j].main = v
      BY <1>1, <3>1, <3>3 DEF Entered
    <3> QED BY <2>2, <2>3, <3>2, <3>3
  <2> HIDE DEF T, t
  <2> QED BY <1>1, <2>4, <2>5, <2>6
<1> HIDE DEF T
<1>5. /\ p \in ObjectMap /\ Clean(p)
      /\ \A y \in Object : /\ p[y].field = o[y].field
                           /\ p[y].rc = o[y].rc + (IF y = v THEN 1 ELSE 0)
  BY <1>1, <1>2, IncrefCounts
<1> HIDE DEF p
<1>6. \A y \in Object : o[y].rc \in Nat /\ p[y].rc \in Nat
  BY <1>1, <1>5 DEF ObjectMap
<1>7. \A y \in Object : p[y].rc >= o[y].rc + Is(v, y) /\ p[y].rc >= o[y].rc
  BY <1>5, <1>6 DEF Is
<1>8. Entered(t, p)
  BY <1>1, <1>5, <1>7, EnteredOn
<1>9. KnownAs(t, b, v)
  BY <1>2 DEF KnownAs
<1>10. b \in G
  <2>1. b <= HP + (i - 1) \/ b \in G
    BY <1>1, <1>9 DEF Taking, TakenTable
  <2> QED BY <1>1, <2>1
<1>11. Cardinality(Pending(t, i)) <= Cardinality(FreeObjects(p))
  <2>2. FreeObjects(p) = FreeObjects(o)
    BY <1>2, <1>5, <1>6 DEF FreeObjects
  <2>3. Pending(t, i) \subseteq Pending(t, i - 1)
    <3>1. \A a \in Block : a > HP + i => a > HP + (i - 1)
      BY <1>1, Apart
    <3> HIDE DEF t
    <3> QED BY <3>1 DEF Pending
  <2>4. IsFiniteSet(Pending(t, i - 1)) /\ IsFiniteSet(FreeObjects(o))
    BY Finite, FS_Subset DEF Pending, FreeObjects
  <2>5. /\ Cardinality(Pending(t, i)) <= Cardinality(Pending(t, i - 1))
        /\ Cardinality(Pending(t, i)) \in Nat /\ Cardinality(Pending(t, i - 1)) \in Nat
        /\ Cardinality(FreeObjects(o)) \in Nat
    BY <2>3, <2>4, FS_Subset, FS_CardinalityType
  <2>6. Cardinality(Pending(t, i - 1)) <= Cardinality(FreeObjects(o))
    BY DEF Taking
  <2> QED BY <2>2, <2>5, <2>6
<1>12. u.object = p /\ u.table = t /\ u.main = [w.main EXCEPT ![b] = v]
  BY <1>3, <1>4
<1> HIDE DEF o, t, b, v
<1>13. TakenInto(w, u, i, v, G)
  BY <1>2, <1>5, <1>7, <1>8, <1>9, <1>10, <1>11, <1>12 DEF TakenInto, o, t, b
<1> QED BY <1>13 DEF v, t
\* A block that no object is known for is taken into a new one.
LEMMA TakenNew ==
  ASSUME NEW w, NEW i \in 1 .. LP, NEW G, Taking(w, i - 1, G),
         Lookup(w.table, HP + i, NONE) = 0, block[HP + i].used, NEW u, u = Taken(w, i)
  PROVE  \E v : TakenInto(w, u, i, v, G)
<1> DEFINE b == HP + i
           t == w.table
           q == w.object
           v == Smallest(FreeObjects(q))
           o == [q EXCEPT ![v].rc = 1]
           T == Register(t, b, v, "object")
           p == Incref(o, v)
           e == [copro |-> b, main |-> v, ty |-> "object"]
<1>1. /\ b \in Block /\ HP \in Nat /\ i \in Nat
      /\ t \in Seq(Entry) /\ Entered(t, q) /\ q \in ObjectMap /\ Clean(q)
  <2>1. t \in Seq(Entry) /\ Entered(t, q) /\ q \in ObjectMap /\ Clean(q)
    BY DEF Taking, TakenObjects, Entered
  <2> QED BY <2>1, Finite DEF Block
<1>2. \A j \in DOMAIN t : t[j].copro # b
  BY <1>1, LookupIs
<1>3. b \in Pending(t, i - 1)
  <2>1. b > HP + (i - 1)
    BY <1>1
  <2> QED BY <1>1, <1>2, <2>1 DEF Pending
<1>4. /\ IsFiniteSet(Pending(t, i - 1)) /\ IsFiniteSet(FreeObjects(q))
      /\ Cardinality(Pending(t, i - 1)) \in Nat /\ Cardinality(FreeObjects(q)) \in Nat
      /\ Cardinality(Pending(t, i - 1)) >= 1
      /\ Cardinality(Pending(t, i - 1)) <= Cardinality(FreeObjects(q))
  <2>1. Pending(t, i - 1) \in SUBSET Block /\ FreeObjects(q) \in SUBSET Object
    BY DEF Pending, FreeObjects
  <2>2. IsFiniteSet(Pending(t, i - 1)) /\ IsFiniteSet(FreeObjects(q))
    BY <2>1, Finite, FS_Subset
  <2>3. Cardinality(Pending(t, i - 1)) <= Cardinality(FreeObjects(q))
    BY DEF Taking
  <2> HIDE DEF b, t, q
  <2> QED BY <1>3, <2>1, <2>2, <2>3, FS_CardinalityType, Finite, Counts
<1>5. v \in FreeObjects(q)
  <2>1. FreeObjects(q) # {}
    BY <1>4, FS_EmptySet
  <2>2. FreeObjects(q) \in SUBSET Nat
    BY Apart DEF FreeObjects
  <2> QED BY <2>1, <2>2, SmallestIs
<1>6. v \in Object /\ q[v].rc = 0
  BY <1>5 DEF FreeObjects
<1>7. u = [object |-> p, table |-> T, main |-> [w.main EXCEPT ![b] = v]]
  BY DEF Taken
<1> HIDE DEF v
<1>8. \A y \in Object : q[y] \in [rc : Nat, field : [Field -> {Nil} \cup Object]]
  BY <1>1 DEF ObjectMap
<1>9. o \in ObjectMap
  BY <1>1, <1>6, <1>8 DEF ObjectMap
<1>10. \A y \in Object : o[y].field = q[y].field /\ o[y].rc = IF y = v THEN 1 ELSE q[y].rc
  BY <1>1, <1>6, <1>8 DEF ObjectMap
<1> HIDE DEF o
<1>11. Clean(o)
  BY <1>1, <1>10 DEF Clean
<1>12. /\ p \in ObjectMap /\ Clean(p)
       /\ \A y \in Object : /\ p[y].field = o[y].field
                            /\ p[y].rc = o[y].rc + (IF y = v THEN 1 ELSE 0)
  BY <1>6, <1>9, <1>11, IncrefCounts
<1> HIDE DEF p
<1>13. \A y \in Object : /\ q[y].rc \in Nat /\ p[y].field = q[y].field
                         /\ p[y].rc = IF y = v THEN 2 ELSE q[y].rc
  BY <1>8, <1>10, <1>12
<1>14. \A y \in Object : p[y].rc >= q[y].rc + Is(v, y) /\ p[y].rc >= q[y].rc
  BY <1>6, <1>13 DEF Is
<1>15. Entered(t, p)
  BY <1>1, <1>12, <1>14, EnteredOn
<1>16. \A j \in DOMAIN t : t[j].main = v => t[j].copro = Nil
  BY <1>1, <1>6 DEF Backed, Entered
<1>17. /\ e \in Entry /\ e.copro = b /\ e.main = v /\ e.ty = "object"
       /\ Backed(e, p)
  BY <1>1, <1>6, <1>13 DEF Entry, Backed
<1>18. Put(t, p, e, T)
  <2> DEFINE k == Lookup(t, b, v)
  <2>1. T = IF k # 0 THEN [t EXCEPT ![k] = e] ELSE Append(t, e)
    BY DEF Register
  <2>2. /\ k = 0 => ~InTable(t, v)
        /\ k # 0 => k \in DOMAIN t /\ t[k].main = v
    BY <1>1, <1>2, LookupIs DEF InTable
  <2> HIDE DEF k, e, T, t, b
  <2> QED BY <1>17, <2>1, <2>2 DEF Put
<1> HIDE DEF e, T
<1>19. /\ Entered(T, p)
       /\ DOMAIN t \subseteq DOMAIN T
       /\ \A j \in DOMAIN T : T[j] = e \/ (j \in DOMAIN t /\ T[j] = t[j])
       /\ \A j \in DOMAIN t : T[j] = t[j] \/ (T[j] = e /\ t[j].main = e.main)
  BY <1>15, <1>18, PutIs
<1>20. PICK k \in DOMAIN T : T[k] = e
  BY <1>15, <1>18, PutIs
<1>21. KnownAs(T, b, v)
  BY <1>17, <1>20 DEF KnownAs
<1>22. /\ \A a \in Block : \A y : KnownAs(t, a, y) => KnownAs(T, a, y)
       /\ \A a \in Block : \A y : KnownAs(T, a, y) => KnownAs(t, a, y) \/ (a = b /\ y = v)
       /\ \A y : ~KnownAs(t, b, y)
       /\ \A y : InTable(t, y) => InTable(T, y)
       /\ \A y : NilIn(T, y) => NilIn(t, y)
  <2> HIDE DEF b, t
  <2>1. ASSUME NEW a \in Block, NEW y, KnownAs(t, a, y) PROVE KnownAs(T, a, y)
    <3>1. PICK j \in DOMAIN t : t[j].copro = a /\ t[j].main = y
      BY <2>1 DEF KnownAs
    <3>2. t[j].main # v
      BY <1>16, <3>1, Apart
    <3>3. j \in DOMAIN T /\ T[j] = t[j]
      BY <1>17, <1>19, <3>2
    <3> QED BY <3>1, <3>3 DEF KnownAs
  <2>2. ASSUME NEW a, NEW y, KnownAs(T, a, y) PROVE KnownAs(t, a, y) \/ (a = b /\ y = v)
    BY <1>17, <1>19, <2>2 DEF KnownAs
  <2>3. ASSUME NEW y, InTable(t, y) PROVE InTable(T, y)
    BY <1>17, <1>19, <2>3 DEF InTable
  <2>4. \A y : ~KnownAs(t, b, y)
    BY <1>2 DEF KnownAs
  <2>5. ASSUME NEW y, NilIn(T, y) PROVE NilIn(t, y)
    BY <1>17, <1>19, <2>5 DEF NilIn
  <2> QED BY <2>1, <2>2, <2>3, <2>4, <2>5
<1>23. object[v].field = Blank
  <2>1. q[v].field = object[v].field
    BY <1>6 DEF Taking, TakenObjects
  <2> QED BY <1>1, <1>6, <2>1 DEF Clean
<1>24. Cardinality(Pending(T, i)) <= Cardinality(FreeObjects(p))
  <2> DEFINE A == Pending(t, i - 1)
             B == FreeObjects(q)
  <2>1. Pending(T, i) = A \ {b}
    <3>1. \A a \in Block : a > HP + (i - 1) <=> (a = b \/ a > HP + i)
      BY <1>1, Apart
    <3>2. ~ (b > HP + i)
      BY <1>1
    <3> HIDE DEF b, t
    <3>3. ASSUME NEW a \in Block
          PROVE  (\A j \in DOMAIN T : T[j].copro # a)
                   <=> ((\A j \in DOMAIN t : t[j].copro # a) /\ a # b)
      <4>1. a # b /\ (\A j \in DOMAIN t : t[j].copro # a) => \A j \in DOMAIN T : T[j].copro # a
        BY <1>17, <1>19
      <4>2. (\A j \in DOMAIN T : T[j].copro # a) => a # b
        BY <1>17, <1>20
      <4>3. ASSUME \A j \in DOMAIN T : T[j].copro # a, NEW j \in DOMAIN t
            PROVE  t[j].copro # a
        <5>1. CASE T[j] = t[j]
          BY <1>19, <4>3, <5>1
        <5>2. CASE T[j] # t[j]
          BY <1>16, <1>17, <1>19, <5>2, Apart
        <5> QED BY <5>1, <5>2
      <4> QED BY <4>1, <4>2, <4>3
    <3>4. \A a \in Block : a \in Pending(T, i) <=> (a \in Pending(t, i - 1) /\ a # b)
      BY <3>1, <3>2, <3>3 DEF Pending
    <3> QED BY <3>4 DEF Pending
  <2>2. FreeObjects(p) = B \ {v}
    BY <1>6, <1>13 DEF FreeObjects
  <2> HIDE DEF A, B, b, t, q
  <2>3. Cardinality(A \ {b}) = Cardinality(A) - 1
    BY <1>3, <1>4, FS_RemoveElement DEF A
  <2>4. Cardinality(B \ {v}) = Cardinality(B) - 1
    BY <1>4, <1>5, FS_RemoveElement DEF B
  <2> QED BY <1>4, <2>1, <2>2, <2>3, <2>4 DEF A, B
<1>25. u.object = p /\ u.table = T /\ u.main = [w.main EXCEPT ![b] = v]
  BY <1>7
<1> HIDE DEF q, t, b
<1>26. \A y \in Object : p[y].field = q[y].field
  BY <1>13
<1>27. TakenInto(w, u, i, v, G)
  BY <1>6, <1>12, <1>14, <1>19, <1>21, <1>22, <1>23, <1>24, <1>25, <1>26
     DEF TakenInto, q, t, b
<1> QED BY <1>27

\* So every block of the program, and others, can be taken.
LEMMA TakenStep ==
  ASSUME NEW w, NEW i \in 1 .. LP, NEW G, Taking(w, i - 1, G), NEW u, u = Taken(w, i)
  PROVE  Taking(u, i, G)
<1> DEFINE b == HP + i
           t == w.table
           k == Lookup(t, b, NONE)
<1>1. t \in Seq(Entry)
  BY DEF Taking, Entered
<1>2. k # 0 => k \in DOMAIN t /\ t[k].copro = b
  <2>1. k # 0 => k \in DOMAIN t /\ (t[k].copro = b \/ t[k].main = NONE)
    BY <1>1, LookupIs
  <2>2. \A j \in DOMAIN t : t[j].main # NONE
    BY <1>1, EntryIs, Apart DEF Address
  <2> QED BY <2>1, <2>2
<1>3. CASE ~block[b].used \/ (k # 0 /\ t[k].ty = "nil")
  <2>1. u = w
    BY <1>3 DEF Taken
  <2>2. block[b].used => \E v : KnownAs(t, b, v)
    BY <1>2, <1>3 DEF KnownAs
  <2> QED BY <2>1, <2>2, TakenSkips
<1>4. CASE block[b].used /\ k # 0 /\ t[k].ty # "nil"
  <2>1. TakenInto(w, u, i, t[k].main, G)
    BY <1>2, <1>4, TakenKnown
  <2> QED BY <2>1, TakenKeeps
<1>5. CASE block[b].used /\ k = 0
  <2>1. \E v : TakenInto(w, u, i, v, G)
    BY <1>5, TakenNew
  <2> QED BY <2>1, TakenKeeps
<1> QED BY <1>3, <1>4, <1>5
\* The states of the first pass.
LEMMA TakenSteps ==
  \E at : /\ at[0] = NoneTaken
          /\ \A i \in 1 .. LP : at[i] = Taken(at[i - 1], i)
          /\ AllTaken = at[LP]
<1> DEFINE n == LP
           a == NoneTaken
           F(f, m) == [i \in 0 .. m |-> IF i = 0 THEN a ELSE Taken(f[i - 1], i)]
           T == {m \in 0 .. n : \E f : f = F(f, m)}
           at == CHOOSE f : f = F(f, n)
<1>1. n \in Nat
  BY Finite
<1>2. AllTaken = at[n]
  BY DEF AllTaken, Folded
<1> HIDE DEF a, n, at
<1>3. 0 \in T
  <2> DEFINE g == [i \in 0 .. 0 |-> a]
  <2>1. g = F(g, 0)
    OBVIOUS
  <2>2. 0 \in 0 .. n
    BY <1>1
  <2> QED BY <2>1, <2>2
<1>4. ASSUME NEW m \in 1 .. n, m - 1 \in T PROVE m \in T
  <2>1. PICK f : f = F(f, m - 1)
    BY <1>4
  <2> DEFINE g == [i \in 0 .. m |-> IF i = m THEN Taken(f[m - 1], m) ELSE f[i]]
  <2>2. \A i \in 0 .. m : g[i] = IF i = 0 THEN a ELSE Taken(g[i - 1], i)
    BY <2>1, <1>1
  <2>3. g = F(g, m)
    BY <2>2
  <2>4. m \in 0 .. n
    BY <1>1
  <2> QED BY <2>3, <2>4
<1>5. n \in T
  <2> HIDE DEF T
  <2> QED BY <1>1, <1>3, <1>4, Climb
<1>6. at = F(at, n)
  BY <1>5 DEF at
<1>7. at[0] = a /\ \A i \in 1 .. n : at[i] = Taken(at[i - 1], i)
  BY <1>6, <1>1
<1> QED BY <1>1, <1>2, <1>7 DEF a, n

\* Before it, the objects are counted and the table has the copies.
LEMMA NoneTakenIs ==
  ASSUME Counted(object, root), NEW G \in SUBSET Block, Carried(block, table, G),
         Cardinality({b \in Block : block[b].used /\ Lookup(table, b, NONE) = 0})
           <= Cardinality(FreeObjects(object))
  PROVE  Taking(NoneTaken, 0, G)
<1> DEFINE m == [b \in Block |-> Nil]
<1>1. NoneTaken.object = object /\ NoneTaken.table = table /\ NoneTaken.main = m
  BY DEF NoneTaken
<1>2. m \in [Block -> {Nil} \cup Object] /\ \A b \in Block : m[b] = Nil
  OBVIOUS
<1>3. table \in Seq(Entry) /\ Entered(table, object)
  BY DEF Carried, Entered
<1>4. \A b \in Block : ~ (b <= HP + 0)
  BY Finite DEF Block
<1> HIDE DEF m
<1>5. TakenObjects(object, m)
  <2>1. ASSUME NEW v \in Object
        PROVE  InFields(object, v) + InRoots(root, v) + Mains(m, 0, v) <= object[v].rc
    <3>1. {b \in Block : b > HP + 0 /\ m[b] = v} = {}
      BY <1>2, Apart
    <3>2. Mains(m, 0, v) = 0
      BY <3>1, FS_EmptySet DEF Mains
    <3>3. InFields(object, v) + InRoots(root, v) <= object[v].rc
      BY DEF Counted
    <3> QED BY <3>2, <3>3, Numbers
  <2> QED BY <1>2, <2>1 DEF TakenObjects, Counted
<1>6. ASSUME NEW b \in Block, NEW v, KnownAs(table, b, v) PROVE b \in G
  <2>1. PICK j \in DOMAIN table : table[j].copro = b
    BY <1>6 DEF KnownAs
  <2> QED BY <2>1, Apart DEF Carried
<1>7. TakenTable(table, m, 0, G)
  BY <1>2, <1>4, <1>6 DEF TakenTable
<1>8. Pending(table, 0) = {b \in Block : block[b].used /\ Lookup(table, b, NONE) = 0}
  <2>1. ASSUME NEW b \in Block
        PROVE  Lookup(table, b, NONE) = 0 <=> \A j \in DOMAIN table : table[j].copro # b
    <3>1. \A j \in DOMAIN table : table[j].main # NONE
      BY <1>3, EntryIs, Apart DEF Address
    <3>2. /\ Lookup(table, b, NONE) = 0 => \A j \in DOMAIN table : table[j].copro # b
          /\ Lookup(table, b, NONE) # 0 =>
               /\ Lookup(table, b, NONE) \in DOMAIN table
               /\ \/ table[Lookup(table, b, NONE)].copro = b
                  \/ table[Lookup(table, b, NONE)].main = NONE
      BY <1>3, LookupIs
    <3> QED BY <3>1, <3>2
  <2>2. \A b \in Block : b > HP + 0
    BY Finite DEF Block
  <2> QED BY <2>1, <2>2 DEF Pending
<1> QED BY <1>1, <1>3, <1>5, <1>7, <1>8 DEF Taking

\* After it every block is taken that has to be.
LEMMA AllTakenIs ==
  ASSUME Counted(object, root), NEW G \in SUBSET Block, Carried(block, table, G),
         Cardinality({b \in Block : block[b].used /\ Lookup(table, b, NONE) = 0})
           <= Cardinality(FreeObjects(object))
  PROVE  Taking(AllTaken, LP, G)
<1>1. PICK at : /\ at[0] = NoneTaken
                /\ \A i \in 1 .. LP : at[i] = Taken(at[i - 1], i)
                /\ AllTaken = at[LP]
  BY TakenSteps
<1> DEFINE T == {i \in 0 .. LP : Taking(at[i], i, G)}
<1>2. LP \in Nat
  BY Finite
<1>3. 0 \in T
  BY <1>1, <1>2, NoneTakenIs
<1>4. ASSUME NEW i \in 1 .. LP, i - 1 \in T PROVE i \in T
  <2>1. Taking(at[i - 1], i - 1, G) /\ at[i] = Taken(at[i - 1], i)
    BY <1>1, <1>4
  <2>2. Taking(at[i], i, G)
    BY <2>1, TakenStep
  <2> QED BY <1>2, <2>2
<1>5. LP \in T
  <2> HIDE DEF T
  <2> QED BY <1>2, <1>3, <1>4, Climb
<1> QED BY <1>1, <1>5

\* The value of a word is an object, nil or none.
LEMMA ValueType ==
  ASSUME NEW t \in Seq(Entry), NEW x
  PROVE  Value(t, x) \in {Nil, NONE} \cup Object
<1> DEFINE k == Lookup(t, x, x)
<1>1. k # 0 => k \in DOMAIN t /\ t[k].main \in {Nil} \cup Object
  BY LookupIs, EntryIs
<1> HIDE DEF k
<1> QED BY <1>1 DEF Value, k

\* What the program has is known when all blocks are taken.
LEMMA ValueKnown ==
  ASSUME NEW G \in SUBSET Block, Carried(block, table, G), NEW s, Taking(s, LP, G),
         NEW x \in Address, Leads(table, G, x)
  PROVE  Value(s.table, x) \in {Nil} \cup Object
<1> DEFINE t == s.table
           k == Lookup(t, x, x)
<1>1. t \in Seq(Entry) /\ TakenTable(t, s.main, LP, G)
  BY DEF Taking, Entered
<1> HIDE DEF t
<1>2. CASE x = Nil
  BY <1>2 DEF Value
<1>3. CASE x \in Object
  <2>1. InTable(t, x)
    BY <1>1, <1>3 DEF Leads, TakenTable
  <2>2. \E j \in DOMAIN t : t[j].main = x
    BY <2>1 DEF InTable
  <2>3. k # 0 /\ k \in DOMAIN t /\ t[k].main \in {Nil} \cup Object
    BY <1>1, <2>2, LookupIs, EntryIs
  <2> QED BY <2>3 DEF Value, t
<1>4. CASE x \in Block
  <2>1. block[x].used /\ x <= HP + LP
    BY <1>4, Finite DEF Leads, Carried, Block
  <2>2. \E j \in DOMAIN t : t[j].copro = x
    BY <1>1, <1>4, <2>1 DEF TakenTable, KnownAs
  <2>3. k # 0 /\ k \in DOMAIN t /\ t[k].main \in {Nil} \cup Object
    BY <1>1, <2>2, LookupIs, EntryIs
  <2> QED BY <2>3 DEF Value, t
<1> QED BY <1>2, <1>3, <1>4 DEF Address

\* Two blocks are not taken into the same object.
LEMMA MainsApart ==
  ASSUME NEW s, NEW G, Taking(s, LP, G), NEW a \in Block, NEW b \in Block,
         s.main[a] # Nil, s.main[a] = s.main[b]
  PROVE  a = b
<1>1. KnownAs(s.table, a, s.main[a]) /\ KnownAs(s.table, b, s.main[b])
  BY DEF Taking, TakenTable
<1>2. PICK i \in DOMAIN s.table : s.table[i].copro = a /\ s.table[i].main = s.main[a]
  BY <1>1 DEF KnownAs
<1>3. PICK j \in DOMAIN s.table : s.table[j].copro = b /\ s.table[j].main = s.main[b]
  BY <1>1 DEF KnownAs
<1>4. i = j
  BY <1>2, <1>3 DEF Taking, Entered
<1> QED BY <1>2, <1>3, <1>4
\* In the other passes the objects are held by their instance variables, and
\* e[y] times from outside; what is kept for the end does not count.
Kept(w, e) ==
  /\ w \in Worlds /\ Clean(w.object)
  /\ \A y \in Object : InFields(w.object, y) + e[y] <= Net(w, y)

\* Who holds an object keeps it alive.
LEMMA KeptAlive ==
  ASSUME NEW e \in [Object -> Nat], NEW w, Kept(w, e), NEW v \in Object,
         e[v] >= 1 \/ InFields(w.object, v) >= 1
  PROVE  w.object[v].rc >= 1
<1>1. InFields(w.object, v) + e[v] <= Net(w, v)
  BY DEF Kept
<1>2. Net(w, v) \in Int /\ Net(w, v) <= w.object[v].rc /\ w.object[v].rc \in Nat
  BY NetIsInt DEF Kept
<1>3. InFields(w.object, v) \in Nat /\ e[v] \in Nat
  BY Numbers
<1> QED BY <1>1, <1>2, <1>3

\* One of those who held v lets go of it.
LEMMA LetGo ==
  ASSUME NEW e \in [Object -> Nat], NEW d \in [Object -> Nat], NEW w, Kept(w, e),
         NEW v \in {Nil} \cup Object, \A y \in Object : d[y] + Is(v, y) = e[y],
         NEW u, u = SafeDecref(w, v)
  PROVE  Kept(u, d) /\ FieldsKept(w, u)
<1>1. ASSUME v \in Object PROVE w.object[v].rc >= 1
  <2>1. d[v] + 1 = e[v] /\ d[v] \in Nat
    BY <1>1 DEF Is
  <2> QED BY <1>1, <2>1, KeptAlive
<1>2. /\ u \in Worlds /\ Clean(u.object) /\ FieldsKept(w, u)
      /\ \A x \in Object : Net(u, x) >= Net(w, x) - (IF x = v THEN 1 ELSE 0)
  BY <1>1, SafeDecrefCounts DEF Kept
<1>3. ASSUME NEW y \in Object PROVE InFields(u.object, y) + d[y] <= Net(u, y)
  <2>1. InFields(u.object, y) = InFields(w.object, y)
    BY <1>2, SameFields DEF FieldsKept
  <2>2. InFields(w.object, y) + e[y] <= Net(w, y)
    BY DEF Kept
  <2>3. Net(u, y) \in Int /\ Net(w, y) \in Int
    BY <1>2, NetIsInt DEF Kept
  <2>4. Net(u, y) >= Net(w, y) - Is(v, y)
    BY <1>2 DEF Is
  <2>5. d[y] + Is(v, y) = e[y] /\ Is(v, y) \in Nat /\ d[y] \in Nat
    BY DEF Is
  <2> QED BY <2>1, <2>2, <2>3, <2>4, <2>5, Numbers
<1> QED BY <1>2, <1>3 DEF Kept

\* And one takes a value instead.
LEMMA TakesFor ==
  ASSUME NEW e \in [Object -> Nat], NEW d \in [Object -> Nat], NEW w, Kept(w, e),
         NEW v \in {Nil} \cup Object, v \in Object => e[v] >= 1,
         NEW t, NEW x, Value(t, x) \in {Nil} \cup Object,
         \A y \in Object : d[y] + Is(v, y) = e[y] + Is(Value(t, x), y),
         NEW u, u = Translated(w, t, v, x)
  PROVE  Kept(u, d) /\ FieldsKept(w, u)
<1> DEFINE n == Value(t, x)
<1>1. ASSUME v \in Object PROVE w.object[v].rc >= 1
  BY <1>1, KeptAlive
<1>2. /\ u \in Worlds /\ Clean(u.object) /\ FieldsKept(w, u)
      /\ \A y \in Object : Net(u, y) >= Net(w, y) - (IF y = v THEN 1 ELSE 0)
                                                  + (IF y = n THEN 1 ELSE 0)
  BY <1>1, TranslatedCounts DEF Kept
<1>3. \A y \in Object : d[y] + Is(v, y) = e[y] + Is(n, y)
  OBVIOUS
<1> HIDE DEF n
<1>4. ASSUME NEW y \in Object PROVE InFields(u.object, y) + d[y] <= Net(u, y)
  <2>1. InFields(u.object, y) = InFields(w.object, y)
    BY <1>2, SameFields DEF FieldsKept
  <2>2. InFields(w.object, y) + e[y] <= Net(w, y)
    BY DEF Kept
  <2>3. Net(u, y) \in Int /\ Net(w, y) \in Int
    BY <1>2, NetIsInt DEF Kept
  <2>4. Net(u, y) >= Net(w, y) - Is(v, y) + Is(n, y)
    BY <1>2 DEF Is
  <2>5. /\ d[y] + Is(v, y) = e[y] + Is(n, y)
        /\ Is(v, y) \in Nat /\ Is(n, y) \in Nat /\ d[y] \in Nat /\ e[y] \in Nat
    BY <1>3 DEF Is
  <2> QED BY <2>1, <2>2, <2>3, <2>4, <2>5, Numbers
<1> QED BY <1>2, <1>4 DEF Kept

\* An instance variable of v gets n for the value it had.
FieldPut(w, c, u, v, f, n) ==
  /\ v \in Object /\ f \in Field /\ n \in {Nil} \cup Object
  /\ c \in Worlds /\ Clean(c.object) /\ FieldsKept(w, c)
  /\ \A y \in Object : Net(c, y) >= Net(w, y) - Is(w.object[v].field[f], y) + Is(n, y)
  /\ u = [c EXCEPT !.object[v].field[f] = n]

\* An instance variable is put, and its object is held: the counts are kept.
LEMMA FieldPutKeeps ==
  ASSUME NEW e \in [Object -> Nat], NEW w, Kept(w, e), NEW c, NEW u, NEW v, NEW f,
         NEW n,
         FieldPut(w, c, u, v, f, n), e[v] >= 1
  PROVE  /\ Kept(u, e)
         /\ \A y \in Object, g \in Field :
              u.object[y].field[g] = IF y = v /\ g = f THEN n ELSE w.object[y].field[g]
<1> DEFINE o == c.object
           p == u.object
           old == w.object[v].field[f]
<1>1. v \in Object /\ f \in Field /\ n \in {Nil} \cup Object
  BY DEF FieldPut
<1>2. o \in ObjectMap /\ \A y \in Object : o[y].field = w.object[y].field
  BY DEF FieldPut, Worlds, FieldsKept
<1>3. \A y \in Object : o[y] \in [rc : Nat, field : [Field -> {Nil} \cup Object]]
  BY <1>2 DEF ObjectMap
<1>4. u \in Worlds /\ p = [o EXCEPT ![v].field[f] = n] /\ u.buf = c.buf
  <2>1. [o EXCEPT ![v].field[f] = n] \in ObjectMap
    BY <1>1, <1>2, <1>3 DEF ObjectMap
  <2>2. u = [c EXCEPT !.object = [o EXCEPT ![v].field[f] = n]]
    BY DEF FieldPut, Worlds
  <2>3. c \in Worlds
    BY DEF FieldPut
  <2> QED BY <2>1, <2>2, <2>3 DEF Worlds
<1>5. \A y \in Object : /\ p[y].rc = o[y].rc
                        /\ \A g \in Field :
                             p[y].field[g] = IF y = v /\ g = f THEN n ELSE o[y].field[g]
  BY <1>1, <1>2, <1>3, <1>4 DEF ObjectMap
<1>6. \A y \in Object : y # v => p[y].field = o[y].field
  BY <1>1, <1>2, <1>4 DEF ObjectMap
<1>7. \A y \in Object, g \in Field :
        p[y].field[g] = IF y = v /\ g = f THEN n ELSE w.object[y].field[g]
  BY <1>2, <1>5
<1> HIDE DEF o, p
<1>8. ASSUME NEW y \in Object PROVE InFields(p, y) + e[y] <= Net(u, y)
  <2> DEFINE q == w.object
  <2>1. InFields(p, y) + Is(q[v].field[f], y) = InFields(q, y) + Is(p[v].field[f], y)
    <3>1. \A k \in Object, g \in Field :
            k # v \/ g # f => q[k].field[g] = p[k].field[g]
      BY <1>7
    <3> HIDE DEF q
    <3> QED BY <1>1, <3>1, FieldChange, SMTT(30)
  <2>2. p[v].field[f] = n /\ q[v].field[f] = old
    BY <1>1, <1>7
  <2>3. InFields(q, y) + e[y] <= Net(w, y)
    BY DEF Kept
  <2>4. Net(u, y) = Net(c, y)
    BY <1>4, <1>5 DEF Net, o, p
  <2>5. Net(c, y) >= Net(w, y) - Is(old, y) + Is(n, y)
    BY DEF FieldPut
  <2>6. Net(c, y) \in Int /\ Net(w, y) \in Int /\ e[y] \in Nat
        /\ Is(old, y) \in Nat /\ Is(n, y) \in Nat
    BY NetIsInt DEF Kept, FieldPut, Is
  <2> HIDE DEF q, old
  <2> QED BY <2>1, <2>2, <2>3, <2>4, <2>5, <2>6, Numbers
<1>9. Clean(p)
  <2>1. Net(u, v) \in Int /\ Net(u, v) <= p[v].rc /\ p[v].rc \in Nat
    BY <1>1, <1>4, NetIsInt DEF p
  <2>2. p[v].rc # 0
    <3>1. InFields(p, v) + e[v] <= Net(u, v) /\ e[v] >= 1 /\ e[v] \in Nat
      BY <1>1, <1>8
    <3> QED BY <2>1, <3>1, Numbers
  <2>3. Clean(o)
    BY DEF FieldPut, o
  <2> QED BY <1>5, <1>6, <2>2, <2>3 DEF Clean
<1> QED BY <1>4, <1>7, <1>8, <1>9 DEF Kept, p
\* Instance variables that come after f of the block b, or of a later block, are
\* still nil, if the program could not have the block.
Unread(o, m, G, b, f) ==
  \A a \in Block \ G, g \in Field :
    m[a] # Nil /\ (a > b \/ (a = b /\ g > f)) => o[m[a]].field[g] = Nil

\* Those up to f of the block b that the program could have have the values of the
\* words, and objects that no block was taken into are as they were.
Written(o, s, G, b, f) ==
  /\ \A a \in G, g \in Field :
       s.main[a] # Nil /\ (a < b \/ (a = b /\ g <= f)) =>
         o[s.main[a]].field[g] = Value(s.table, block[a].word[g])
  /\ \A v \in Object, g \in Field :
       (\A a \in Block : s.main[a] # v) => o[v].field[g] = object[v].field[g]

\* The word of an instance variable is taken over.
LEMMA FieldUpdates ==
  ASSUME NEW G \in SUBSET Block, Carried(block, table, G), NEW s, Taking(s, LP, G),
         NEW e \in [Object -> Nat], NEW w, Kept(w, e), NEW b \in Block, NEW f \in Field,
         s.main[b] # Nil, e[s.main[b]] >= 1, Unread(w.object, s.main, G, b, f - 1),
         Written(w.object, s, G, b, f - 1),
         NEW u, u = FieldUpdated(w, s.table, s.main[b], b, f)
  PROVE  Kept(u, e) /\ Unread(u.object, s.main, G, b, f) /\ Written(u.object, s, G, b, f)
<1> DEFINE t == s.table
           m == s.main
           v == m[b]
           old == w.object[v].field[f]
           x == block[b].word[f]
           c == Translated(w, t, old, x)
           n == Result(t, old, x)
<1>1. m \in [Block -> {Nil} \cup Object] /\ v \in Object /\ t \in Seq(Entry)
  BY DEF Taking, TakenObjects, Entered
<1>2. old \in {Nil} \cup Object
  BY <1>1 DEF Kept, Worlds, ObjectMap
<1>3. u = [c EXCEPT !.object[v].field[f] = n]
  BY DEF FieldUpdated
<1>4. f \in Nat /\ b \in Nat
  BY Finite, Apart DEF Field
<1>5. b \in G => Result(t, old, x) = Value(t, x)
  <2>1. ASSUME b \in G PROVE Value(t, x) # NONE
    <3>1. x \in Address /\ Leads(table, G, x)
      BY <2>1 DEF Carried, BlockMap
    <3> HIDE DEF x
    <3>2. Value(t, x) \in {Nil} \cup Object
      BY <3>1, ValueKnown
    <3> QED BY <3>2, Apart DEF Address
  <2> QED BY <2>1 DEF Result
<1>6. FieldPut(w, c, u, v, f, n)
  <2>1. CASE Value(t, x) # NONE
    <3>1. Value(t, x) \in {Nil} \cup Object /\ n = Value(t, x)
      BY <1>1, <2>1, ValueType DEF Result
    <3>2. ASSUME old \in Object PROVE w.object[old].rc >= 1
      <4>1. InFields(w.object, old) >= 1
        BY <1>1, FieldCounts
      <4> HIDE DEF old
      <4> QED BY <3>2, <4>1, KeptAlive
    <3> HIDE DEF old, x, v, t, m
    <3>3. /\ c \in Worlds /\ Clean(c.object) /\ FieldsKept(w, c)
          /\ \A y \in Object : Net(c, y) >= Net(w, y) - (IF y = old THEN 1 ELSE 0)
                                                    + (IF y = Value(t, x) THEN 1 ELSE 0)
      BY <1>2, <3>1, <3>2, TranslatedCounts DEF Kept
    <3> HIDE DEF c, n
    <3>4. \A y \in Object : Net(c, y) >= Net(w, y) - Is(old, y) + Is(n, y)
      BY <3>1, <3>3 DEF Is
    <3> QED BY <1>1, <1>3, <3>1, <3>3, <3>4 DEF FieldPut, old
  <2>2. CASE Value(t, x) = NONE
    <3>1. b \notin G
      <4>1. ASSUME b \in G PROVE FALSE
        <5>1. x \in Address /\ Leads(table, G, x)
          BY <4>1 DEF Carried, BlockMap
        <5> HIDE DEF x
        <5>2. Value(t, x) \in {Nil} \cup Object
          BY <5>1, ValueKnown
        <5> QED BY <2>2, <5>2, Apart DEF Address
      <4> QED BY <4>1
    <3>2. old = Nil
      BY <1>1, <1>4, <3>1 DEF Unread
    <3>3. c = w /\ n = Nil
      BY <2>2, <3>2 DEF Translated, SafeDecref, Result
    <3> HIDE DEF c, n, old, x, v, t, m
    <3>4. \A y \in Object : Net(w, y) \in Int
      BY NetIsInt DEF Kept
    <3>5. \A y \in Object : Net(w, y) >= Net(w, y) - Is(old, y) + Is(n, y)
      BY <3>2, <3>3, <3>4 DEF Is
    <3>6. FieldsKept(w, w) /\ w \in Worlds /\ Clean(w.object)
      BY DEF FieldsKept, Kept
    <3> QED BY <1>1, <1>3, <3>3, <3>5, <3>6 DEF FieldPut, old
  <2> QED BY <2>1, <2>2
<1>7. e[v] >= 1
  OBVIOUS
<1> HIDE DEF c, n, old, x, v, t, m
<1>8. /\ Kept(u, e)
      /\ \A y \in Object, g \in Field :
           u.object[y].field[g] = IF y = v /\ g = f THEN n ELSE w.object[y].field[g]
  BY <1>6, <1>7, FieldPutKeeps
<1>9. ASSUME NEW a \in Block \ G, NEW g \in Field, m[a] # Nil, a > b \/ (a = b /\ g > f)
      PROVE  u.object[m[a]].field[g] = Nil
  <2>1. w.object[m[a]].field[g] = Nil
    <3>1. a > b \/ (a = b /\ g > f - 1)
      BY <1>4, <1>9, Finite DEF Field
    <3> QED BY <1>9, <3>1 DEF Unread, m
  <2>2. m[a] \in Object
    BY <1>1, <1>9
  <2>3. m[a] # v \/ g # f
    <3>1. m[a] = v => a = b
      BY <1>9, MainsApart DEF m, v
    <3> QED BY <1>4, <1>9, <3>1, Finite DEF Field
  <2> QED BY <1>8, <2>1, <2>2, <2>3
<1>10. ASSUME NEW a \in G, NEW g \in Field, m[a] # Nil, a < b \/ (a = b /\ g <= f)
      PROVE  u.object[m[a]].field[g] = Value(t, block[a].word[g])
  <2>1. m[a] \in Object /\ a \in Block
    BY <1>1, <1>10
  <2>2. m[a] = v => a = b
    BY <1>10, <2>1, MainsApart DEF m, v
  <2>3. CASE a = b /\ g = f
    <3>1. n = Value(t, block[a].word[g])
      BY <1>5, <2>3 DEF n, x
    <3> QED BY <1>8, <2>1, <2>3, <3>1 DEF v
  <2>4. CASE ~(a = b /\ g = f)
    <3>1. a < b \/ (a = b /\ g <= f - 1)
      BY <1>4, <1>10, <2>4, Finite DEF Field
    <3>2. w.object[m[a]].field[g] = Value(t, block[a].word[g])
      BY <1>10, <3>1 DEF Written, m, t
    <3> QED BY <1>8, <2>1, <2>2, <2>4, <3>2
  <2> QED BY <2>3, <2>4
<1>11. ASSUME NEW y \in Object, NEW g \in Field, \A a \in Block : m[a] # y
       PROVE  u.object[y].field[g] = object[y].field[g]
  <2>1. y # v
    BY <1>11 DEF v
  <2>2. w.object[y].field[g] = object[y].field[g]
    BY <1>11 DEF Written, m
  <2> QED BY <1>8, <2>1, <2>2
<1>12. Unread(u.object, m, G, b, f)
  BY <1>9 DEF Unread
<1>13. Written(u.object, s, G, b, f)
  BY <1>10, <1>11 DEF Written, m, t
<1> QED BY <1>8, <1>12, <1>13 DEF m
\* The states of an object whose instance variables are taken over.
UpdatedThrough(w, t, v, b, at) ==
  /\ at[0] = w
  /\ \A i \in 1 .. FIELDS : at[i] = FieldUpdated(at[i - 1], t, v, b, i)
  /\ Updated(w, t, v, b) = at[FIELDS]

\* There are such states.
LEMMA UpdatedSteps ==
  ASSUME NEW w, NEW t, NEW v, NEW b, v # Nil
  PROVE  \E at : UpdatedThrough(w, t, v, b, at)
<1> DEFINE n == FIELDS
           a == w
           F(f, m) == [i \in 0 .. m |->
                        IF i = 0 THEN a ELSE FieldUpdated(f[i - 1], t, v, b, i)]
           T == {m \in 0 .. n : \E f : f = F(f, m)}
           at == CHOOSE f : f = F(f, n)
<1>1. n \in Nat
  BY Finite
<1>2. Updated(w, t, v, b) = at[n]
  BY DEF Updated, Folded
<1> HIDE DEF a, n, at
<1>3. 0 \in T
  <2> DEFINE g == [i \in 0 .. 0 |-> a]
  <2>1. g = F(g, 0)
    OBVIOUS
  <2>2. 0 \in 0 .. n
    BY <1>1
  <2> QED BY <2>1, <2>2
<1>4. ASSUME NEW m \in 1 .. n, m - 1 \in T PROVE m \in T
  <2>1. PICK f : f = F(f, m - 1)
    BY <1>4
  <2> DEFINE g == [i \in 0 .. m |->
                    IF i = m THEN FieldUpdated(f[m - 1], t, v, b, m) ELSE f[i]]
  <2>2. \A i \in 0 .. m : g[i] = IF i = 0 THEN a ELSE FieldUpdated(g[i - 1], t, v, b, i)
    BY <2>1, <1>1
  <2>3. g = F(g, m)
    BY <2>2
  <2>4. m \in 0 .. n
    BY <1>1
  <2> QED BY <2>3, <2>4
<1>5. n \in T
  <2> HIDE DEF T
  <2> QED BY <1>1, <1>3, <1>4, Climb
<1>6. at = F(at, n)
  BY <1>5 DEF at
<1>7. at[0] = a /\ \A i \in 1 .. n : at[i] = FieldUpdated(at[i - 1], t, v, b, i)
  BY <1>6, <1>1
<1> QED BY <1>1, <1>2, <1>7 DEF a, n, UpdatedThrough

\* The states of the pass over all objects.
AllUpdatedThrough(s, at) ==
  /\ at[0] = NoneUpdated(s)
  /\ \A i \in 1 .. LP : at[i] = Updated(at[i - 1], s.table, s.main[HP + i], HP + i)
  /\ AllUpdated(s) = at[LP]

\* There are such states.
LEMMA AllUpdatedSteps ==
  ASSUME NEW s
  PROVE  \E at : AllUpdatedThrough(s, at)
<1> DEFINE n == LP
           a == NoneUpdated(s)
           F(f, m) == [i \in 0 .. m |->
                        IF i = 0 THEN a
                        ELSE Updated(f[i - 1], s.table, s.main[HP + i], HP + i)]
           T == {m \in 0 .. n : \E f : f = F(f, m)}
           at == CHOOSE f : f = F(f, n)
<1>1. n \in Nat
  BY Finite
<1>2. AllUpdated(s) = at[n]
  BY DEF AllUpdated, Folded
<1> HIDE DEF a, n, at
<1>3. 0 \in T
  <2> DEFINE g == [i \in 0 .. 0 |-> a]
  <2>1. g = F(g, 0)
    OBVIOUS
  <2>2. 0 \in 0 .. n
    BY <1>1
  <2> QED BY <2>1, <2>2
<1>4. ASSUME NEW m \in 1 .. n, m - 1 \in T PROVE m \in T
  <2>1. PICK f : f = F(f, m - 1)
    BY <1>4
  <2> DEFINE g == [i \in 0 .. m |->
                    IF i = m THEN Updated(f[m - 1], s.table, s.main[HP + m], HP + m)
                    ELSE f[i]]
  <2>2. \A i \in 0 .. m : g[i] = IF i = 0 THEN a
                                ELSE Updated(g[i - 1], s.table, s.main[HP + i], HP + i)
    BY <2>1, <1>1
  <2>3. g = F(g, m)
    BY <2>2
  <2>4. m \in 0 .. n
    BY <1>1
  <2> QED BY <2>3, <2>4
<1>5. n \in T
  <2> HIDE DEF T
  <2> QED BY <1>1, <1>3, <1>4, Climb
<1>6. at = F(at, n)
  BY <1>5 DEF at
<1>7. /\ at[0] = a
      /\ \A i \in 1 .. n : at[i] = Updated(at[i - 1], s.table, s.main[HP + i], HP + i)
  BY <1>6, <1>1
<1> QED BY <1>1, <1>2, <1>7 DEF a, n, AllUpdatedThrough

\* The states of the pass that lets go of the objects.
ReleasedThrough(w, main, at) ==
  /\ at[0] = w
  /\ \A i \in 1 .. LP : at[i] = SafeDecref(at[i - 1], main[HP + i])
  /\ AllReleased(w, main) = at[LP]

\* There are such states.
LEMMA ReleasedSteps ==
  ASSUME NEW w, NEW main
  PROVE  \E at : ReleasedThrough(w, main, at)
<1> DEFINE n == LP
           a == w
           F(f, m) == [i \in 0 .. m |->
                        IF i = 0 THEN a ELSE SafeDecref(f[i - 1], main[HP + i])]
           T == {m \in 0 .. n : \E f : f = F(f, m)}
           at == CHOOSE f : f = F(f, n)
<1>1. n \in Nat
  BY Finite
<1>2. AllReleased(w, main) = at[n]
  BY DEF AllReleased, Folded
<1> HIDE DEF a, n, at
<1>3. 0 \in T
  <2> DEFINE g == [i \in 0 .. 0 |-> a]
  <2>1. g = F(g, 0)
    OBVIOUS
  <2>2. 0 \in 0 .. n
    BY <1>1
  <2> QED BY <2>1, <2>2
<1>4. ASSUME NEW m \in 1 .. n, m - 1 \in T PROVE m \in T
  <2>1. PICK f : f = F(f, m - 1)
    BY <1>4
  <2> DEFINE g == [i \in 0 .. m |->
                    IF i = m THEN SafeDecref(f[m - 1], main[HP + m]) ELSE f[i]]
  <2>2. \A i \in 0 .. m : g[i] = IF i = 0 THEN a ELSE SafeDecref(g[i - 1], main[HP + i])
    BY <2>1, <1>1
  <2>3. g = F(g, m)
    BY <2>2
  <2>4. m \in 0 .. n
    BY <1>1
  <2> QED BY <2>3, <2>4
<1>5. n \in T
  <2> HIDE DEF T
  <2> QED BY <1>1, <1>3, <1>4, Climb
<1>6. at = F(at, n)
  BY <1>5 DEF at
<1>7. at[0] = a /\ \A i \in 1 .. n : at[i] = SafeDecref(at[i - 1], main[HP + i])
  BY <1>6, <1>1
<1> QED BY <1>1, <1>2, <1>7 DEF a, n, ReleasedThrough

\* The states when the global variables are received.
GlobalsReceivedThrough(w, t, at) ==
  /\ at[0] = w
  /\ \A i \in 1 .. GLOBALS : at[i] = GlobalReceived(at[i - 1], t, REGS + i)
  /\ GlobalsReceived(w, t) = at[GLOBALS]

\* There are such states.
LEMMA GlobalsReceivedSteps ==
  ASSUME NEW w, NEW t
  PROVE  \E at : GlobalsReceivedThrough(w, t, at)
<1> DEFINE n == GLOBALS
           a == w
           F(f, m) == [i \in 0 .. m |->
                        IF i = 0 THEN a ELSE GlobalReceived(f[i - 1], t, REGS + i)]
           T == {m \in 0 .. n : \E f : f = F(f, m)}
           at == CHOOSE f : f = F(f, n)
<1>1. n \in Nat
  BY Finite
<1>2. GlobalsReceived(w, t) = at[n]
  BY DEF GlobalsReceived, Folded
<1> HIDE DEF a, n, at
<1>3. 0 \in T
  <2> DEFINE g == [i \in 0 .. 0 |-> a]
  <2>1. g = F(g, 0)
    OBVIOUS
  <2>2. 0 \in 0 .. n
    BY <1>1
  <2> QED BY <2>1, <2>2
<1>4. ASSUME NEW m \in 1 .. n, m - 1 \in T PROVE m \in T
  <2>1. PICK f : f = F(f, m - 1)
    BY <1>4
  <2> DEFINE g == [i \in 0 .. m |->
                    IF i = m THEN GlobalReceived(f[m - 1], t, REGS + m) ELSE f[i]]
  <2>2. \A i \in 0 .. m : g[i] = IF i = 0 THEN a
                                ELSE GlobalReceived(g[i - 1], t, REGS + i)
    BY <2>1, <1>1
  <2>3. g = F(g, m)
    BY <2>2
  <2>4. m \in 0 .. n
    BY <1>1
  <2> QED BY <2>3, <2>4
<1>5. n \in T
  <2> HIDE DEF T
  <2> QED BY <1>1, <1>3, <1>4, Climb
<1>6. at = F(at, n)
  BY <1>5 DEF at
<1>7. at[0] = a /\ \A i \in 1 .. n : at[i] = GlobalReceived(at[i - 1], t, REGS + i)
  BY <1>6, <1>1
<1> QED BY <1>1, <1>2, <1>7 DEF a, n, GlobalsReceivedThrough

\* The states when the registers are built.
RegsBuiltThrough(w, t, at) ==
  /\ at[0] = w
  /\ \A i \in 1 .. REGS : at[i] = Translated(at[i - 1], t, Nil, cell[i])
  /\ RegsBuilt(w, t) = at[REGS]

\* There are such states.
LEMMA RegsBuiltSteps ==
  ASSUME NEW w, NEW t
  PROVE  \E at : RegsBuiltThrough(w, t, at)
<1> DEFINE n == REGS
           a == w
           F(f, m) == [i \in 0 .. m |->
                        IF i = 0 THEN a ELSE Translated(f[i - 1], t, Nil, cell[i])]
           T == {m \in 0 .. n : \E f : f = F(f, m)}
           at == CHOOSE f : f = F(f, n)
<1>1. n \in Nat
  BY Finite
<1>2. RegsBuilt(w, t) = at[n]
  BY DEF RegsBuilt, Folded
<1> HIDE DEF a, n, at
<1>3. 0 \in T
  <2> DEFINE g == [i \in 0 .. 0 |-> a]
  <2>1. g = F(g, 0)
    OBVIOUS
  <2>2. 0 \in 0 .. n
    BY <1>1
  <2> QED BY <2>1, <2>2
<1>4. ASSUME NEW m \in 1 .. n, m - 1 \in T PROVE m \in T
  <2>1. PICK f : f = F(f, m - 1)
    BY <1>4
  <2> DEFINE g == [i \in 0 .. m |->
                    IF i = m THEN Translated(f[m - 1], t, Nil, cell[m]) ELSE f[i]]
  <2>2. \A i \in 0 .. m : g[i] = IF i = 0 THEN a
                                ELSE Translated(g[i - 1], t, Nil, cell[i])
    BY <2>1, <1>1
  <2>3. g = F(g, m)
    BY <2>2
  <2>4. m \in 0 .. n
    BY <1>1
  <2> QED BY <2>3, <2>4
<1>5. n \in T
  <2> HIDE DEF T
  <2> QED BY <1>1, <1>3, <1>4, Climb
<1>6. at = F(at, n)
  BY <1>5 DEF at
<1>7. at[0] = a /\ \A i \in 1 .. n : at[i] = Translated(at[i - 1], t, Nil, cell[i])
  BY <1>6, <1>1
<1> QED BY <1>1, <1>2, <1>7 DEF a, n, RegsBuiltThrough

\* The states when the old registers are dropped.
RegsDroppedThrough(w, at) ==
  /\ at[0] = w
  /\ \A i \in 1 .. REGS : at[i] = SafeDecref(at[i - 1], root[i])
  /\ RegsDropped(w) = at[REGS]

\* There are such states.
LEMMA RegsDroppedSteps ==
  ASSUME NEW w
  PROVE  \E at : RegsDroppedThrough(w, at)
<1> DEFINE n == REGS
           a == w
           F(f, m) == [i \in 0 .. m |->
                        IF i = 0 THEN a ELSE SafeDecref(f[i - 1], root[i])]
           T == {m \in 0 .. n : \E f : f = F(f, m)}
           at == CHOOSE f : f = F(f, n)
<1>1. n \in Nat
  BY Finite
<1>2. RegsDropped(w) = at[n]
  BY DEF RegsDropped, Folded
<1> HIDE DEF a, n, at
<1>3. 0 \in T
  <2> DEFINE g == [i \in 0 .. 0 |-> a]
  <2>1. g = F(g, 0)
    OBVIOUS
  <2>2. 0 \in 0 .. n
    BY <1>1
  <2> QED BY <2>1, <2>2
<1>4. ASSUME NEW m \in 1 .. n, m - 1 \in T PROVE m \in T
  <2>1. PICK f : f = F(f, m - 1)
    BY <1>4
  <2> DEFINE g == [i \in 0 .. m |->
                    IF i = m THEN SafeDecref(f[m - 1], root[m]) ELSE f[i]]
  <2>2. \A i \in 0 .. m : g[i] = IF i = 0 THEN a ELSE SafeDecref(g[i - 1], root[i])
    BY <2>1, <1>1
  <2>3. g = F(g, m)
    BY <2>2
  <2>4. m \in 0 .. n
    BY <1>1
  <2> QED BY <2>3, <2>4
<1>5. n \in T
  <2> HIDE DEF T
  <2> QED BY <1>1, <1>3, <1>4, Climb
<1>6. at = F(at, n)
  BY <1>5 DEF at
<1>7. at[0] = a /\ \A i \in 1 .. n : at[i] = SafeDecref(at[i - 1], root[i])
  BY <1>6, <1>1
<1> QED BY <1>1, <1>2, <1>7 DEF a, n, RegsDroppedThrough

\* The object of a block is taken over, with all its instance variables.
LEMMA Updates ==
  ASSUME NEW G \in SUBSET Block, Carried(block, table, G), NEW s, Taking(s, LP, G),
         NEW e \in [Object -> Nat], \A b \in Block : s.main[b] # Nil => e[s.main[b]] >= 1,
         NEW w, Kept(w, e), NEW i \in 1 .. LP,
         Unread(w.object, s.main, G, HP + (i - 1), FIELDS),
         Written(w.object, s, G, HP + (i - 1), FIELDS),
         NEW u, u = Updated(w, s.table, s.main[HP + i], HP + i)
  PROVE  /\ Kept(u, e)
         /\ Unread(u.object, s.main, G, HP + i, FIELDS)
         /\ Written(u.object, s, G, HP + i, FIELDS)
<1> DEFINE b == HP + i
           v == s.main[b]
<1>1. /\ b \in Block /\ HP \in Nat /\ i \in Nat /\ FIELDS \in Nat /\ Field = 1 .. FIELDS
      /\ Block \subseteq Nat
      /\ \A a \in Block : a < b <=> a <= HP + (i - 1)
  BY Finite, Apart DEF Block, Field
<1>2. CASE v = Nil
  <2>1. u = w
    BY <1>2 DEF Updated
  <2>2. ASSUME NEW a \in Block \ G, NEW g \in Field, s.main[a] # Nil,
               a > b \/ (a = b /\ g > FIELDS)
        PROVE  w.object[s.main[a]].field[g] = Nil
    <3>1. a > HP + (i - 1)
      BY <1>1, <2>2
    <3> QED BY <2>2, <3>1 DEF Unread
  <2>3. ASSUME NEW a \in G, NEW g \in Field, s.main[a] # Nil,
               a < b \/ (a = b /\ g <= FIELDS)
        PROVE  w.object[s.main[a]].field[g] = Value(s.table, block[a].word[g])
    <3>1. a # b
      BY <1>2, <2>3
    <3>2. a < HP + (i - 1) \/ (a = HP + (i - 1) /\ g <= FIELDS)
      BY <1>1, <2>3, <3>1
    <3> QED BY <2>3, <3>2 DEF Written
  <2>4. Unread(w.object, s.main, G, b, FIELDS)
    BY <2>2 DEF Unread
  <2>5. Written(w.object, s, G, b, FIELDS)
    BY <2>3 DEF Written
  <2> QED BY <2>1, <2>4, <2>5
<1>3. CASE v # Nil
  <2> DEFINE n == FIELDS
  <2>1. PICK at : /\ at[0] = w
                  /\ \A f \in 1 .. n : at[f] = FieldUpdated(at[f - 1], s.table, v, b, f)
                  /\ u = at[n]
    <3>1. u = Updated(w, s.table, v, b) /\ v # Nil
      BY <1>3
    <3> HIDE DEF v, b
    <3>2. \E at : UpdatedThrough(w, s.table, v, b, at)
      BY <3>1, UpdatedSteps
    <3> QED BY <3>1, <3>2 DEF UpdatedThrough
  <2> DEFINE T == {f \in 0 .. n : /\ Kept(at[f], e)
                                  /\ Unread(at[f].object, s.main, G, b, f)
                                  /\ Written(at[f].object, s, G, b, f)}
  <2>2. Unread(w.object, s.main, G, b, 0)
    <3> SUFFICES ASSUME NEW a \in Block \ G, NEW g \in Field, s.main[a] # Nil,
                        a > b \/ (a = b /\ g > 0)
                 PROVE  w.object[s.main[a]].field[g] = Nil
      BY DEF Unread
    <3>1. a > HP + (i - 1)
      BY <1>1
    <3> QED BY <3>1 DEF Unread
  <2>3. Written(w.object, s, G, b, 0)
    <3>1. ASSUME NEW a \in G, NEW g \in Field, s.main[a] # Nil,
                 a < b \/ (a = b /\ g <= 0)
          PROVE  w.object[s.main[a]].field[g] = Value(s.table, block[a].word[g])
      <4>1. a < HP + (i - 1) \/ (a = HP + (i - 1) /\ g <= FIELDS)
        BY <1>1, <3>1
      <4> QED BY <3>1, <4>1 DEF Written
    <3> QED BY <3>1 DEF Written
  <2>4. 0 \in T
    BY <1>1, <2>1, <2>2, <2>3
  <2>5. ASSUME NEW f \in 1 .. n, f - 1 \in T PROVE f \in T
    <3>1. /\ Kept(at[f - 1], e) /\ Unread(at[f - 1].object, s.main, G, b, f - 1)
          /\ Written(at[f - 1].object, s, G, b, f - 1)
          /\ at[f] = FieldUpdated(at[f - 1], s.table, s.main[b], b, f) /\ f \in Field
      BY <1>1, <2>1, <2>5
    <3>2. e[s.main[b]] >= 1 /\ s.main[b] # Nil
      BY <1>1, <1>3
    <3> HIDE DEF b
    <3>3. /\ Kept(at[f], e) /\ Unread(at[f].object, s.main, G, b, f)
          /\ Written(at[f].object, s, G, b, f)
      BY <1>1, <3>1, <3>2, FieldUpdates
    <3> QED BY <1>1, <3>3
  <2>6. n \in T
    <3>1. n \in Nat
      BY <1>1
    <3> HIDE DEF T, n
    <3> QED BY <2>4, <2>5, <3>1, Climb
  <2> QED BY <2>1, <2>6
<1> QED BY <1>2, <1>3

\* mrbcopro_objman_receive: the objects that were taken are held by the variables
\* and once each for their block, and all that they hold is counted.
LEMMA AllUpdatedKeeps ==
  ASSUME NEW G \in SUBSET Block, Carried(block, table, G), NEW s, Taking(s, LP, G),
         NEW e \in [Object -> Nat],
         \A y \in Object : e[y] = InRoots(root, y) + Mains(s.main, 0, y)
  PROVE  Kept(AllUpdated(s), e) /\ Written(AllUpdated(s).object, s, G, HP + LP, FIELDS)
<1> DEFINE a == NoneUpdated(s)
           m == s.main
<1>1. PICK at : /\ at[0] = a
                /\ \A i \in 1 .. LP :
                     at[i] = Updated(at[i - 1], s.table, m[HP + i], HP + i)
                /\ AllUpdated(s) = at[LP]
  <2>1. \E at : AllUpdatedThrough(s, at)
    BY AllUpdatedSteps
  <2> QED BY <2>1 DEF AllUpdatedThrough
<1>2. TakenObjects(s.object, m) /\ TakenTable(s.table, m, LP, G)
  BY DEF Taking
<1>3. Kept(a, e)
  <2>1. a \in Worlds /\ Clean(a.object) /\ a.object = s.object /\ a.buf = {}
    BY <1>2 DEF Worlds, TakenObjects, NoneUpdated
  <2> HIDE DEF a, m
  <2>2. ASSUME NEW y \in Object PROVE InFields(a.object, y) + e[y] <= Net(a, y)
    <3>1. InFields(object, y) + InRoots(root, y) + Mains(m, 0, y) <= s.object[y].rc
      BY <1>2 DEF TakenObjects
    <3>2. InFields(a.object, y) = InFields(object, y)
      <4>1. \A z \in Object : a.object[z].field = object[z].field
        BY <1>2, <2>1 DEF TakenObjects
      <4> QED BY <4>1, SameFields
    <3>3. Net(a, y) = s.object[y].rc /\ s.object[y].rc \in Nat
      BY <1>2, <2>1 DEF Net, TakenObjects, ObjectMap
    <3>4. e[y] = InRoots(root, y) + Mains(m, 0, y)
      BY DEF m
    <3> QED BY <3>1, <3>2, <3>3, <3>4, Numbers, MainsIs
  <2> QED BY <2>1, <2>2 DEF Kept
<1>4. Unread(a.object, m, G, HP + 0, FIELDS)
  <2> SUFFICES ASSUME NEW c \in Block \ G, NEW g \in Field, m[c] # Nil
               PROVE  a.object[m[c]].field[g] = Nil
    BY DEF Unread
  <2>1. m[c] \in Object /\ object[m[c]].field = Blank
    BY <1>2 DEF TakenObjects, TakenTable
  <2>2. a.object[m[c]].field = object[m[c]].field
    BY <1>2, <2>1 DEF TakenObjects, NoneUpdated
  <2> QED BY <2>1, <2>2 DEF Blank
<1>5. Written(a.object, s, G, HP + 0, FIELDS)
  <2>1. \A c \in G, g \in Field : ~ (c < HP + 0 \/ (c = HP + 0 /\ g <= FIELDS))
    BY Finite DEF Block
  <2>2. \A y \in Object, g \in Field : a.object[y].field[g] = object[y].field[g]
    BY <1>2 DEF TakenObjects, NoneUpdated
  <2> HIDE DEF a
  <2> QED BY <2>1, <2>2 DEF Written
<1>6. ASSUME NEW b \in Block, m[b] # Nil PROVE e[m[b]] >= 1
  <2> DEFINE v == m[b]
             A == {c \in Block : c > HP + 0 /\ m[c] = v}
  <2>1. v \in Object
    BY <1>2, <1>6 DEF TakenObjects
  <2>2. b \in A /\ A \in SUBSET Block
    BY Finite DEF Block
  <2> HIDE DEF v, A
  <2>3. Cardinality(A) \in Nat /\ Cardinality(A) >= 1
    BY <2>2, Finite, Counts
  <2>4. Mains(m, 0, v) = Cardinality(A)
    BY DEF Mains, A
  <2>5. e[v] = InRoots(root, v) + Mains(m, 0, v)
    BY <2>1
  <2>6. e[v] >= 1
    BY <2>3, <2>4, <2>5, Numbers
  <2> QED BY <2>6 DEF v
<1> HIDE DEF a
<1> DEFINE T == {i \in 0 .. LP :
                   /\ Kept(at[i], e)
                   /\ Unread(at[i].object, m, G, HP + i, FIELDS)
                   /\ Written(at[i].object, s, G, HP + i, FIELDS)}
<1>7. LP \in Nat
  BY Finite
<1>8. 0 \in T
  BY <1>1, <1>3, <1>4, <1>5, <1>7
<1>9. ASSUME NEW i \in 1 .. LP, i - 1 \in T PROVE i \in T
  <2>1. /\ Kept(at[i - 1], e) /\ Unread(at[i - 1].object, m, G, HP + (i - 1), FIELDS)
        /\ Written(at[i - 1].object, s, G, HP + (i - 1), FIELDS)
        /\ at[i] = Updated(at[i - 1], s.table, m[HP + i], HP + i)
    BY <1>1, <1>9
  <2>2. /\ Kept(at[i], e) /\ Unread(at[i].object, m, G, HP + i, FIELDS)
        /\ Written(at[i].object, s, G, HP + i, FIELDS)
    BY <1>6, <2>1, Updates
  <2> QED BY <1>7, <2>2
<1>10. LP \in T
  <2> HIDE DEF T
  <2> QED BY <1>7, <1>8, <1>9, Climb
<1> QED BY <1>1, <1>10
\* How often objects are held by variables, and for blocks after the i first.
OfMain(m, i) == [y \in Object |-> InRoots(root, y) + Mains(m, i, y)]

\* How often they are held by the variables r and others, q.
OfRoots(r, q) == [y \in Object |-> InRoots(r, y) + InRoots(q, y)]

\* What holds the objects is counted in numbers.
LEMMA OfTypes ==
  ASSUME NEW m, NEW i, NEW r, NEW q
  PROVE  /\ OfMain(m, i) \in [Object -> Nat] /\ OfRoots(r, q) \in [Object -> Nat]
         /\ \A y \in Object : /\ OfMain(m, i)[y] = InRoots(root, y) + Mains(m, i, y)
                              /\ OfRoots(r, q)[y] = InRoots(r, y) + InRoots(q, y)
<1>1. \A y \in Object : InRoots(root, y) + Mains(m, i, y) \in Nat
  BY Numbers, MainsIs
<1>2. \A y \in Object : InRoots(r, y) + InRoots(q, y) \in Nat
  BY Numbers
<1> QED BY <1>1, <1>2 DEF OfMain, OfRoots

\* The block HP + i is one of those after the i - 1 first.
LEMMA MainsNext ==
  ASSUME NEW m, NEW i \in 1 .. LP, NEW y
  PROVE  Mains(m, i, y) + Is(m[HP + i], y) = Mains(m, i - 1, y)
<1> DEFINE b == HP + i
           A == {a \in Block : a > HP + i /\ m[a] = y}
           B == {a \in Block : a > HP + (i - 1) /\ m[a] = y}
<1>1. b \in Block /\ HP \in Nat /\ i \in Nat
  BY Finite DEF Block
<1>2. \A a \in Block : a > HP + (i - 1) <=> (a = b \/ a > HP + i)
  BY <1>1, Apart
<1>3. A \ {b} = B \ {b}
  BY <1>2
<1>4. b \notin A /\ (b \in B <=> m[b] = y)
  BY <1>1
<1>5. A \in SUBSET Block /\ B \in SUBSET Block
  OBVIOUS
<1>6. Mains(m, i, y) = Cardinality(A) /\ Mains(m, i - 1, y) = Cardinality(B)
  BY DEF Mains
<1> HIDE DEF A, B
<1>7. /\ Cardinality(A) \in Nat /\ Cardinality(B) \in Nat
      /\ Cardinality(B) + (IF b \in A THEN 1 ELSE 0)
           = Cardinality(A) + (IF b \in B THEN 1 ELSE 0)
  BY <1>3, <1>5, Finite, OneOff
<1> QED BY <1>4, <1>6, <1>7 DEF Is

\* The objects are let go of that the blocks were taken into.
LEMMA AllReleasedKeeps ==
  ASSUME NEW m \in [Block -> {Nil} \cup Object], NEW w, Kept(w, OfMain(m, 0))
  PROVE  Kept(AllReleased(w, m), OfMain(m, LP)) /\ FieldsKept(w, AllReleased(w, m))
<1>1. PICK at : ReleasedThrough(w, m, at)
  BY ReleasedSteps
<1>2. /\ at[0] = w /\ AllReleased(w, m) = at[LP]
      /\ \A i \in 1 .. LP : at[i] = SafeDecref(at[i - 1], m[HP + i])
  BY <1>1 DEF ReleasedThrough
<1> DEFINE T == {i \in 0 .. LP : Kept(at[i], OfMain(m, i)) /\ FieldsKept(w, at[i])}
<1>3. LP \in Nat
  BY Finite
<1>4. 0 \in T
  BY <1>2, <1>3 DEF FieldsKept
<1>5. ASSUME NEW i \in 1 .. LP, i - 1 \in T PROVE i \in T
  <2> DEFINE v == m[HP + i]
             e == OfMain(m, i - 1)
             d == OfMain(m, i)
  <2>1. v \in {Nil} \cup Object
    BY Finite DEF Block
  <2>2. Kept(at[i - 1], e) /\ at[i] = SafeDecref(at[i - 1], v)
    BY <1>2, <1>5
  <2>3. e \in [Object -> Nat] /\ d \in [Object -> Nat]
    BY OfTypes
  <2>4. ASSUME NEW y \in Object PROVE d[y] + Is(v, y) = e[y]
    <3>1. Mains(m, i, y) + Is(v, y) = Mains(m, i - 1, y)
      BY MainsNext
    <3>2. d[y] = InRoots(root, y) + Mains(m, i, y)
          /\ e[y] = InRoots(root, y) + Mains(m, i - 1, y)
      BY OfTypes
    <3>3. Is(v, y) \in Nat
      BY DEF Is
    <3>4. InRoots(root, y) \in Nat /\ Mains(m, i, y) \in Nat /\ Mains(m, i - 1, y) \in Nat
      BY Numbers, MainsIs
    <3> HIDE DEF v, e, d
    <3> QED BY <3>1, <3>2, <3>3, <3>4
  <2> HIDE DEF v, e, d
  <2>5. Kept(at[i], d) /\ FieldsKept(at[i - 1], at[i])
    BY <2>1, <2>2, <2>3, <2>4, LetGo
  <2>6. FieldsKept(w, at[i])
    BY <1>5, <2>5 DEF FieldsKept
  <2> QED BY <1>3, <2>5, <2>6 DEF d
<1>6. LP \in T
  <2> HIDE DEF T
  <2> QED BY <1>3, <1>4, <1>5, Climb
<1> QED BY <1>2, <1>6

\* Only the variable x differs.
But(r, s, x) == x \in Root /\ \A y \in Root : y # x => r[y] = s[y]

\* It is its values that make the difference.
LEMMA ButChange ==
  ASSUME NEW r, NEW s, NEW x, But(r, s, x), NEW y
  PROVE  /\ InRoots(s, y) + Is(r[x], y) = InRoots(r, y) + Is(s[x], y)
         /\ InRoots(r, r[x]) >= 1
         /\ InRoots(s, y) \in Nat /\ InRoots(r, y) \in Nat
<1>1. x \in Root /\ \A z \in Root : z # x => r[z] = s[z]
  BY DEF But
<1>2. InRoots(s, y) + Is(r[x], y) = InRoots(r, y) + Is(s[x], y)
  BY <1>1, RootChange
<1> QED BY <1>1, <1>2, RootCounts, Numbers

\* It gets the value of a word.
LEMMA RootTakes ==
  ASSUME NEW r, NEW s, NEW q, NEW x, But(r, s, x), NEW w, Kept(w, OfRoots(r, q)),
         r[x] \in {Nil} \cup Object, NEW t, NEW z, Value(t, z) \in {Nil} \cup Object,
         s[x] = Value(t, z), NEW u, u = Translated(w, t, r[x], z)
  PROVE  Kept(u, OfRoots(s, q)) /\ FieldsKept(w, u)
<1> DEFINE e == OfRoots(r, q)
           d == OfRoots(s, q)
           v == r[x]
           n == Value(t, z)
<1>1. x \in Root /\ \A y \in Root : y # x => r[y] = s[y]
  BY DEF But
<1>2. e \in [Object -> Nat] /\ d \in [Object -> Nat]
  BY OfTypes
<1>3. \A y \in Object : e[y] = InRoots(r, y) + InRoots(q, y)
                        /\ d[y] = InRoots(s, y) + InRoots(q, y)
  BY OfTypes
<1> HIDE DEF e, d
<1>4. ASSUME NEW y \in Object PROVE d[y] + Is(v, y) = e[y] + Is(n, y)
  <2>1. InRoots(s, y) + Is(r[x], y) = InRoots(r, y) + Is(s[x], y)
    BY ButChange
  <2>2. Is(v, y) \in Nat /\ Is(n, y) \in Nat
    BY DEF Is
  <2>3. InRoots(s, y) \in Nat /\ InRoots(r, y) \in Nat /\ InRoots(q, y) \in Nat
    BY Numbers
  <2> HIDE DEF n
  <2> QED BY <1>3, <2>1, <2>2, <2>3 DEF n
<1>5. ASSUME v \in Object PROVE e[v] >= 1
  <2>1. InRoots(r, v) >= 1
    BY ButChange
  <2>2. InRoots(r, v) \in Nat /\ InRoots(q, v) \in Nat
    BY Numbers
  <2> HIDE DEF v
  <2> QED BY <1>3, <1>5, <2>1, <2>2
<1>6. Kept(w, e) /\ v \in {Nil} \cup Object /\ u = Translated(w, t, v, z)
  BY DEF e
<1> HIDE DEF v
<1>7. Kept(u, d) /\ FieldsKept(w, u)
  BY <1>2, <1>4, <1>5, <1>6, TakesFor
<1> QED BY <1>7 DEF d

\* It becomes nil.
LEMMA RootLetsGo ==
  ASSUME NEW r, NEW s, NEW q, NEW x, But(r, s, x), NEW w, Kept(w, OfRoots(r, q)),
         r[x] \in {Nil} \cup Object, s[x] = Nil, NEW u, u = SafeDecref(w, r[x])
  PROVE  Kept(u, OfRoots(s, q)) /\ FieldsKept(w, u)
<1> DEFINE e == OfRoots(r, q)
           d == OfRoots(s, q)
           v == r[x]
<1>1. x \in Root /\ \A y \in Root : y # x => r[y] = s[y]
  BY DEF But
<1>2. e \in [Object -> Nat] /\ d \in [Object -> Nat]
  BY OfTypes
<1>3. \A y \in Object : e[y] = InRoots(r, y) + InRoots(q, y)
                        /\ d[y] = InRoots(s, y) + InRoots(q, y)
  BY OfTypes
<1> HIDE DEF e, d
<1>4. ASSUME NEW y \in Object PROVE d[y] + Is(v, y) = e[y]
  <2>1. InRoots(s, y) + Is(r[x], y) = InRoots(r, y) + Is(s[x], y)
    BY ButChange
  <2>2. Is(v, y) \in Nat /\ Is(s[x], y) = 0
    BY Apart DEF Is
  <2>3. InRoots(s, y) \in Nat /\ InRoots(r, y) \in Nat /\ InRoots(q, y) \in Nat
    BY Numbers
  <2> QED BY <1>3, <2>1, <2>2, <2>3
<1>5. Kept(w, e) /\ v \in {Nil} \cup Object /\ u = SafeDecref(w, v)
  BY DEF e
<1> HIDE DEF v
<1>6. Kept(u, d) /\ FieldsKept(w, u)
  BY <1>2, <1>4, <1>5, LetGo
<1> QED BY <1>6 DEF d
\* It is only the numbers that count.
LEMMA KeptSame ==
  ASSUME NEW w, NEW e, NEW d, Kept(w, e), \A y \in Object : d[y] = e[y]
  PROVE  Kept(w, d)
BY DEF Kept

\* The two parts of the variables change places.
LEMMA KeptSwap ==
  ASSUME NEW w, NEW r, NEW q, Kept(w, OfRoots(r, q))
  PROVE  Kept(w, OfRoots(q, r))
<1> DEFINE e == OfRoots(r, q)
           d == OfRoots(q, r)
<1>1. \A y \in Object : e[y] = InRoots(r, y) + InRoots(q, y)
                        /\ d[y] = InRoots(q, y) + InRoots(r, y)
  BY OfTypes
<1> HIDE DEF e, d
<1>2. \A y \in Object : d[y] = e[y]
  <2> SUFFICES ASSUME NEW y \in Object PROVE d[y] = e[y]
    OBVIOUS
  <2>1. InRoots(r, y) \in Nat /\ InRoots(q, y) \in Nat
    BY Numbers
  <2> QED BY <1>1, <2>1
<1>3. Kept(w, e)
  BY DEF e
<1>4. Kept(w, d)
  BY <1>2, <1>3, KeptSame
<1> QED BY <1>4 DEF d

\* The variables after i global variables are received, i registers are built, and i
\* old ones dropped.
GlobalsAt(t, i) ==
  [x \in Root |-> IF x \in Global /\ x <= REGS + i THEN Value(t, cell[x]) ELSE root[x]]

BuiltAt(t, i) == [x \in Root |-> IF x \in Reg /\ x <= i THEN Value(t, cell[x]) ELSE Nil]

DroppedAt(t, i) ==
  [x \in Root |-> IF x \in Reg /\ x <= i THEN Nil ELSE GlobalsAt(t, GLOBALS)[x]]

\* The table knows what variables hold.
AllKnown(t) == \A x \in Root : Value(t, cell[x]) \in {Nil} \cup Object

\* mrbcopro_globalman_receive: no word ends it.
LEMMA GlobalsKept ==
  ASSUME Types, NEW t, AllKnown(t), NEW q, NEW w, Kept(w, OfRoots(root, q))
  PROVE  /\ Kept(GlobalsReceived(w, t), OfRoots(GlobalsAt(t, GLOBALS), q))
         /\ FieldsKept(w, GlobalsReceived(w, t))
<1>1. PICK at : GlobalsReceivedThrough(w, t, at)
  BY GlobalsReceivedSteps
<1>2. /\ at[0] = w /\ GlobalsReceived(w, t) = at[GLOBALS]
      /\ \A i \in 1 .. GLOBALS : at[i] = GlobalReceived(at[i - 1], t, REGS + i)
  BY <1>1 DEF GlobalsReceivedThrough
<1> DEFINE T == {i \in 0 .. GLOBALS :
                   Kept(at[i], OfRoots(GlobalsAt(t, i), q)) /\ FieldsKept(w, at[i])}
<1>3. /\ GLOBALS \in Nat /\ REGS \in Nat /\ Global = REGS + 1 .. REGS + GLOBALS
      /\ Root \subseteq Nat /\ Global \subseteq Root
  BY Finite DEF Global, Root, Reg
<1>4. 0 \in T
  <2>1. GlobalsAt(t, 0) = root
    <3>1. \A x \in Root : ~ (x \in Global /\ x <= REGS + 0)
      BY <1>3
    <3>2. root \in [Root -> {Nil} \cup Object]
      BY DEF Types
    <3> QED BY <3>1, <3>2 DEF GlobalsAt
  <2> QED BY <1>2, <1>3, <2>1 DEF FieldsKept
<1>5. ASSUME NEW i \in 1 .. GLOBALS, i - 1 \in T PROVE i \in T
  <2> DEFINE x == REGS + i
             r == GlobalsAt(t, i - 1)
             s == GlobalsAt(t, i)
  <2>1. x \in Global /\ x \in Root
    BY <1>3
  <2>2. \A y \in Global : y <= REGS + i <=> (y = x \/ y <= REGS + (i - 1))
    BY <1>3
  <2>3. ~ (x <= REGS + (i - 1))
    BY <1>3
  <2>4. r[x] = root[x] /\ s[x] = Value(t, cell[x])
    BY <2>1, <2>2, <2>3 DEF GlobalsAt
  <2>5. ASSUME NEW y \in Root, y # x PROVE r[y] = s[y]
    BY <2>2, <2>5 DEF GlobalsAt
  <2>6. But(r, s, x)
    BY <2>1, <2>5 DEF But
  <2>7. r[x] \in {Nil} \cup Object /\ Value(t, cell[x]) \in {Nil} \cup Object
    BY <2>1, <2>4 DEF Types, AllKnown
  <2>8. at[i] = Translated(at[i - 1], t, r[x], cell[x])
    <3>1. \A h \in Global : Value(t, cell[h]) # NONE
      <4>1. \A h \in Global : Value(t, cell[h]) \in {Nil} \cup Object
        BY <1>3 DEF AllKnown
      <4> QED BY <4>1, Apart DEF Address
    <3>2. GlobalReceived(at[i - 1], t, x) = Translated(at[i - 1], t, root[x], cell[x])
      BY <3>1 DEF GlobalReceived
    <3>3. at[i] = GlobalReceived(at[i - 1], t, x)
      BY <1>2
    <3> QED BY <2>4, <3>2, <3>3
  <2>9. Kept(at[i - 1], OfRoots(r, q))
    BY <1>5
  <2> HIDE DEF r, s, x
  <2>10. Kept(at[i], OfRoots(s, q)) /\ FieldsKept(at[i - 1], at[i])
    BY <2>4, <2>6, <2>7, <2>8, <2>9, RootTakes
  <2>11. FieldsKept(w, at[i])
    BY <1>5, <2>10 DEF FieldsKept
  <2> QED BY <1>3, <2>10, <2>11 DEF s
<1>6. GLOBALS \in T
  <2> HIDE DEF T
  <2> QED BY <1>3, <1>4, <1>5, Climb
<1> QED BY <1>2, <1>6

\* copro_to_main: the new registers are held as well as the old.
LEMMA RegsBuiltKept ==
  ASSUME NEW t, AllKnown(t), NEW q, NEW w, Kept(w, OfRoots(BuiltAt(t, 0), q))
  PROVE  /\ Kept(RegsBuilt(w, t), OfRoots(BuiltAt(t, REGS), q))
         /\ FieldsKept(w, RegsBuilt(w, t))
<1>1. PICK at : RegsBuiltThrough(w, t, at)
  BY RegsBuiltSteps
<1>2. /\ at[0] = w /\ RegsBuilt(w, t) = at[REGS]
      /\ \A i \in 1 .. REGS : at[i] = Translated(at[i - 1], t, Nil, cell[i])
  BY <1>1 DEF RegsBuiltThrough
<1> DEFINE T == {i \in 0 .. REGS :
                   Kept(at[i], OfRoots(BuiltAt(t, i), q)) /\ FieldsKept(w, at[i])}
<1>3. REGS \in Nat /\ Reg = 1 .. REGS /\ Reg \subseteq Root
  BY Finite, Apart DEF Reg
<1>4. 0 \in T
  BY <1>2, <1>3 DEF FieldsKept
<1>5. ASSUME NEW i \in 1 .. REGS, i - 1 \in T PROVE i \in T
  <2> DEFINE r == BuiltAt(t, i - 1)
             s == BuiltAt(t, i)
  <2>1. i \in Reg /\ i \in Root
    BY <1>3
  <2>2. \A y \in Reg : y <= i <=> (y = i \/ y <= i - 1)
    BY <1>3
  <2>3. ~ (i <= i - 1)
    BY <1>3
  <2>4. r[i] = Nil /\ s[i] = Value(t, cell[i])
    BY <2>1, <2>2, <2>3 DEF BuiltAt
  <2>5. ASSUME NEW y \in Root, y # i PROVE r[y] = s[y]
    BY <2>2, <2>5 DEF BuiltAt
  <2>6. But(r, s, i)
    BY <2>1, <2>5 DEF But
  <2>7. r[i] \in {Nil} \cup Object /\ Value(t, cell[i]) \in {Nil} \cup Object
    BY <2>1, <2>4 DEF AllKnown
  <2>8. at[i] = Translated(at[i - 1], t, r[i], cell[i])
    BY <1>2, <2>4
  <2>9. Kept(at[i - 1], OfRoots(r, q))
    BY <1>5
  <2> HIDE DEF r, s
  <2>10. Kept(at[i], OfRoots(s, q)) /\ FieldsKept(at[i - 1], at[i])
    BY <2>4, <2>6, <2>7, <2>8, <2>9, RootTakes
  <2>11. FieldsKept(w, at[i])
    BY <1>5, <2>10 DEF FieldsKept
  <2> QED BY <1>3, <2>10, <2>11 DEF s
<1>6. REGS \in T
  <2> HIDE DEF T
  <2> QED BY <1>3, <1>4, <1>5, Climb
<1> QED BY <1>2, <1>6

\* And then the old ones are not.
LEMMA RegsDroppedKept ==
  ASSUME Types, NEW t, NEW q, NEW w, Kept(w, OfRoots(DroppedAt(t, 0), q))
  PROVE  /\ Kept(RegsDropped(w), OfRoots(DroppedAt(t, REGS), q))
         /\ FieldsKept(w, RegsDropped(w))
<1>1. PICK at : RegsDroppedThrough(w, at)
  BY RegsDroppedSteps
<1>2. /\ at[0] = w /\ RegsDropped(w) = at[REGS]
      /\ \A i \in 1 .. REGS : at[i] = SafeDecref(at[i - 1], root[i])
  BY <1>1 DEF RegsDroppedThrough
<1> DEFINE T == {i \in 0 .. REGS :
                   Kept(at[i], OfRoots(DroppedAt(t, i), q)) /\ FieldsKept(w, at[i])}
<1>3. REGS \in Nat /\ Reg = 1 .. REGS /\ Reg \subseteq Root /\ Reg \cap Global = {}
  BY Finite, Apart DEF Reg
<1>4. 0 \in T
  BY <1>2, <1>3 DEF FieldsKept
<1>5. ASSUME NEW i \in 1 .. REGS, i - 1 \in T PROVE i \in T
  <2> DEFINE r == DroppedAt(t, i - 1)
             s == DroppedAt(t, i)
  <2>1. i \in Reg /\ i \in Root /\ i \notin Global
    BY <1>3
  <2>2. \A y \in Reg : y <= i <=> (y = i \/ y <= i - 1)
    BY <1>3
  <2>3. ~ (i <= i - 1)
    BY <1>3
  <2>4. r[i] = root[i] /\ s[i] = Nil
    BY <2>1, <2>2, <2>3 DEF DroppedAt, GlobalsAt
  <2>5. ASSUME NEW y \in Root, y # i PROVE r[y] = s[y]
    BY <2>2, <2>5 DEF DroppedAt
  <2>6. But(r, s, i)
    BY <2>1, <2>5 DEF But
  <2>7. r[i] \in {Nil} \cup Object
    BY <2>1, <2>4 DEF Types
  <2>8. at[i] = SafeDecref(at[i - 1], r[i])
    BY <1>2, <2>4
  <2>9. Kept(at[i - 1], OfRoots(r, q))
    BY <1>5
  <2> HIDE DEF r, s
  <2>10. Kept(at[i], OfRoots(s, q)) /\ FieldsKept(at[i - 1], at[i])
    BY <2>4, <2>6, <2>7, <2>8, <2>9, RootLetsGo
  <2>11. FieldsKept(w, at[i])
    BY <1>5, <2>10 DEF FieldsKept
  <2> QED BY <1>3, <2>10, <2>11 DEF s
<1>6. REGS \in T
  <2> HIDE DEF T
  <2> QED BY <1>3, <1>4, <1>5, Climb
<1> QED BY <1>2, <1>6
-----------------------------------------------------------------------------
\* The passes together.

\* Variables with nothing in them hold nothing.
LEMMA NilsHold ==
  ASSUME NEW r, \A x \in Root : r[x] = Nil, NEW y \in Object
  PROVE  InRoots(r, y) = 0
<1>1. {x \in Root : r[x] = y} = {}
  BY Apart
<1> QED
  BY <1>1, FS_EmptySet DEF InRoots

\* The new registers and the global variables are the variables there are then.
LEMMA RootsJoin ==
  ASSUME NEW t, NEW r, \A x \in Root : r[x] = Value(t, cell[x]), NEW y \in Object
  PROVE  InRoots(DroppedAt(t, REGS), y) + InRoots(BuiltAt(t, REGS), y) = InRoots(r, y)
<1> DEFINE A == {x \in Root : DroppedAt(t, REGS)[x] = y}
           B == {x \in Root : BuiltAt(t, REGS)[x] = y}
           C == {x \in Root : r[x] = y}
<1>1. /\ y # Nil
      /\ \A x \in Root : x \in Reg => x <= REGS /\ x \notin Global
      /\ \A x \in Root : x \notin Reg => x \in Global /\ x <= REGS + GLOBALS
  BY Apart, Finite DEF Reg, Global, Root
<1>2. \A x \in Root :
        /\ x \in Reg => DroppedAt(t, REGS)[x] = Nil /\ BuiltAt(t, REGS)[x] = r[x]
        /\ x \notin Reg => DroppedAt(t, REGS)[x] = r[x] /\ BuiltAt(t, REGS)[x] = Nil
  BY <1>1 DEF DroppedAt, GlobalsAt, BuiltAt
<1>3. A \cup B = C /\ A \cap B = {}
  BY <1>1, <1>2
<1>4. IsFiniteSet(A) /\ IsFiniteSet(B)
  BY Finite, FS_Subset
<1>5. /\ Cardinality(A \cap B) = 0
      /\ Cardinality(A) \in Nat /\ Cardinality(B) \in Nat
      /\ Cardinality(A \cup B) = Cardinality(A) + Cardinality(B) - Cardinality(A \cap B)
  BY <1>3, <1>4, FS_Union, FS_EmptySet, FS_CardinalityType
<1> HIDE DEF A, B, C
<1>6. Cardinality(A) + Cardinality(B) = Cardinality(C)
  <2>1. Cardinality(A \cup B) = Cardinality(C)
    BY <1>3, Zenon
  <2> QED
    BY <1>5, <2>1
<1> QED
  BY <1>6 DEF InRoots, A, B, C

\* After them the variables are counted, the registers as those built aside.
LEMMA RunEnds ==
  ASSUME Types, NEW G \in SUBSET Block, Carried(block, table, G),
         NEW s, Taking(s, LP, G), AllKnown(s.table),
         NEW w1, w1 = AllReleased(AllUpdated(s), s.main),
         NEW w2, w2 = GlobalsReceived(w1, s.table),
         NEW w3, w3 = RegsDropped(RegsBuilt(w2, s.table))
  PROVE  /\ Kept(w3, OfRoots(DroppedAt(s.table, REGS), BuiltAt(s.table, REGS)))
         /\ Written(w3.object, s, G, HP + LP, FIELDS)
<1> DEFINE t == s.table
           n == BuiltAt(t, 0)
           g == GlobalsAt(t, GLOBALS)
           z == DroppedAt(t, 0)
<1>1. s.main \in [Block -> {Nil} \cup Object]
  BY DEF Taking, TakenObjects
<1>2. /\ Kept(AllUpdated(s), OfMain(s.main, 0))
      /\ Written(AllUpdated(s).object, s, G, HP + LP, FIELDS)
  BY OfTypes, AllUpdatedKeeps
<1>3. Kept(w1, OfMain(s.main, LP)) /\ FieldsKept(AllUpdated(s), w1)
  BY <1>1, <1>2, AllReleasedKeeps
<1>4. \A y \in Object : OfRoots(root, n)[y] = OfMain(s.main, LP)[y]
  <2> SUFFICES ASSUME NEW y \in Object
               PROVE  OfRoots(root, n)[y] = OfMain(s.main, LP)[y]
    OBVIOUS
  <2>1. \A x \in Root : n[x] = Nil
    BY Finite DEF BuiltAt, Reg
  <2>2. InRoots(n, y) = 0
    BY <2>1, NilsHold
  <2>3. {b \in Block : b > HP + LP /\ s.main[b] = y} = {}
    BY Finite DEF Block
  <2>4. Mains(s.main, LP, y) = 0
    BY <2>3, FS_EmptySet DEF Mains
  <2>5. InRoots(root, y) \in Nat
    BY Numbers
  <2> HIDE DEF n
  <2> QED
    BY <2>2, <2>4, <2>5, OfTypes
<1>5. Kept(w1, OfRoots(root, n))
  BY <1>3, <1>4, KeptSame
<1> HIDE DEF t, n, g, z
<1>6. AllKnown(t) /\ w2 = GlobalsReceived(w1, t) /\ w3 = RegsDropped(RegsBuilt(w2, t))
  BY DEF t
<1>7. Kept(w2, OfRoots(g, n)) /\ FieldsKept(w1, w2)
  BY <1>5, <1>6, GlobalsKept DEF g
<1>8. Kept(w2, OfRoots(n, g))
  BY <1>7, KeptSwap
<1>9. /\ Kept(RegsBuilt(w2, t), OfRoots(BuiltAt(t, REGS), g))
      /\ FieldsKept(w2, RegsBuilt(w2, t))
  BY <1>6, <1>8, RegsBuiltKept DEF n
<1>10. g = z
  BY Finite DEF g, z, DroppedAt, GlobalsAt, Reg
<1>11. Kept(RegsBuilt(w2, t), OfRoots(z, BuiltAt(t, REGS)))
  BY <1>9, <1>10, KeptSwap
<1>12. /\ Kept(w3, OfRoots(DroppedAt(t, REGS), BuiltAt(t, REGS)))
       /\ FieldsKept(RegsBuilt(w2, t), w3)
  BY <1>6, <1>11, RegsDroppedKept DEF z
<1>13. \A v \in Object : w3.object[v].field = AllUpdated(s).object[v].field
  BY <1>3, <1>7, <1>9, <1>12 DEF FieldsKept
<1>14. s.main \in [Block -> {Nil} \cup Object] /\ G \subseteq Block
  BY <1>1
<1>15. Written(w3.object, s, G, HP + LP, FIELDS)
  BY <1>2, <1>13, <1>14 DEF Written
<1> QED
  BY <1>12, <1>15 DEF t

\* What is swept is a map of blocks.
LEMMA SweptType ==
  ASSUME block \in BlockMap, NEW m
  PROVE  Swept(m) \in BlockMap
<1>1. NoBlock \in [used : BOOLEAN, frozen : BOOLEAN, word : [Field -> Address]]
  BY DEF NoBlock, Blank, Address
<1>2. \A b \in Block :
        block[b] \in [used : BOOLEAN, frozen : BOOLEAN, word : [Field -> Address]]
  BY DEF BlockMap
<1>3. \A b \in Block :
        [block[b] EXCEPT !.frozen = TRUE]
          \in [used : BOOLEAN, frozen : BOOLEAN, word : [Field -> Address]]
  BY <1>2
<1> QED
  BY <1>1, <1>3 DEF Swept, BlockMap

\* The objects that were kept for the end are dropped at it.
LEMMA KeptDropped ==
  ASSUME NEW e \in [Object -> Nat], NEW w, Kept(w, e),
         NEW o, o = Dropped(w.object, w.buf)
  PROVE  /\ o \in ObjectMap /\ Clean(o)
         /\ \A v \in Object : InFields(o, v) + e[v] <= o[v].rc
<1>1. w \in Worlds /\ Clean(w.object) /\ w.object \in ObjectMap
  BY DEF Kept, Worlds
<1>2. \A v \in Object :
        InFields(w.object, v) + e[v] + (IF v \in w.buf THEN 1 ELSE 0) <= w.object[v].rc
  <2> SUFFICES ASSUME NEW v \in Object
               PROVE  InFields(w.object, v) + e[v] + (IF v \in w.buf THEN 1 ELSE 0)
                        <= w.object[v].rc
    OBVIOUS
  <2>1. /\ InFields(w.object, v) + e[v] <= Net(w, v)
        /\ InFields(w.object, v) \in Nat /\ e[v] \in Nat
    BY Numbers DEF Kept
  <2>2. w.object[v].rc \in Nat
    BY <1>1 DEF ObjectMap
  <2> QED
    BY <2>1, <2>2 DEF Net
<1> QED
  BY <1>1, <1>2, DropKeeps

\* What the variables hold after the run.
LEMMA RootAfter ==
  ASSUME Types, NEW t, AllKnown(t), NEW r,
         r = [x \in Root |->
           IF x \in Reg THEN Result(t, Nil, cell[x])
           ELSE IF Known(t, x) THEN Result(t, root[x], cell[x]) ELSE root[x]]
  PROVE  r \in [Root -> {Nil} \cup Object] /\ \A x \in Root : r[x] = Value(t, cell[x])
<1>1. \A x \in Root : Value(t, cell[x]) # NONE /\ Value(t, cell[x]) \in {Nil} \cup Object
  BY Apart DEF AllKnown, Address
<1>2. \A x \in Root : Known(t, x)
  BY <1>1, Apart DEF Known
<1>3. \A x \in Root : \A v : Result(t, v, cell[x]) = Value(t, cell[x])
  BY <1>1 DEF Result
<1>4. \A x \in Root : r[x] = Value(t, cell[x])
  BY <1>2, <1>3
<1> HIDE DEF Value
<1> QED
  BY <1>1, <1>4

\* The table knows what the program has, so that a run ends with counted objects.
LEMMA LeaveKeeps ==
  ASSUME IInv, Leave
  PROVE  IInv'
<1> DEFINE s  == AllTaken
           t  == s.table
           w1 == AllReleased(AllUpdated(s), s.main)
           w2 == GlobalsReceived(w1, t)
           w3 == RegsDropped(RegsBuilt(w2, t))
           e  == OfRoots(DroppedAt(t, REGS), BuiltAt(t, REGS))
<1>1. /\ core = "lp" /\ core' = "hp"
      /\ Cardinality({b \in Block : block[b].used /\ Lookup(table, b, NONE) = 0})
           <= Cardinality(FreeObjects(object))
      /\ object' = Dropped(w3.object, w3.buf)
      /\ block' = Swept(s.main) /\ table' = <<>>
      /\ root' = [x \in Root |->
           IF x \in Reg THEN Result(t, Nil, cell[x])
           ELSE IF Known(t, x) THEN Result(t, root[x], cell[x]) ELSE root[x]]
      /\ payload' = [g \in Global |-> Nil]
      /\ cell' = [x \in Root |-> Nil]
  BY DEF Leave
<1>2. Types /\ Counted(object, root)
  BY DEF IInv
<1>3. PICK G \in SUBSET Block : OnLpCore(G)
  BY <1>1 DEF IInv
<1>4. Carried(block, table, G) /\ \A x \in Root : Leads(table, G, cell[x])
  BY <1>3 DEF OnLpCore
<1>5. Taking(s, LP, G)
  BY <1>1, <1>2, <1>4, AllTakenIs
<1> HIDE DEF s
<1>6. AllKnown(t)
  <2>1. \A x \in Root : cell[x] \in Address
    BY <1>2 DEF Types
  <2> QED
    BY <1>4, <1>5, <2>1, ValueKnown DEF AllKnown
<1>7. Kept(w3, e)
  <2> HIDE DEF w1, w2, w3
  <2>1. w1 = AllReleased(AllUpdated(s), s.main)
    BY DEF w1
  <2>2. w2 = GlobalsReceived(w1, s.table)
    BY DEF w2
  <2>3. w3 = RegsDropped(RegsBuilt(w2, s.table))
    BY DEF w3
  <2> QED
    BY <1>2, <1>4, <1>5, <1>6, <2>1, <2>2, <2>3, RunEnds
<1> HIDE DEF w1, w2, w3
<1>8. /\ root' \in [Root -> {Nil} \cup Object]
      /\ \A x \in Root : root'[x] = Value(t, cell[x])
  <2> HIDE DEF t
  <2>1. \E r : r = root'
    OBVIOUS
  <2>2. PICK r : r = root'
    BY <2>1
  <2>3. r = [x \in Root |->
           IF x \in Reg THEN Result(t, Nil, cell[x])
           ELSE IF Known(t, x) THEN Result(t, root[x], cell[x]) ELSE root[x]]
    BY <1>1, <2>2
  <2>4. r \in [Root -> {Nil} \cup Object] /\ \A x \in Root : r[x] = Value(t, cell[x])
    BY <1>2, <1>6, <2>3, RootAfter
  <2> QED
    BY <2>2, <2>4
<1>9. Counted(object', root')
  <2>1. e \in [Object -> Nat]
    BY OfTypes
  <2>2. /\ object' \in ObjectMap /\ Clean(object')
        /\ \A v \in Object : InFields(object', v) + e[v] <= object'[v].rc
    <3> HIDE DEF e
    <3> QED
      BY <1>1, <1>7, <2>1, KeptDropped
  <2>3. \A v \in Object : e[v] = InRoots(root', v)
    <3> SUFFICES ASSUME NEW v \in Object PROVE e[v] = InRoots(root', v)
      OBVIOUS
    <3>1. e[v] = InRoots(DroppedAt(t, REGS), v) + InRoots(BuiltAt(t, REGS), v)
      BY OfTypes
    <3> HIDE DEF e, t
    <3>2. InRoots(DroppedAt(t, REGS), v) + InRoots(BuiltAt(t, REGS), v)
            = InRoots(root', v)
      BY <1>8, RootsJoin
    <3> QED
      BY <3>1, <3>2
  <2> HIDE DEF e
  <2> QED
    BY <2>2, <2>3 DEF Counted
<1>10. Types'
  <2>1. block' \in BlockMap
    BY <1>1, <1>2, SweptType DEF Types
  <2>2. cell' \in [Root -> Address]
    BY <1>1 DEF Address
  <2> QED
    BY <1>1, <1>8, <2>1, <2>2 DEF Types
<1> QED
  BY <1>1, <1>9, <1>10 DEF IInv

\* Every step keeps the invariant.
LEMMA InitHolds == Init => IInv
<1> SUFFICES ASSUME Init PROVE IInv
  OBVIOUS
<1>1. /\ core = "hp" /\ root = [x \in Root |-> Nil] /\ object = [v \in Object |-> NoObject]
      /\ payload = [g \in Global |-> Nil]
      /\ cell = [x \in Root |-> Nil] /\ block = [b \in Block |-> NoBlock] /\ table = <<>>
  BY DEF Init
<1>2. Types
  BY <1>1 DEF Types, Address, BlockMap, NoBlock, Blank
<1>3. object \in ObjectMap /\ Clean(object)
  BY <1>1 DEF ObjectMap, Clean, NoObject, Blank
<1>4. \A v \in Object : InFields(object, v) = 0 /\ InRoots(root, v) = 0 /\ object[v].rc = 0
  <2> SUFFICES ASSUME NEW v \in Object
               PROVE  InFields(object, v) = 0 /\ InRoots(root, v) = 0 /\ object[v].rc = 0
    OBVIOUS
  <2>1. InRoots(root, v) = 0
    BY <1>1, NilsHold
  <2>2. {h \in Object \X Field : object[h[1]].field[h[2]] = v} = {}
    <3> SUFFICES ASSUME NEW h \in Object \X Field, object[h[1]].field[h[2]] = v
                 PROVE  FALSE
      OBVIOUS
    <3>1. h[1] \in Object /\ h[2] \in Field
      OBVIOUS
    <3> QED
      BY <1>1, <3>1, Apart DEF NoObject, Blank
  <2> QED
    BY <1>1, <2>1, <2>2, FS_EmptySet DEF InFields, NoObject
<1>5. Counted(object, root)
  BY <1>3, <1>4 DEF Counted
<1> QED
  BY <1>1, <1>2, <1>5 DEF IInv

\* The actions of the HP core.
HpAct ==
  \/ \E r \in Reg : \/ HpNew(r) \/ HpNil(r)
                    \/ \E q \in Reg \ {r} : HpMove(r, q)
                    \/ \E g \in Global : HpMove(r, g) \/ HpMove(g, r)
                    \/ \E q \in Reg, f \in Field : HpGetIv(r, q, f) \/ HpSetIv(q, f, r)

\* On the HP core the other variables stay.
LEMMA HpStays ==
  ASSUME IInv, OnHp, Counted(object', root'), root' \in [Root -> {Nil} \cup Object]
  PROVE  IInv'
<1>1. /\ core = "hp" /\ core' = core /\ payload' = payload
      /\ cell' = cell /\ block' = block /\ table' = table
  BY DEF OnHp
<1>2. Types'
  BY <1>1 DEF IInv, Types
<1> QED
  BY <1>1, <1>2 DEF IInv

\* Every action of the HP core keeps the invariant.
LEMMA HpKeeps ==
  ASSUME IInv, HpAct
  PROVE  IInv'
<1>1. Types /\ Counted(object, root) /\ Reg \subseteq Root /\ Global \subseteq Root
  BY Apart DEF IInv
<1>2. ASSUME NEW r \in Reg, HpNew(r) PROVE IInv'
  BY <1>1, <1>2, HpNews, HpStays DEF HpNew
<1>3. ASSUME NEW r \in Reg, HpNil(r) PROVE IInv'
  BY <1>1, <1>3, HpNils, HpStays DEF HpNil
<1>4. ASSUME NEW x \in Root, NEW y \in Root, HpMove(x, y) PROVE IInv'
  BY <1>1, <1>4, HpMoves, HpStays DEF HpMove
<1>5. ASSUME NEW r \in Reg, NEW q \in Reg, NEW f \in Field, HpGetIv(r, q, f) PROVE IInv'
  BY <1>1, <1>5, HpGets, HpStays DEF HpGetIv
<1>6. ASSUME NEW r \in Reg, NEW q \in Reg, NEW f \in Field, HpSetIv(q, f, r) PROVE IInv'
  BY <1>1, <1>6, HpSets, HpStays DEF HpSetIv
<1> QED
  BY <1>1, <1>2, <1>3, <1>4, <1>5, <1>6 DEF HpAct

\* The actions of the LP core, but for the collection.
LpAct ==
  \/ \E r \in Reg : \/ LpNew(r) \/ LpNil(r)
                    \/ \E q \in Reg \ {r} : LpMove(r, q)
                    \/ \E g \in Global : LpGetGlobal(r, g) \/ LpMove(g, r)
                    \/ \E q \in Reg, f \in Field : LpGetIv(r, q, f) \/ LpSetIv(q, f, r)

\* Every action of the LP core keeps the invariant.
LEMMA LpKeeps ==
  ASSUME IInv, LpAct
  PROVE  IInv'
<1>1. Reg \subseteq Root /\ Global \subseteq Root
  BY Apart
<1>2. ASSUME NEW r \in Reg, LpNew(r) PROVE IInv'
  BY <1>2, LpNews
<1>3. ASSUME NEW x \in Reg, LpNil(x) PROVE IInv'
  <2>1. /\ OnLp /\ Quiet /\ UNCHANGED block
        /\ cell' = [cell EXCEPT ![x] = Nil]
    BY <1>3 DEF LpNil
  <2> QED
    BY <1>1, <2>1, LpPuts
<1>4. ASSUME NEW x \in Root, NEW q \in Reg, LpMove(x, q) PROVE IInv'
  <2>1. /\ OnLp /\ Quiet /\ UNCHANGED block
        /\ cell' = [cell EXCEPT ![x] = cell[q]]
    BY <1>4 DEF LpMove
  <2> QED
    BY <2>1, LpPuts
<1>5. ASSUME NEW r \in Reg, NEW g \in Global, LpGetGlobal(r, g) PROVE IInv'
  BY <1>5, LpGetsGlobal
<1>6. ASSUME NEW r \in Reg, NEW q \in Reg, NEW f \in Field, LpGetIv(r, q, f) PROVE IInv'
  BY <1>6, LpGetsIv
<1>7. ASSUME NEW r \in Reg, NEW q \in Reg, NEW f \in Field, LpSetIv(q, f, r) PROVE IInv'
  BY <1>7, LpSets
<1> QED
  BY <1>1, <1>2, <1>3, <1>4, <1>5, <1>6, <1>7 DEF LpAct

\* Every step keeps the invariant.
LEMMA NextKeeps == IInv /\ [Next]_vars => IInv'
<1> SUFFICES ASSUME IInv, [Next]_vars PROVE IInv'
  OBVIOUS
<1>1. CASE UNCHANGED vars
  <2>1. /\ core' = core /\ root' = root /\ payload' = payload /\ object' = object
        /\ cell' = cell /\ block' = block /\ table' = table
    BY <1>1 DEF vars, state
  <2> QED
    BY <2>1 DEF IInv, Types, OnLpCore, Carried, Entered, Stale
<1>2. CASE Step
  <2>1. HpAct \/ LpAct \/ HpClear \/ Enter \/ Leave \/ LpCollect
    BY <1>2 DEF Step, HpAct, LpAct
  <2> QED
    BY <2>1, HpKeeps, LpKeeps, HpClears, EnterKeeps, LeaveKeeps, LpCollects
<1> QED
  BY <1>1, <1>2 DEF Next

\* The invariant holds.
THEOREM ObjectsInvariant == Spec => []IInv
<1> QED
  BY InitHolds, NextKeeps, PTL DEF Spec

-----------------------------------------------------------------------------
\* What follows from it.

\* The types follow from the invariant.
LEMMA TypesHold ==
  ASSUME IInv
  PROVE  TypeOK /\ table \in Seq(Entry)
<1>1. Types /\ object \in ObjectMap
  BY DEF IInv, Counted
<1>2. /\ core \in {"hp", "lp"}
      /\ root \in [Root -> {Nil} \cup Object]
      /\ payload \in [Global -> {Nil} \cup Object]
      /\ object \in [Object -> [rc : Nat, field : [Field -> {Nil} \cup Object]]]
      /\ cell \in [Root -> {Nil} \cup Object \cup Block]
      /\ \A b \in Block : block[b] \in
           [used : BOOLEAN, frozen : BOOLEAN,
            word : [Field -> {Nil} \cup Object \cup Block]]
  BY <1>1 DEF Types, ObjectMap, BlockMap, Address
<1>3. table \in Seq(Entry)
  <2>1. CASE core = "hp"
    BY <2>1 DEF IInv
  <2>2. CASE core = "lp"
    BY <2>2 DEF IInv, OnLpCore, Carried, Entered
  <2> QED
    BY <1>1, <2>1, <2>2 DEF Types
<1>4. \A i \in DOMAIN table : table[i] \in Entry
  BY <1>3, EntryIs
<1> QED
  BY <1>2, <1>3, <1>4 DEF TypeOK, Entry

\* Variables have the values of their types.
THEOREM ObjectTypes == Spec => []TypeOK
<1> QED
  BY TypesHold, ObjectsInvariant, PTL

\* No object is freed that is still held: all that hold it are counted.
THEOREM ObjectCounts == Spec => []CountsCover
<1>1. IInv => CountsCover
  <2> SUFFICES ASSUME IInv, NEW v \in Object PROVE Holders(v) <= object[v].rc
    BY DEF CountsCover
  <2> DEFINE A == {h \in Object \X Field :
                     object[h[1]].rc > 0 /\ object[h[1]].field[h[2]] = v}
             B == {h \in Object \X Field : object[h[1]].field[h[2]] = v}
  <2>1. /\ InFields(object, v) + InRoots(root, v) <= object[v].rc
        /\ object[v].rc \in Nat
    BY DEF IInv, Counted, ObjectMap
  <2>2. A \subseteq B /\ IsFiniteSet(B)
    BY Finite, FS_Subset
  <2>3. /\ Cardinality(A) \in Nat /\ Cardinality(B) \in Nat
        /\ Cardinality(A) <= Cardinality(B)
    BY <2>2, FS_Subset, FS_CardinalityType
  <2>4. InRoots(root, v) \in Nat
    BY Numbers
  <2>5. /\ InFields(object, v) = Cardinality(B)
        /\ Holders(v) = InRoots(root, v) + Cardinality(A)
    BY DEF InFields, InRoots, Holders
  <2> HIDE DEF A, B
  <2> QED
    BY <2>1, <2>3, <2>4, <2>5
<1> QED
  BY <1>1, ObjectsInvariant, PTL

Alive == {v \in Object : object[v].rc > 0}

\* The addresses nils kept, as long as they stand for nil.
Ghosts == {x \in Object : Place(x) = Nil}

\* Variables hold what is alive.
LEMMA VariablesAlive ==
  ASSUME IInv, NEW x \in Root
  PROVE  root[x] \in {Nil} \cup Alive
<1>1. root[x] \in {Nil} \cup Object /\ Counted(object, root)
  BY DEF IInv, Types
<1>2. root[x] \in Object => object[root[x]].rc > 0
  BY <1>1, RootAlive
<1> QED
  BY <1>1, <1>2 DEF Alive

\* So do instance variables.
LEMMA FieldsAlive ==
  ASSUME IInv, NEW v \in Object, NEW f \in Field
  PROVE  object[v].field[f] \in {Nil} \cup Alive
<1>1. Counted(object, root)
  BY DEF IInv
<1>2. /\ object[v].field[f] \in {Nil} \cup Object
      /\ object[v].field[f] \in Object => object[object[v].field[f]].rc > 0
  BY <1>1, HeldAlive
<1> QED
  BY <1>2 DEF Alive

\* The copies are among the blocks in G.
PlacedIn(G) ==
  /\ table \in Seq(Entry)
  /\ \A i \in DOMAIN table : table[i].copro # Nil => table[i].copro \in G

\* An address stands for nil, a block of G or an object that is there.
LEMMA Places ==
  ASSUME NEW G \in SUBSET Block, core # "hp" => PlacedIn(G),
         NEW a \in {Nil} \cup G \cup Alive \cup Ghosts
  PROVE  Place(a) \in {Nil} \cup G \cup Alive
<1> DEFINE i == Lookup(table, NONE, a)
<1>1. CASE a \notin Ghosts /\ (core = "hp" \/ a = Nil \/ a \in Block)
  BY <1>1 DEF Place
<1>3. CASE a \in Ghosts
  BY <1>3 DEF Ghosts
<1>2. CASE core # "hp" /\ a # Nil /\ a \notin Block /\ a \notin Ghosts
  <2>1. a \in Alive /\ table \in Seq(Entry)
    BY <1>2 DEF PlacedIn
  <2>2. i # 0 => i \in DOMAIN table
    BY <2>1, LookupIs
  <2>3. i # 0 /\ table[i].copro # Nil => table[i].copro \in G
    BY <1>2, <2>2 DEF PlacedIn
  <2>4. \/ Place(a) = a
        \/ Place(a) = Nil
        \/ i # 0 /\ table[i].copro # Nil /\ Place(a) = table[i].copro
    BY <1>2 DEF Place
  <2> QED
    BY <2>1, <2>3, <2>4
<1> QED
  BY <1>1, <1>2, <1>3

\* There are blocks the program has with what it knows.
LEMMA Within ==
  ASSUME IInv
  PROVE  \E G \in SUBSET Block :
           /\ core # "hp" => PlacedIn(G)
           /\ \A b \in G : block[b].used
           /\ \A x \in Root : (IF core = "hp" THEN root[x] ELSE cell[x])
                                 \in {Nil} \cup G \cup Alive \cup Ghosts
           /\ \A b \in G, f \in Field : block[b].word[f] \in {Nil} \cup G \cup Alive \cup Ghosts
<1>1. Types
  BY DEF IInv
<1>2. CASE core = "hp"
  <2>1. \A x \in Root : root[x] \in {Nil} \cup {} \cup Alive
    BY VariablesAlive
  <2>2. {} \in SUBSET Block
    OBVIOUS
  <2> QED
    BY <1>2, <2>1, <2>2
<1>3. CASE core = "lp"
  <2>1. PICK G \in SUBSET Block : OnLpCore(G)
    BY <1>3 DEF IInv
  <2>2. /\ table \in Seq(Entry) /\ \A i \in DOMAIN table : Backed(table[i], object)
        /\ \A b \in G : block[b].used /\ \A f \in Field : Leads(table, G, block[b].word[f])
        /\ \A i \in DOMAIN table : table[i].copro # Nil => table[i].copro \in G
        /\ \A x \in Root : Leads(table, G, cell[x])
    BY <2>1 DEF OnLpCore, Carried, Entered
  <2>3. ASSUME NEW x \in Address, Leads(table, G, x) PROVE x \in {Nil} \cup G \cup Alive \cup Ghosts
    <3>1. CASE x \in Object
      <4> DEFINE i == Lookup(table, NONE, x)
      <4>1. i \in DOMAIN table /\ i # 0 /\ table[i] \in Entry /\ table[i].main = x
        <5>1. InTable(table, x)
          BY <2>3, <3>1 DEF Leads
        <5> QED BY <2>2, <5>1, MainIs, EntryIs DEF InTable
      <4>2. CASE table[i].ty = "object" \/ table[i].copro # Nil
        BY <2>2, <3>1, <4>1, <4>2 DEF Backed, Alive
      <4>3. CASE table[i].ty = "nil"
        BY <1>3, <3>1, <4>1, <4>3, Apart DEF Place, Ghosts
      <4> QED
        BY <4>1, <4>2, <4>3 DEF Entry
    <3> QED
      BY <2>3, <3>1 DEF Address, Leads
  <2>4. \A x \in Root : cell[x] \in Address
    BY <1>1 DEF Types
  <2>5. \A b \in G, f \in Field : block[b].word[f] \in Address
    BY <1>1 DEF Types, BlockMap
  <2>6. PlacedIn(G)
    BY <2>2 DEF PlacedIn
  <2>7. \A x \in Root : cell[x] \in {Nil} \cup G \cup Alive \cup Ghosts
    BY <2>2, <2>3, <2>4
  <2>8. \A b \in G, f \in Field : block[b].word[f] \in {Nil} \cup G \cup Alive \cup Ghosts
    BY <2>2, <2>3, <2>5
  <2> QED
    BY <1>3, <2>2, <2>6, <2>7, <2>8
<1> QED
  BY <1>1, <1>2, <1>3 DEF Types

\* Every read of the LP core is answered but that of an address a nil kept.
THEOREM ReadsHaveCopies == Spec => []ReadsAreAnswered
<1>1. IInv => ReadsAreAnswered
  <2> SUFFICES ASSUME IInv, core = "lp",
                      NEW x \in Object \cap (Range(cell) \cup
                        UNION {Range(block[cell[r]].word) : r \in {q \in Reg : cell[q] # Nil}})
               PROVE  LET i == Lookup(table, NONE, x)
                      IN  /\ i # 0
                          /\ \/ CopyOf(table, x) # Nil \/ table[i].ty = "object"
                             \/ x \in Stale
    BY DEF ReadsAreAnswered
  <2>1. PICK G \in SUBSET Block :
          /\ Carried(block, table, G)
          /\ cell \in [Root -> Address] /\ block \in BlockMap
          /\ \A z \in Root : Leads(table, G, cell[z])
          /\ \A r \in Reg : r \in Root /\ cell[r] \in {Nil} \cup G
          /\ \A v : NilIn(table, v) => v \in {Nil} \cup Stale
    BY Has
  <2>2. Leads(table, G, x)
    <3>1. CASE x \in Range(cell)
      BY <2>1, <3>1 DEF Range
    <3>2. CASE x \in UNION {Range(block[cell[r]].word) : r \in {q \in Reg : cell[q] # Nil}}
      <4>1. PICK r \in Reg : cell[r] # Nil /\ x \in Range(block[cell[r]].word)
        BY <3>2
      <4>2. cell[r] \in G /\ cell[r] \in Block
        BY <2>1, <4>1
      <4>3. DOMAIN block[cell[r]].word = Field
        BY <2>1, <4>2 DEF BlockMap
      <4> QED
        BY <2>1, <4>1, <4>2, <4>3 DEF Range, Carried
    <3> QED
      BY <3>1, <3>2
  <2> DEFINE i == Lookup(table, NONE, x)
  <2>3. table \in Seq(Entry) /\ InTable(table, x)
    BY <2>1, <2>2 DEF Carried, Entered, Leads
  <2>4. i \in DOMAIN table /\ i # 0 /\ table[i] \in Entry /\ table[i].main = x
    BY <2>3, MainIs, EntryIs DEF InTable
  <2>5. table[i].ty = "object" \/ NilIn(table, x)
    BY <2>4 DEF Entry, NilIn
  <2>6. NilIn(table, x) => x \in Stale
    BY <2>1, Apart
  <2> HIDE DEF i
  <2> QED
    BY <2>4, <2>5, <2>6 DEF i
<1> QED
  BY <1>1, ObjectsInvariant, PTL

-----------------------------------------------------------------------------
\* What the program can get at.

\* The addresses in S, and what is held there.
Onward(S) == UNION {{a} \cup Members(Held(a)) : a \in S}

\* The roots are in T, and what is held by what is in T.
Closes(T) ==
  /\ \A x \in Root : Roots[x] \in {Nil} \cup T
  /\ \A a \in T, f \in Field : Held(a)[f] \in {Nil} \cup T

\* The sets of objects found.
LEMMA ReachedSteps ==
  \E at : /\ at[0] = Members(Roots)
          /\ \A i \in 1 .. HP + LP : at[i] = Onward(at[i - 1])
          /\ Reached = at[HP + LP]
<1> DEFINE n == HP + LP
           a == Members(Roots)
           F(f, m) == [i \in 0 .. m |-> IF i = 0 THEN a ELSE Onward(f[i - 1])]
           T == {m \in 0 .. n : \E f : f = F(f, m)}
           at == CHOOSE f : f = F(f, n)
<1>1. n \in Nat
  BY Finite
<1>2. Reached = at[n]
  BY DEF Reached, Folded, Onward
<1> HIDE DEF a, n, at
<1>3. 0 \in T
  <2> DEFINE g == [i \in 0 .. 0 |-> a]
  <2>1. g = F(g, 0)
    OBVIOUS
  <2>2. 0 \in 0 .. n
    BY <1>1
  <2> QED BY <2>1, <2>2
<1>4. ASSUME NEW m \in 1 .. n, m - 1 \in T PROVE m \in T
  <2>1. PICK f : f = F(f, m - 1)
    BY <1>4
  <2> DEFINE g == [i \in 0 .. m |-> IF i = m THEN Onward(f[m - 1]) ELSE f[i]]
  <2>2. \A i \in 0 .. m : g[i] = IF i = 0 THEN a ELSE Onward(g[i - 1])
    BY <2>1, <1>1
  <2>3. g = F(g, m)
    BY <2>2
  <2>4. m \in 0 .. n
    BY <1>1
  <2> QED BY <2>3, <2>4
<1>5. n \in T
  <2> HIDE DEF T
  <2> QED BY <1>1, <1>3, <1>4, Climb
<1>6. at = F(at, n)
  BY <1>5 DEF at
<1>7. at[0] = a /\ \A i \in 1 .. n : at[i] = Onward(at[i - 1])
  BY <1>6, <1>1
<1> QED BY <1>1, <1>2, <1>7 DEF a, n

\* What the sets found have in common with a set that is closed.
LEMMA OnwardIs ==
  ASSUME NEW S
  PROVE  \A b : b \in Onward(S) <=>
           b \in S \/ \E a \in S, f \in Field : b = Held(a)[f] /\ b # Nil
<1>1. \A a : DOMAIN Held(a) = Field
  BY DEF Held
<1> QED
  BY <1>1 DEF Onward, Members, Range

\* Those found first are what the roots hold.
LEMMA RootMembers ==
  \A b : b \in Members(Roots) <=> b # Nil /\ \E x \in Root : b = Roots[x]
<1> QED
  BY DEF Members, Range, Roots

\* No object is found that is not in a closed set.
LEMMA ReachedWithin ==
  ASSUME NEW T, Closes(T)
  PROVE  Reached \subseteq T
<1> DEFINE n == HP + LP
<1>1. PICK at : /\ at[0] = Members(Roots)
                /\ \A i \in 1 .. n : at[i] = Onward(at[i - 1])
                /\ Reached = at[n]
  BY ReachedSteps, Zenon
<1>2. n \in Nat
  BY Finite
<1> HIDE DEF n
<1> DEFINE U == {i \in 0 .. n : at[i] \subseteq T}
<1>3. 0 \in U
  BY <1>1, <1>2, RootMembers DEF Closes
<1>4. ASSUME NEW i \in 1 .. n, i - 1 \in U PROVE i \in U
  <2>1. at[i] = Onward(at[i - 1]) /\ at[i - 1] \subseteq T
    BY <1>1, <1>4
  <2>2. at[i] \subseteq T
    BY <2>1, OnwardIs DEF Closes
  <2> QED BY <2>2
<1>5. n \in U
  <2> HIDE DEF U
  <2> QED BY <1>2, <1>3, <1>4, Climb
<1> QED BY <1>1, <1>5

\* Addresses the roots hold, and what is held, are addresses there are.
LEMMA HeldTypes ==
  ASSUME IInv
  PROVE  Closes(Object \cup Block)
<1>1. TypeOK
  BY TypesHold
<1>2. ASSUME NEW a \in Address PROVE Place(a) \in Address
  <2> DEFINE i == Lookup(table, NONE, a)
  <2>1. table \in Seq(Entry)
    BY TypesHold
  <2>2. i # 0 => i \in DOMAIN table
    BY <2>1, LookupIs
  <2>3. i # 0 => table[i].copro \in Address
    BY <2>1, <2>2, EntryIs DEF Address
  <2> QED
    BY <1>2, <2>3 DEF Place, Address
<1>3. \A x \in Root : Roots[x] \in Address
  BY <1>1, <1>2 DEF TypeOK, Roots, Address
<1>4. ASSUME NEW a \in Object \cup Block, NEW f \in Field PROVE Held(a)[f] \in Address
  <2>1. CASE a \in Block
    <3>1. block[a].word[f] \in Address
      BY <1>1, <2>1 DEF TypeOK, Address
    <3> QED BY <1>2, <2>1, <3>1 DEF Held
  <2>2. CASE a \notin Block
    <3>1. object[a].field[f] \in Address
      BY <1>1, <2>2 DEF TypeOK, Address
    <3> QED BY <1>2, <2>2, <3>1 DEF Held
  <2> QED BY <2>1, <2>2
<1> QED
  BY <1>3, <1>4 DEF Closes, Address

\* When as many sets have been found as there are addresses the last is closed.
LEMMA ReachedCloses ==
  ASSUME IInv
  PROVE  Closes(Reached) /\ Reached \subseteq Object \cup Block
<1> DEFINE n == HP + LP
           A == Object \cup Block
           Closed(S) == Onward(S) \subseteq S
<1>1. PICK at : /\ at[0] = Members(Roots)
                /\ \A i \in 1 .. n : at[i] = Onward(at[i - 1])
                /\ Reached = at[n]
  BY ReachedSteps, Zenon
<1>2. n \in Nat /\ IsFiniteSet(A) /\ Cardinality(A) = n
  <2>1. HP \in Nat /\ LP \in Nat
    BY Finite
  <2>2. A = 1 .. n
    BY <2>1 DEF Object, Block
  <2>3. n \in Nat
    BY <2>1
  <2> HIDE DEF n, A
  <2>4. IsFiniteSet(1 .. n) /\ Cardinality(1 .. n) = IF 1 > n THEN 0 ELSE n - 1 + 1
    BY <2>3, FS_Interval
  <2>5. Cardinality(1 .. n) = n
    BY <2>3, <2>4
  <2> QED BY <2>2, <2>3, <2>4, <2>5
<1>3. Members(Roots) \subseteq A /\ Closed(A)
  BY HeldTypes, OnwardIs, RootMembers DEF Closes
<1>4. ASSUME NEW S \in SUBSET A PROVE S \subseteq Onward(S) /\ Onward(S) \subseteq A
  BY <1>3, OnwardIs
<1> HIDE DEF n, A
<1> DEFINE U == {i \in 0 .. n : /\ at[i] \subseteq A /\ Members(Roots) \subseteq at[i]
                                /\ Closed(at[i]) \/ Cardinality(at[i]) >= i}
<1>5. 0 \in U
  <2>1. IsFiniteSet(at[0])
    BY <1>1, <1>2, <1>3, FS_Subset
  <2>2. Cardinality(at[0]) \in Nat
    BY <2>1, FS_CardinalityType
  <2> QED BY <1>1, <1>2, <1>3, <2>2
<1>6. ASSUME NEW i \in 1 .. n, i - 1 \in U PROVE i \in U
  <2> DEFINE S == at[i - 1]
             R == at[i]
  <2>1. /\ R = Onward(S) /\ S \subseteq A /\ Members(Roots) \subseteq S
        /\ Closed(S) \/ Cardinality(S) >= i - 1
    BY <1>1, <1>6
  <2>2. S \subseteq R /\ R \subseteq A
    BY <2>1, <1>4
  <2>3. /\ IsFiniteSet(S) /\ IsFiniteSet(R)
        /\ Cardinality(S) \in Nat /\ Cardinality(R) \in Nat
    BY <2>2, <1>2, FS_Subset, FS_CardinalityType
  <2> HIDE DEF S, R
  <2>4. CASE S = R
    <3>1. Closed(R)
      BY <2>1, <2>4
    <3> QED BY <2>1, <2>2, <3>1 DEF R
  <2>5. CASE S # R
    <3>1. ~ Closed(S)
      BY <2>1, <2>2, <2>5
    <3>2. Cardinality(S) <= Cardinality(R) /\ Cardinality(R) # Cardinality(S)
      BY <2>2, <2>3, <2>5, FS_Subset
    <3>3. Cardinality(R) >= i
      BY <2>1, <2>3, <3>1, <3>2
    <3> QED BY <2>1, <2>2, <3>3 DEF R
  <2> QED BY <2>4, <2>5
<1>7. n \in U
  <2> HIDE DEF U
  <2> QED BY <1>2, <1>5, <1>6, Climb
<1>8. /\ Reached \subseteq A /\ Members(Roots) \subseteq Reached
      /\ Closed(Reached) \/ Cardinality(Reached) >= n
  BY <1>1, <1>7
<1>9. Closed(Reached)
  <2>1. CASE Cardinality(Reached) >= n
    <3>1. IsFiniteSet(Reached) /\ Cardinality(Reached) <= n
      BY <1>2, <1>8, FS_Subset
    <3>2. Cardinality(Reached) \in Nat
      BY <3>1, FS_CardinalityType
    <3>3. Cardinality(Reached) = Cardinality(A)
      BY <1>2, <2>1, <3>1, <3>2
    <3>4. Reached = A
      BY <1>2, <1>8, <3>3, FS_Subset
    <3> QED BY <1>3, <3>4
  <2> QED BY <1>8, <2>1
<1>10. Closes(Reached)
  BY <1>8, <1>9, OnwardIs, RootMembers DEF Closes
<1> QED
  BY <1>8, <1>10 DEF A

\* What the program gets at, wherever it runs, is in use or alive.
LEMMA NoneFree ==
  ASSUME IInv
  PROVE  NothingDangles
<1>1. PICK G \in SUBSET Block :
        /\ core # "hp" => PlacedIn(G)
        /\ \A b \in G : block[b].used
        /\ \A x \in Root : (IF core = "hp" THEN root[x] ELSE cell[x])
                              \in {Nil} \cup G \cup Alive \cup Ghosts
        /\ \A b \in G, f \in Field :
             block[b].word[f] \in {Nil} \cup G \cup Alive \cup Ghosts
  BY Within
<1> DEFINE S == G \cup Alive
<1>2. \A x \in Root : Roots[x] \in {Nil} \cup S
  BY <1>1, Places DEF Roots
<1>3. ASSUME NEW c \in S, NEW f \in Field PROVE Held(c)[f] \in {Nil} \cup S
  <2>1. (IF c \in Block THEN block[c].word[f] ELSE object[c].field[f])
           \in {Nil} \cup G \cup Alive \cup Ghosts
    <3>1. CASE c \in Block
      <4>1. c \in G
        BY <3>1, Apart DEF Alive
      <4> QED
        BY <1>1, <3>1, <4>1
    <3>2. CASE c \notin Block
      <4>1. c \in Object
        BY <3>2 DEF Alive
      <4>2. object[c].field[f] \in {Nil} \cup Alive
        BY <4>1, FieldsAlive
      <4> QED
        BY <3>2, <4>2
    <3> QED
      BY <3>1, <3>2
  <2>2. Held(c)[f] = Place(IF c \in Block THEN block[c].word[f] ELSE object[c].field[f])
    BY DEF Held
  <2> QED
    BY <1>1, <2>1, <2>2, Places
<1>4. Closes(S)
  BY <1>2, <1>3 DEF Closes
<1>5. Reached \subseteq S
  BY <1>4, ReachedWithin
<1> QED
  BY <1>1, <1>5, Apart DEF Alive, NothingDangles

\* So nothing dangles in any reachable state.
THEOREM NothingFreeIsHeld == Spec => []NothingDangles
<1> QED
  BY NoneFree, ObjectsInvariant, PTL

-----------------------------------------------------------------------------
\* What a step does to what the program sees.

\* The memory at the address a is in use.
Live(a) == IF a \in Block THEN block[a].used ELSE object[a].rc > 0

\* The addresses found are closed, there, and within each closed set.
Found ==
  /\ Closes(Reached) /\ Reached \subseteq Object \cup Block
  /\ \A a \in Reached : Live(a)
  /\ \A T : Closes(T) => Reached \subseteq T

\* They are, by the invariant.
LEMMA FoundIs ==
  IInv => Found
<1> QED
  BY ReachedCloses, NoneFree, ReachedWithin DEF Found, NothingDangles, Live

\* And they are after a step.
LEMMA FoundNext ==
  IInv' => Found'
<1> QED
  BY FoundIs, PTL

\* The address that was a.
Was(m, a) == IF a = Nil THEN Nil ELSE m[a]

\* A map from new addresses, closed, to those in s, under which roots and what
\* is held are as in s: then the program cannot tell the new state from s.
LEMMA SameBy ==
  ASSUME IInv', view' = View',
         NEW s, NEW T, NEW m \in [T -> DOMAIN s.field],
         \A a, b \in T : m[a] = m[b] => a = b,
         \A x \in Root : Roots'[x] \in {Nil} \cup T /\ s.root[x] = Was(m, Roots'[x]),
         \A a \in T, f \in Field : Held(a)'[f] \in {Nil} \cup T,
         \A a \in T, f \in Field :
           Live(a)' => s.field[m[a]][f] = Was(m, Held(a)'[f])
  PROVE  Store!Same(s, view')
<1> DEFINE R == Reached'
           n == [a \in R |-> m[a]]
<1>1. Found'
  BY FoundNext
<1>2. Closes(T)'
  BY DEF Closes
<1>3. R \subseteq T
  BY <1>1, <1>2 DEF Found
<1>4. /\ view'.root = Roots' /\ DOMAIN view'.field = R
      /\ \A a \in R : view'.field[a] = Held(a)'
  BY DEF View
<1>5. n \in [R -> DOMAIN s.field] /\ Store!IsInjective(n)
  BY <1>3 DEF Store!IsInjective
<1>6. ASSUME NEW x \in Root
      PROVE  Roots'[x] \in {Nil} \cup R /\ s.root[x] = Store!Was(n, Roots'[x])
  <2>1. Roots'[x] \in {Nil} \cup R
    BY <1>1 DEF Found, Closes
  <2> QED BY <2>1 DEF Was, Store!Was, Store!Nil, Nil
<1>7. Range(Roots') \subseteq {Nil} \cup R
  <2>1. DOMAIN Roots' = Root
    BY DEF Roots
  <2> QED BY <1>6, <2>1 DEF Range
<1>8. ASSUME NEW a \in R, NEW f \in Field
      PROVE  /\ Held(a)'[f] \in {Nil} \cup R
             /\ s.field[n[a]][f] = Store!Was(n, Held(a)'[f])
  <2>1. Held(a)'[f] \in {Nil} \cup R
    BY <1>1 DEF Found, Closes
  <2>2. s.field[m[a]][f] = Was(m, Held(a)'[f])
    BY <1>1, <1>3 DEF Found
  <2> QED BY <2>1, <2>2 DEF Was, Store!Was, Store!Nil, Nil
<1> HIDE DEF n, R
<1> QED
  BY <1>4, <1>5, <1>6, <1>7, <1>8 DEF Store!Same, Store!Range, Range, Store!Nil, Nil

-----------------------------------------------------------------------------
\* What is dropped.

\* Objects with any counts, and what is due of them.
Loose(o, due) ==
  /\ o \in [Object -> [rc : Int, field : [Field -> {Nil} \cup Object]]]
  /\ due \in [Object -> Nat]

\* The objects of p have the instance variables they have in o, or are free.
Fewer(o, p) == \A v \in Object : p[v].field = o[v].field \/ p[v] = NoObject

\* One mrbc_decref changes no instance variable, or frees the object.
LEMMA DecrefFewer ==
  ASSUME NEW s, NEW i, Loose(s.object, s.due)
  PROVE  /\ Loose(Decref(s, i).object, Decref(s, i).due)
         /\ Fewer(s.object, Decref(s, i).object)
         /\ \A v \in Object : s.object[v] = NoObject => Decref(s, i).object[v] = NoObject
<1> DEFINE o == s.object
           S == {u \in Object : s.due[u] > 0}
           v == Smallest(S)
           rest == [s.due EXCEPT ![v] = @ - 1]
           held == [u \in Object |-> Cardinality({f \in Field : o[v].field[f] = u})]
<1>1. CASE \A u \in Object : s.due[u] = 0
  <2>1. Decref(s, i) = s
    BY <1>1, Zenon DEF Decref
  <2> QED BY <2>1 DEF Fewer, NoObject
<1>2. CASE ~ \A u \in Object : s.due[u] = 0
  <2>1. S # {} /\ S \in SUBSET Nat
    <3>1. \A u \in Object : s.due[u] \in Nat
      BY DEF Loose
    <3>2. S # {}
      BY <1>2, <3>1
    <3>3. S \subseteq Object
      OBVIOUS
    <3> QED BY <3>2, <3>3, Apart
  <2>2. v \in S
    BY <2>1, SmallestIs
  <2> HIDE DEF v
  <2>3. v \in Object /\ s.due[v] >= 1
    BY <2>2 DEF Loose
  <2>4. rest \in [Object -> Nat]
    BY <2>3 DEF Loose
  <2>5. CASE o[v].rc > 1
    <3> DEFINE p == [o EXCEPT ![v].rc = @ - 1]
    <3>1. Decref(s, i) = [object |-> p, due |-> rest]
      BY <1>2, <2>5 DEF Decref, v
    <3>2. /\ p \in [Object -> [rc : Int, field : [Field -> {Nil} \cup Object]]]
          /\ \A u \in Object : p[u].field = o[u].field /\ (u # v => p[u] = o[u])
      BY <2>3 DEF Loose
    <3>3. \A u \in Object : o[u] = NoObject => p[u] = NoObject
      BY <2>5, <3>2 DEF NoObject
    <3> HIDE DEF p, rest
    <3> QED BY <2>4, <3>1, <3>2, <3>3 DEF Loose, Fewer
  <2>6. CASE ~ (o[v].rc > 1)
    <3> DEFINE p == [o EXCEPT ![v] = NoObject]
               due == [u \in Object |-> rest[u] + held[u]]
    <3>1. Decref(s, i) = [object |-> p, due |-> due]
      BY <1>2, <2>6 DEF Decref, v
    <3>2. p \in [Object -> [rc : Int, field : [Field -> {Nil} \cup Object]]]
      <4>1. NoObject \in [rc : Int, field : [Field -> {Nil} \cup Object]]
        BY DEF NoObject, Blank
      <4> QED BY <4>1 DEF Loose
    <3>3. \A u \in Object : p[u] = IF u = v THEN NoObject ELSE o[u]
      BY DEF Loose
    <3>4. ASSUME NEW u \in Object PROVE held[u] \in Nat
      <4>1. IsFiniteSet({f \in Field : o[v].field[f] = u})
        BY Finite, FS_Subset
      <4> QED BY <4>1, FS_CardinalityType
    <3>5. due \in [Object -> Nat]
      BY <2>4, <3>4
    <3> HIDE DEF due, p
    <3> QED BY <3>1, <3>2, <3>3, <3>5 DEF Loose, Fewer, NoObject
  <2> QED BY <2>5, <2>6
<1> QED BY <1>1, <1>2

\* Those that are not freed keep their instance variables.
LEMMA DroppedFewer ==
  ASSUME NEW o \in [Object -> [rc : Int, field : [Field -> {Nil} \cup Object]]], NEW S
  PROVE  Fewer(o, Dropped(o, S))
<1> DEFINE n == Steps
<1>1. n \in Nat
  BY Finite DEF Steps
<1>2. PICK at : /\ at[0] = [object |-> o, due |-> Due(S)]
                /\ \A i \in 1 .. n : at[i] = Decref(at[i - 1], i)
                /\ Dropped(o, S) = at[n].object
  BY DroppedSteps, Zenon
<1> DEFINE T == {i \in 0 .. n : Loose(at[i].object, at[i].due) /\ Fewer(o, at[i].object)}
<1>3. Loose(o, Due(S)) /\ Fewer(o, o)
  BY DEF Loose, Due, Fewer
<1> HIDE DEF n
<1>4. 0 \in T
  BY <1>1, <1>2, <1>3
<1>5. ASSUME NEW i \in 1 .. n, i - 1 \in T PROVE i \in T
  <2> DEFINE w == at[i - 1]
             u == at[i]
  <2>1. Loose(w.object, w.due) /\ Fewer(o, w.object) /\ u = Decref(w, i)
    BY <1>2, <1>5
  <2> HIDE DEF w
  <2>2. /\ Loose(u.object, u.due) /\ Fewer(w.object, u.object)
        /\ \A v \in Object : w.object[v] = NoObject => u.object[v] = NoObject
    BY <2>1, DecrefFewer
  <2> HIDE DEF u
  <2>3. Fewer(o, u.object)
    BY <2>1, <2>2 DEF Fewer
  <2> QED BY <2>2, <2>3 DEF u
<1>6. n \in T
  <2> HIDE DEF T
  <2> QED BY <1>1, <1>4, <1>5, Climb
<1> QED BY <1>2, <1>6

\* An object that is there still has its instance variables.
LEMMA LiveFields ==
  ASSUME NEW o, NEW p, Fewer(o, p), NEW v \in Object, p[v].rc > 0
  PROVE  p[v].field = o[v].field
<1> QED BY DEF Fewer, NoObject

-----------------------------------------------------------------------------
\* The steps of the program on the HP core.

\* There an address stands for itself, and no block is found.
HpSees ==
  /\ \A x \in Root : Roots[x] = root[x]
  /\ \A a \in Object, f \in Field : Held(a)[f] = object[a].field[f]
  /\ Reached \subseteq Object

\* So it is on the HP core.
LEMMA HpSeesIs ==
  IInv /\ core = "hp" => HpSees
<1> SUFFICES ASSUME IInv, core = "hp" PROVE HpSees
  OBVIOUS
<1>1. TypeOK
  BY TypesHold
<1>2. \A x \in Root : Roots[x] = root[x]
  BY DEF Roots, Place
<1>3. \A a \in Object, f \in Field : Held(a)[f] = object[a].field[f]
  BY Apart DEF Held, Place
<1>4. Closes(Object)
  BY <1>1, <1>2, <1>3 DEF Closes, TypeOK
<1> QED
  BY <1>2, <1>3, <1>4, ReachedWithin DEF HpSees

\* And after a step that ends there.
LEMMA HpSeesNext ==
  IInv' /\ core' = "hp" => HpSees'
<1>1. (IInv /\ core = "hp" => HpSees)'
  BY HpSeesIs, PTL
<1> QED
  BY <1>1

\* What is kept of it.
LEMMA ViewIs ==
  ASSUME view = View
  PROVE  /\ view = [root |-> Roots, field |-> view.field]
         /\ DOMAIN Roots = Root /\ DOMAIN view.field = Reached
         /\ \A a \in Reached : view.field[a] = Held(a)
         /\ \A a : DOMAIN Held(a) = Field
<1> QED
  BY DEF View, Roots, Held

\* The next state has the objects o, of which some are freed, and they are
\* those of s with the addresses that m maps to the old ones.
HpShows(o, s, T, m) ==
  /\ Fewer(o, object') /\ T \subseteq Object
  /\ m \in [T -> DOMAIN s.field] /\ \A a, b \in T : m[a] = m[b] => a = b
  /\ \A x \in Root : root'[x] \in {Nil} \cup T /\ s.root[x] = Was(m, root'[x])
  /\ \A a \in T, f \in Field :
       /\ o[a].field[f] \in {Nil} \cup T
       /\ s.field[m[a]][f] = Was(m, o[a].field[f])

\* That is enough for the program to see s.
LEMMA HpBecomes ==
  ASSUME IInv', core' = "hp", view' = View',
         NEW o, NEW s, NEW T, NEW m, HpShows(o, s, T, m)
  PROVE  Store!Same(s, view')
<1> USE DEF HpShows
<1>1. HpSees'
  BY HpSeesNext
<1>2. \A x \in Root : Roots'[x] = root'[x]
  BY <1>1 DEF HpSees
<1>3. \A a \in T, f \in Field : Held(a)'[f] = object'[a].field[f]
  BY <1>1 DEF HpSees
<1>4. ASSUME NEW a \in T, NEW f \in Field PROVE Held(a)'[f] \in {Nil} \cup T
  BY <1>3, <1>4 DEF Fewer, NoObject, Blank
<1>5. ASSUME NEW a \in T, NEW f \in Field, Live(a)'
      PROVE  s.field[m[a]][f] = Was(m, Held(a)'[f])
  <2>1. a \in Object /\ a \notin Block
    BY Apart
  <2>2. object'[a].rc > 0
    BY <1>5, <2>1 DEF Live
  <2>3. object'[a].field = o[a].field
    BY <2>1, <2>2, LiveFields
  <2> QED BY <1>3, <2>3
<1> QED
  BY <1>2, <1>4, <1>5, SameBy

\* A variable gets v, and lets go of what it had.
LEMMA HpAssigns ==
  ASSUME IInv, IInv', view = View, view' = View', OnHp, NEW o \in ObjectMap,
         \A a \in Object : o[a].field = object[a].field,
         NEW x \in Root, NEW v \in {Nil} \cup Reached, HpSet(o, x, v)
  PROVE  Store!Assign(x, v)
<1> DEFINE s == [view EXCEPT !.root[x] = v]
           R == Reached
           m == [a \in R |-> a]
<1>1. HpSees /\ Found
  BY HpSeesIs, FoundIs DEF OnHp
<1>2. root \in [Root -> {Nil} \cup Object] /\ Fewer(o, object')
  <2>1. o \in [Object -> [rc : Int, field : [Field -> {Nil} \cup Object]]]
    BY DEF ObjectMap
  <2> QED BY <2>1, TypesHold, DroppedFewer DEF TypeOK, HpSet
<1>3. /\ s.field = view.field /\ DOMAIN s.field = R
      /\ \A y \in Root : s.root[y] = IF y = x THEN v ELSE root[y]
      /\ \A a \in R, f \in Field : s.field[a][f] = object[a].field[f]
  <2>1. /\ s.field = view.field
        /\ \A y \in Root : s.root[y] = IF y = x THEN v ELSE Roots[y]
    BY ViewIs
  <2> QED BY <1>1, <2>1, ViewIs DEF HpSees
<1> HIDE DEF s
<1>4. m \in [R -> DOMAIN s.field] /\ \A a, b \in R : m[a] = m[b] => a = b
  BY <1>3
<1>5. \A a \in R, f \in Field :
        /\ o[a].field[f] \in {Nil} \cup R
        /\ s.field[m[a]][f] = Was(m, o[a].field[f])
  <2>1. \A a \in R, f \in Field : object[a].field[f] \in {Nil} \cup R
    BY <1>1 DEF HpSees, Found, Closes
  <2> QED BY <1>1, <1>3, <2>1 DEF Was, HpSees
<1>6. \A y \in Root : root'[y] \in {Nil} \cup R /\ s.root[y] = Was(m, root'[y])
  <2>1. \A y \in Root : root'[y] = IF y = x THEN v ELSE root[y]
    BY <1>2 DEF HpSet
  <2>2. \A y \in Root : root[y] \in {Nil} \cup R
    BY <1>1 DEF HpSees, Found, Closes
  <2> QED BY <1>3, <2>1, <2>2 DEF Was
<1>7. R \in SUBSET Object /\ core' = "hp"
  BY <1>1 DEF HpSees, OnHp
<1> HIDE DEF R, m
<1>8. HpShows(o, s, R, m)
  BY <1>2, <1>4, <1>5, <1>6, <1>7 DEF HpShows
<1>9. Store!Same(s, view')
  BY <1>7, <1>8, HpBecomes
<1> QED
  BY <1>9 DEF s, Store!Assign, Store!Becomes

\* A new object is in the store before it has an address there.
LEMMA HpMakes ==
  ASSUME IInv, IInv', view = View, view' = View', NEW r \in Reg, HpNew(r)
  PROVE  Store!Make(r)
<1> DEFINE v == Smallest(FreeObjects(object))
           o == [object EXCEPT ![v].rc = 1]
           R == Reached
           New == Store!New
           s == [root  |-> [view.root EXCEPT ![r] = New],
                 field |-> [a \in {New} \cup R |->
                              IF a = New THEN Store!Blank ELSE view.field[a]]]
           T == R \cup {v}
           m == [a \in T |-> IF a = v THEN New ELSE a]
<1>1. HpSees /\ Found /\ core' = "hp" /\ r \in Root
  BY HpSeesIs, FoundIs, Apart DEF OnHp, HpNew
<1>2. v \in Object /\ object[v].rc = 0 /\ object \in ObjectMap /\ object[v].field = Blank
  <2>1. FreeObjects(object) \subseteq Nat /\ FreeObjects(object) # {}
    BY Apart DEF FreeObjects, HpNew
  <2>2. v \in FreeObjects(object)
    BY <2>1, SmallestIs
  <2> HIDE DEF v
  <2>3. v \in Object /\ object[v].rc = 0
    BY <2>2 DEF FreeObjects
  <2> QED BY <2>3 DEF IInv, Counted, Clean
<1>3. HpSet(o, r, v)
  BY DEF HpNew
<1> HIDE DEF v
<1>4. /\ o \in ObjectMap /\ \A a \in Object : o[a].field = object[a].field
      /\ root \in [Root -> {Nil} \cup Object]
  BY <1>2, TypesHold DEF ObjectMap, TypeOK
<1>5. Fewer(o, object')
  <2>1. o \in [Object -> [rc : Int, field : [Field -> {Nil} \cup Object]]]
    BY <1>4 DEF ObjectMap
  <2> QED BY <2>1, <1>3, DroppedFewer DEF HpSet
<1> HIDE DEF o
<1>6. v \notin R /\ New \notin Object
  <2>1. \A a \in R : a \in Object /\ a \notin Block /\ object[a].rc > 0
    BY <1>1, Apart DEF HpSees, Found, Live
  <2> QED BY <2>1, <1>2, Apart DEF Store!New
<1>7. /\ DOMAIN s.field = {New} \cup R
      /\ \A y \in Root : s.root[y] = IF y = r THEN New ELSE root[y]
      /\ \A f \in Field : s.field[New][f] = Nil
      /\ \A a \in R, f \in Field : s.field[a][f] = object[a].field[f]
  <2>1. \A y \in Root : s.root[y] = IF y = r THEN New ELSE root[y]
    BY <1>1, ViewIs DEF HpSees
  <2>2. \A f \in Field : s.field[New][f] = Nil
    BY DEF Store!Blank, Store!Nil, Nil
  <2>3. \A a \in R : s.field[a] = view.field[a]
    BY <1>1, <1>6 DEF HpSees
  <2> QED BY <1>1, <2>1, <2>2, <2>3, ViewIs DEF HpSees
<1>8. Store!Make(r) <=> Store!Same(s, view')
  BY ViewIs DEF Store!Make, Store!Becomes
<1> HIDE DEF s, New
<1>9. m \in [T -> DOMAIN s.field] /\ \A a, b \in T : m[a] = m[b] => a = b
  BY <1>1, <1>2, <1>6, <1>7 DEF HpSees
<1>10. \A a \in T, f \in Field :
         /\ o[a].field[f] \in {Nil} \cup T
         /\ s.field[m[a]][f] = Was(m, o[a].field[f])
  <2>1. \A a \in R, f \in Field : object[a].field[f] \in {Nil} \cup R
    BY <1>1 DEF HpSees, Found, Closes
  <2>2. ASSUME NEW a \in R, NEW f \in Field
        PROVE  /\ o[a].field[f] \in {Nil} \cup T
               /\ s.field[m[a]][f] = Was(m, o[a].field[f])
    <3>1. o[a].field[f] = object[a].field[f] /\ m[a] = a
      BY <1>1, <1>4, <1>6 DEF HpSees
    <3>2. s.field[m[a]][f] = object[a].field[f]
      BY <1>7, <3>1
    <3> QED BY <1>6, <2>1, <3>1, <3>2 DEF Was
  <2>3. \A f \in Field : o[v].field[f] = Nil /\ m[v] = New
    BY <1>2, <1>4 DEF Blank
  <2> QED BY <1>7, <2>2, <2>3 DEF Was
<1>11. \A y \in Root : root'[y] \in {Nil} \cup T /\ s.root[y] = Was(m, root'[y])
  <2>1. \A y \in Root : root'[y] = IF y = r THEN v ELSE root[y]
    BY <1>3, <1>4 DEF HpSet
  <2>2. \A y \in Root : root[y] \in {Nil} \cup R
    BY <1>1 DEF HpSees, Found, Closes
  <2>3. v # Nil
    BY <1>2, Apart
  <2> QED BY <1>6, <1>7, <2>1, <2>2, <2>3 DEF Was
<1>12. T \subseteq Object
  BY <1>1, <1>2 DEF HpSees
<1> HIDE DEF T, m
<1>13. HpShows(o, s, T, m)
  BY <1>5, <1>9, <1>10, <1>11, <1>12 DEF HpShows
<1> QED
  BY <1>1, <1>8, <1>13, HpBecomes

\* An instance variable gets the value of a register.
LEMMA HpPuts ==
  ASSUME IInv, IInv', view = View, view' = View',
         NEW q \in Reg, NEW f \in Field, NEW r \in Reg, HpSetIv(q, f, r)
  PROVE  Store!Put(q, f, r)
<1> DEFINE u == root[q]
           v == root[r]
           i == Incref(object, v)
           o == [i EXCEPT ![u].field[f] = v]
           R == Reached
           s == [view EXCEPT !.field[view.root[q]][f] = view.root[r]]
           m == [a \in R |-> a]
<1>1. HpSees /\ Found /\ core' = "hp" /\ r \in Root /\ q \in Root
  BY HpSeesIs, FoundIs, Apart DEF OnHp, HpSetIv
<1>2. /\ object' = Dropped(o, {object[u].field[f]}) /\ root' = root /\ u # Nil
  BY DEF HpSetIv
<1>3. u \in R /\ v \in {Nil} \cup R /\ R \subseteq Object
  BY <1>1, <1>2 DEF HpSees, Found, Closes
<1>4. view.root[q] = u /\ view.root[r] = v
  BY <1>1, ViewIs DEF HpSees
<1> HIDE DEF u, v
<1>5. i \in ObjectMap /\ \A a \in Object : i[a].field = object[a].field
  BY <1>3, IncrefCounts DEF IInv, Counted
<1> HIDE DEF i
<1>6. /\ o \in [Object -> [rc : Int, field : [Field -> {Nil} \cup Object]]]
      /\ \A a \in Object, g \in Field :
           o[a].field[g] = IF a = u /\ g = f THEN v ELSE object[a].field[g]
  <2>1. o \in [Object -> [rc : Int, field : [Field -> {Nil} \cup Object]]]
    BY <1>3, <1>5 DEF ObjectMap
  <2>2. \A a \in Object, g \in Field :
          o[a].field[g] = IF a = u /\ g = f THEN v ELSE i[a].field[g]
    BY <1>3, <1>5 DEF ObjectMap
  <2> HIDE DEF o
  <2> QED BY <1>5, <2>1, <2>2
<1> HIDE DEF o
<1>7. Fewer(o, object')
  BY <1>2, <1>6, DroppedFewer
<1>8. /\ DOMAIN s.field = R
      /\ \A y \in Root : s.root[y] = root[y]
      /\ \A a \in R, g \in Field :
           s.field[a][g] = IF a = u /\ g = f THEN v ELSE object[a].field[g]
  <2>1. DOMAIN s.field = DOMAIN view.field /\ s.root = view.root
    BY ViewIs
  <2>2. \A a \in R, g \in Field :
          s.field[a][g] = IF a = u /\ g = f THEN v ELSE view.field[a][g]
    BY <1>3, <1>4, ViewIs
  <2> HIDE DEF s
  <2> QED BY <1>1, <1>3, <2>1, <2>2, ViewIs DEF HpSees
<1>9. Store!Put(q, f, r) <=> Store!Same(s, view')
  BY <1>2, <1>4 DEF Store!Put, Store!Becomes, Store!Nil, Nil
<1> HIDE DEF s
<1>10. m \in [R -> DOMAIN s.field] /\ \A a, b \in R : m[a] = m[b] => a = b
  BY <1>8
<1>11. \A a \in R, g \in Field :
         /\ o[a].field[g] \in {Nil} \cup R
         /\ s.field[m[a]][g] = Was(m, o[a].field[g])
  <2>1. \A a \in R, g \in Field : object[a].field[g] \in {Nil} \cup R
    BY <1>1 DEF HpSees, Found, Closes
  <2> QED BY <1>3, <1>6, <1>8, <2>1 DEF Was
<1>12. \A y \in Root : root'[y] \in {Nil} \cup R /\ s.root[y] = Was(m, root'[y])
  <2>1. \A y \in Root : root[y] \in {Nil} \cup R
    BY <1>1 DEF HpSees, Found, Closes
  <2> QED BY <1>2, <1>8, <2>1 DEF Was
<1> HIDE DEF R, m
<1>13. HpShows(o, s, R, m)
  BY <1>3, <1>7, <1>10, <1>11, <1>12 DEF HpShows
<1> QED
  BY <1>1, <1>9, <1>13, HpBecomes

\* The heap of the LP core can be cleared.
LEMMA HpClearSeen ==
  ASSUME IInv, IInv', view = View, view' = View', HpClear
  PROVE  Store!Becomes(view)
<1> DEFINE R == Reached
           m == [a \in R |-> a]
<1>1. HpSees /\ Found /\ core' = "hp" /\ object' = object /\ root' = root
  BY HpSeesIs, FoundIs DEF HpClear
<1>2. Fewer(object, object') /\ R \subseteq Object
  BY <1>1 DEF Fewer, HpSees
<1>3. \A a \in R, f \in Field : object[a].field[f] \in {Nil} \cup R
  BY <1>1 DEF HpSees, Found, Closes
<1>4. \A x \in Root : root[x] \in {Nil} \cup R /\ view.root[x] = root[x]
  BY <1>1, ViewIs DEF HpSees, Found, Closes
<1>5. /\ DOMAIN view.field = R
      /\ \A a \in R, f \in Field : view.field[a][f] = object[a].field[f]
  BY <1>1, ViewIs DEF HpSees
<1> HIDE DEF R
<1>6. m \in [R -> DOMAIN view.field] /\ \A a, b \in R : m[a] = m[b] => a = b
  BY <1>5
<1>7. \A x \in Root : root'[x] \in {Nil} \cup R /\ view.root[x] = Was(m, root'[x])
  BY <1>1, <1>4 DEF Was
<1>8. \A a \in R, f \in Field :
        /\ object[a].field[f] \in {Nil} \cup R
        /\ view.field[m[a]][f] = Was(m, object[a].field[f])
  BY <1>3, <1>5 DEF Was
<1> HIDE DEF m
<1>9. HpShows(object, view, R, m)
  BY <1>2, <1>6, <1>7, <1>8 DEF HpShows
<1> QED
  BY <1>1, <1>9, HpBecomes DEF Store!Becomes

\* An assignment of what is seen is a step of the store.
LEMMA AssignStep ==
  ASSUME NEW x \in Root, NEW v, v = Nil \/ \E y \in Root : v = view.root[y],
         DOMAIN view.root = Root, Store!Assign(x, v)
  PROVE  Store!Next
<1>1. v \in {Store!Nil} \cup Store!Range(view.root)
  BY DEF Store!Nil, Nil, Store!Range
<1> QED
  BY <1>1 DEF Store!Next

\* Every step of the HP core is a step of the store.
LEMMA HpFollows ==
  ASSUME IInv, IInv', view = View, view' = View', HpAct \/ HpClear
  PROVE  Store!Next
<1>1. Reg \subseteq Root /\ Global \subseteq Root
  BY Apart
<1>2. CASE HpClear
  BY <1>2, HpClearSeen DEF Store!Next
<1>3. ASSUME NEW r \in Reg, HpNew(r) PROVE Store!Next
  <2>1. Store!Make(r)
    BY <1>3, HpMakes
  <2> QED BY <1>1, <2>1 DEF Store!Next
<1>4. ASSUME NEW r \in Reg, NEW q \in Reg, NEW f \in Field, HpSetIv(q, f, r)
      PROVE  Store!Next
  <2>1. Store!Put(q, f, r)
    BY <1>4, HpPuts
  <2> QED BY <1>1, <2>1 DEF Store!Next
<1>5. object \in ObjectMap /\ DOMAIN view.root = Root
  BY ViewIs DEF IInv, Counted
<1>6. ASSUME core = "hp"
      PROVE  \A y \in Root : root[y] \in {Nil} \cup Reached /\ view.root[y] = root[y]
  BY <1>6, HpSeesIs, FoundIs, ViewIs DEF HpSees, Found, Closes
<1>7. ASSUME NEW r \in Reg, HpNil(r) PROVE Store!Next
  <2>1. Store!Assign(r, Nil)
    BY <1>1, <1>5, <1>7, HpAssigns DEF HpNil
  <2> QED BY <1>1, <1>5, <2>1, AssignStep
<1>8. ASSUME NEW x \in Root, NEW y \in Root, HpMove(x, y) PROVE Store!Next
  <2> DEFINE v == root[y]
             o == Incref(object, v)
  <2>1. OnHp /\ HpSet(o, x, v) /\ v \in {Nil} \cup Reached /\ view.root[y] = v
    BY <1>6, <1>8 DEF HpMove, OnHp
  <2>2. v \in {Nil} \cup Object
    BY TypesHold DEF TypeOK
  <2> HIDE DEF v
  <2>3. o \in ObjectMap /\ \A a \in Object : o[a].field = object[a].field
    BY <1>5, <2>2, IncrefCounts
  <2> HIDE DEF o
  <2>4. Store!Assign(x, v)
    BY <2>1, <2>3, HpAssigns
  <2> QED BY <1>5, <2>1, <2>4, AssignStep
<1>9. ASSUME NEW r \in Reg, NEW q \in Reg, NEW f \in Field, HpGetIv(r, q, f)
      PROVE  Store!Next
  <2> DEFINE u == root[q]
             v == object[u].field[f]
             o == Incref(object, v)
  <2>1. OnHp /\ HpSet(o, r, v) /\ u # Nil /\ u \in {Nil} \cup Reached /\ view.root[q] = u
    BY <1>1, <1>6, <1>9 DEF HpGetIv, OnHp
  <2> HIDE DEF u
  <2>2. HpSees /\ Found
    BY <2>1, HpSeesIs, FoundIs DEF OnHp
  <2>3. v \in {Nil} \cup Reached /\ v \in {Nil} \cup Object
    BY <2>1, <2>2 DEF HpSees, Found, Closes
  <2>4. view.field[u][f] = v
    BY <2>1, <2>2, ViewIs DEF HpSees
  <2> HIDE DEF v
  <2>5. o \in ObjectMap /\ \A a \in Object : o[a].field = object[a].field
    BY <1>5, <2>3, IncrefCounts
  <2> HIDE DEF o
  <2>6. Store!Assign(r, v)
    BY <1>1, <2>1, <2>3, <2>5, HpAssigns
  <2>7. Store!Get(r, q, f)
    BY <2>1, <2>4, <2>6 DEF Store!Get, Store!Nil, Nil
  <2> QED BY <1>1, <2>7 DEF Store!Next
<1> QED
  BY <1>1, <1>2, <1>3, <1>4, <1>7, <1>8, <1>9 DEF HpAct

-----------------------------------------------------------------------------
\* On the LP core.

\* What an address stands for there, when no nil keeps an old pointer.
At(t, a) == IF a \in Object /\ CopyOf(t, a) # Nil THEN CopyOf(t, a) ELSE a

\* What is in memory where the program finds f of the object at a.
Inside(a, f) == IF a \in Block THEN block[a].word[f] ELSE object[a].field[f]

\* No entry makes nil of an object.
Unmarked(t) == \A v \in Object : ~NilIn(t, v)

\* There are none unless a nil kept an address.
LEMMA RunUnmarked ==
  ASSUME ~Misread, IInv, core = "lp"
  PROVE  Unmarked(table)
<1>1. PICK G \in SUBSET Block : OnLpCore(G)
  BY DEF IInv
<1>2. Stale = {}
  BY DEF Misread
<1> QED BY <1>1, <1>2, Apart DEF OnLpCore, Unmarked

\* There it is the copy that the program sees.
LpSees ==
  /\ \A x \in Root : Roots[x] = At(table, cell[x])
  /\ \A a \in Object \cup Block, f \in Field : Held(a)[f] = At(table, Inside(a, f))

\* So it is on the LP core, where the entries of objects are all of that type.
LEMMA LpSeesIs ==
  ~Misread /\ IInv /\ core = "lp" => LpSees
<1> SUFFICES ASSUME ~Misread, IInv, core = "lp" PROVE LpSees
  OBVIOUS
<1>1. TypeOK /\ table \in Seq(Entry)
  BY TypesHold
<1>2. Unmarked(table)
  BY RunUnmarked
<1>3. ASSUME NEW a \in Address PROVE Place(a) = At(table, a)
  <2> DEFINE i == Lookup(table, NONE, a)
  <2>1. i # 0 => i \in DOMAIN table /\ table[i].main = a /\ table[i].ty \in {"object", "nil"}
    BY <1>1, MainIs, EntryIs
  <2>2. a \in Object /\ i # 0 => table[i].ty = "object"
    BY <1>2, <2>1 DEF Unmarked, NilIn
  <2>3. CopyOf(table, a) = IF i = 0 THEN Nil ELSE table[i].copro
    BY DEF CopyOf
  <2> HIDE DEF i
  <2>4. CASE a \notin Object
    <3>1. a = Nil \/ a \in Block
      BY <1>3, <2>4 DEF Address
    <3> QED BY <2>4, <3>1 DEF Place, At
  <2>5. CASE a \in Object
    <3>1. a # Nil /\ a \notin Block
      BY <2>5, Apart
    <3>2. Place(a) = IF i = 0 THEN a ELSE IF table[i].ty = "nil" THEN Nil
                     ELSE IF table[i].copro # Nil THEN table[i].copro ELSE a
      BY <3>1 DEF Place, i
    <3> QED BY <2>2, <2>3, <2>5, <3>2 DEF At
  <2> QED BY <2>4, <2>5
<1>4. \A x \in Root : Roots[x] = At(table, cell[x])
  BY <1>1, <1>3 DEF TypeOK, Roots, Address
<1>5. ASSUME NEW a \in Object \cup Block, NEW f \in Field
      PROVE  Held(a)[f] = At(table, Inside(a, f))
  <2>1. Inside(a, f) \in Address
    BY <1>1 DEF TypeOK, Address, Inside
  <2> QED BY <1>3, <2>1 DEF Held, Inside
<1> QED
  BY <1>4, <1>5 DEF LpSees

\* And after a step that ends there.
LEMMA LpSeesNext ==
  ~Misread' /\ IInv' /\ core' = "lp" => LpSees'
<1>1. (~Misread /\ IInv /\ core = "lp" => LpSees)'
  BY LpSeesIs, PTL
<1> QED
  BY <1>1

\* The next state is that of s with the addresses that m maps to the old ones.
LpShows(s, T, m) ==
  /\ T \subseteq Object \cup Block
  /\ m \in [T -> DOMAIN s.field] /\ \A a, b \in T : m[a] = m[b] => a = b
  /\ \A x \in Root : /\ At(table', cell'[x]) \in {Nil} \cup T
                     /\ s.root[x] = Was(m, At(table', cell'[x]))
  /\ \A a \in T, f \in Field :
       /\ At(table', Inside(a, f)') \in {Nil} \cup T
       /\ Live(a)' => s.field[m[a]][f] = Was(m, At(table', Inside(a, f)'))

\* That is enough for the program to see s.
LEMMA LpBecomes ==
  ASSUME ~Misread', IInv', core' = "lp", view' = View',
         NEW s, NEW T, NEW m, LpShows(s, T, m)
  PROVE  Store!Same(s, view')
<1>1. LpSees'
  BY LpSeesNext
<1>2. \A x \in Root : Roots'[x] = At(table', cell'[x])
  BY <1>1 DEF LpSees
<1>3. \A a \in T, f \in Field : Held(a)'[f] = At(table', Inside(a, f)')
  BY <1>1 DEF LpSees, LpShows
<1>4. /\ m \in [T -> DOMAIN s.field] /\ \A a, b \in T : m[a] = m[b] => a = b
      /\ \A x \in Root : Roots'[x] \in {Nil} \cup T /\ s.root[x] = Was(m, Roots'[x])
      /\ \A a \in T, f \in Field : Held(a)'[f] \in {Nil} \cup T
      /\ \A a \in T, f \in Field :
           Live(a)' => s.field[m[a]][f] = Was(m, Held(a)'[f])
  BY <1>2, <1>3 DEF LpShows
<1> QED
  BY <1>4, SameBy

\* What the program sees of the LP core, and of the memory there.
LEMMA LpHas ==
  ASSUME ~Misread, IInv, core = "lp", view = View
  PROVE  /\ LpSees /\ Found /\ TypeOK
         /\ \A x \in Root : /\ view.root[x] = At(table, cell[x])
                            /\ At(table, cell[x]) \in {Nil} \cup Reached
         /\ \A a \in Reached, f \in Field :
              /\ view.field[a][f] = At(table, Inside(a, f))
              /\ At(table, Inside(a, f)) \in {Nil} \cup Reached
         /\ DOMAIN view.field = Reached /\ DOMAIN view.root = Root
<1>1. LpSees /\ Found /\ TypeOK
  BY LpSeesIs, FoundIs, TypesHold
<1> QED
  BY <1>1, ViewIs DEF LpSees, Found, Closes

\* A variable gets the word v.
LEMMA LpAssigns ==
  ASSUME ~Misread, ~Misread', IInv, IInv', view = View, view' = View',
         OnLp, Quiet, UNCHANGED block, NEW x \in Root, NEW v,
         At(table, v) \in {Nil} \cup Reached, cell' = [cell EXCEPT ![x] = v]
  PROVE  Store!Assign(x, At(table, v))
<1> DEFINE p == At(table, v)
           s == [view EXCEPT !.root[x] = p]
           R == Reached
           m == [a \in R |-> a]
<1>1. /\ LpSees /\ Found /\ TypeOK
      /\ \A y \in Root : /\ view.root[y] = At(table, cell[y])
                         /\ At(table, cell[y]) \in {Nil} \cup R
      /\ \A a \in R, f \in Field :
           /\ view.field[a][f] = At(table, Inside(a, f))
           /\ At(table, Inside(a, f)) \in {Nil} \cup R
      /\ DOMAIN view.field = R /\ DOMAIN view.root = Root
  BY LpHas DEF OnLp
<1>2. core' = "lp" /\ table' = table /\ \A a, f : Inside(a, f)' = Inside(a, f)
  BY DEF OnLp, Quiet, Inside
<1>3. /\ s.field = view.field
      /\ \A y \in Root : s.root[y] = IF y = x THEN p ELSE view.root[y]
  BY <1>1, ViewIs
<1>4. \A y \in Root : At(table', cell'[y]) = IF y = x THEN p ELSE At(table, cell[y])
  BY <1>1, <1>2 DEF TypeOK
<1> HIDE DEF s, p, R
<1>5. m \in [R -> DOMAIN s.field] /\ \A a, b \in R : m[a] = m[b] => a = b
  BY <1>1, <1>3
<1>6. \A y \in Root : /\ At(table', cell'[y]) \in {Nil} \cup R
                      /\ s.root[y] = Was(m, At(table', cell'[y]))
  BY <1>1, <1>3, <1>4 DEF Was, p, R
<1>7. \A a \in R, f \in Field :
        /\ At(table', Inside(a, f)') \in {Nil} \cup R
        /\ s.field[m[a]][f] = Was(m, At(table', Inside(a, f)'))
  BY <1>1, <1>2, <1>3 DEF Was
<1>8. R \subseteq Object \cup Block
  BY <1>1 DEF Found, R
<1> HIDE DEF m
<1>9. LpShows(s, R, m)
  BY <1>5, <1>6, <1>7, <1>8 DEF LpShows
<1>10. Store!Same(s, view')
  BY <1>2, <1>9, LpBecomes
<1> QED
  BY <1>10 DEF s, p, Store!Assign, Store!Becomes

\* A block becomes a new object.
LEMMA LpMakes ==
  ASSUME ~Misread, ~Misread', IInv, IInv', view = View, view' = View', NEW r \in Reg, LpNew(r)
  PROVE  Store!Make(r)
<1>0. PICK b : b = Smallest(FreeBlocks(Sent))
  OBVIOUS
<1> DEFINE R == Reached
           New == Store!New
           s == [root  |-> [view.root EXCEPT ![r] = New],
                 field |-> [a \in {New} \cup R |->
                              IF a = New THEN Store!Blank ELSE view.field[a]]]
           T == R \cup {b}
           m == [a \in T |-> IF a = b THEN New ELSE a]
<1>1. /\ LpSees /\ Found /\ TypeOK
      /\ \A y \in Root : /\ view.root[y] = At(table, cell[y])
                         /\ At(table, cell[y]) \in {Nil} \cup R
      /\ \A a \in R, f \in Field :
           /\ view.field[a][f] = At(table, Inside(a, f))
           /\ At(table, Inside(a, f)) \in {Nil} \cup R
      /\ DOMAIN view.field = R /\ DOMAIN view.root = Root
  BY LpHas DEF OnLp, LpNew
<1>2. core' = "lp" /\ table' = table /\ object' = object /\ r \in Root
  BY Apart DEF OnLp, Quiet, LpNew
<1>3. b \in Block /\ ~block[b].used
  <2>1. FreeBlocks(Sent) # {} /\ FreeBlocks(Sent) \subseteq Nat
    BY Apart DEF LpNew, FreeBlocks
  <2>2. b \in FreeBlocks(Sent)
    BY <2>1, <1>0, SmallestIs
  <2> QED BY <2>2 DEF FreeBlocks, Sent
<1>4. /\ block' = [block EXCEPT ![b] = [used |-> TRUE, frozen |-> FALSE, word |-> Blank]]
      /\ cell' = [cell EXCEPT ![r] = b]
  BY <1>0 DEF LpNew
<1>5. /\ R \subseteq Object \cup Block /\ b \notin R /\ New \notin R
      /\ b # Nil /\ b \notin Object /\ \A a \in R : a # Nil
  <2>1. R \subseteq Object \cup Block /\ \A a \in R : Live(a)
    BY <1>1 DEF Found
  <2> QED BY <2>1, <1>3, Apart DEF Live, Store!New
<1>6. \A a \in R, f \in Field : Inside(a, f)' = Inside(a, f)
  BY <1>2, <1>3, <1>4, <1>5 DEF Inside
<1>7. block' \in BlockMap
  BY DEF IInv, Types
<1>8. \A f \in Field : Inside(b, f)' = Nil
  <2>1. block \in BlockMap
    BY DEF IInv, Types
  <2>2. block'[b].word = Blank
    BY <1>3, <1>4, <2>1 DEF BlockMap
  <2> QED BY <1>3, <2>2 DEF Inside, Blank
<1>9. At(table, Nil) = Nil /\ At(table, b) = b
  BY <1>5, Apart DEF At
<1>10. /\ DOMAIN s.field = {New} \cup R
       /\ \A y \in Root : s.root[y] = IF y = r THEN New ELSE view.root[y]
       /\ \A f \in Field : s.field[New][f] = Nil
       /\ \A a \in R : s.field[a] = view.field[a]
  <2>1. \A y \in Root : s.root[y] = IF y = r THEN New ELSE view.root[y]
    BY <1>1, <1>2
  <2>2. \A f \in Field : s.field[New][f] = Nil
    BY DEF Store!Blank, Store!Nil, Nil
  <2>3. \A a \in R : s.field[a] = view.field[a]
    BY <1>5
  <2> QED BY <2>1, <2>2, <2>3
<1>11. Store!Make(r) <=> Store!Same(s, view')
  BY <1>1 DEF Store!Make, Store!Becomes
<1> HIDE DEF s, New, R
<1>12. m \in [T -> DOMAIN s.field] /\ \A a, c \in T : m[a] = m[c] => a = c
  BY <1>5, <1>10
<1>13. \A y \in Root : /\ At(table', cell'[y]) \in {Nil} \cup T
                       /\ s.root[y] = Was(m, At(table', cell'[y]))
  <2>1. \A y \in Root : At(table', cell'[y]) = IF y = r THEN b ELSE At(table, cell[y])
    BY <1>1, <1>2, <1>4, <1>9 DEF TypeOK
  <2> QED BY <1>1, <1>5, <1>10, <2>1 DEF Was
<1>14. \A a \in T, f \in Field :
         /\ At(table', Inside(a, f)') \in {Nil} \cup T
         /\ s.field[m[a]][f] = Was(m, At(table', Inside(a, f)'))
  <2>1. ASSUME NEW a \in R, NEW f \in Field
        PROVE  /\ At(table', Inside(a, f)') \in {Nil} \cup T
               /\ s.field[m[a]][f] = Was(m, At(table', Inside(a, f)'))
    <3>1. At(table', Inside(a, f)') = At(table, Inside(a, f)) /\ m[a] = a
      BY <1>2, <1>5, <1>6
    <3>2. /\ s.field[a][f] = At(table, Inside(a, f))
          /\ At(table, Inside(a, f)) \in {Nil} \cup R
      BY <1>1, <1>10
    <3> QED BY <1>5, <3>1, <3>2 DEF Was
  <2>2. \A f \in Field : At(table', Inside(b, f)') = Nil /\ m[b] = New
    BY <1>2, <1>8, <1>9
  <2> QED BY <1>10, <2>1, <2>2 DEF Was
<1>15. T \subseteq Object \cup Block
  BY <1>3, <1>5
<1> HIDE DEF T, m
<1>16. LpShows(s, T, m)
  BY <1>12, <1>13, <1>14, <1>15 DEF LpShows
<1> QED
  BY <1>2, <1>11, <1>16, LpBecomes

\* An instance variable of a block gets the value of a register.
LEMMA LpStores ==
  ASSUME ~Misread, ~Misread', IInv, IInv', view = View, view' = View',
         NEW q \in Reg, NEW f \in Field, NEW r \in Reg, LpSetIv(q, f, r)
  PROVE  Store!Put(q, f, r)
<1>0. PICK u, v : u = cell[q] /\ v = cell[r]
  OBVIOUS
<1> DEFINE R == Reached
           s == [view EXCEPT !.field[view.root[q]][f] = view.root[r]]
           m == [a \in R |-> a]
<1>1. /\ LpSees /\ Found /\ TypeOK
      /\ \A y \in Root : /\ view.root[y] = At(table, cell[y])
                         /\ At(table, cell[y]) \in {Nil} \cup R
      /\ \A a \in R, g \in Field :
           /\ view.field[a][g] = At(table, Inside(a, g))
           /\ At(table, Inside(a, g)) \in {Nil} \cup R
      /\ DOMAIN view.field = R /\ DOMAIN view.root = Root
  BY LpHas DEF OnLp, LpSetIv
<1>2. /\ core' = "lp" /\ table' = table /\ object' = object /\ cell' = cell
      /\ r \in Root /\ q \in Root /\ core = "lp"
  BY Apart DEF OnLp, Quiet, LpSetIv
<1>3. /\ u \in Block /\ v \notin Object /\ u # Nil
      /\ block' = [block EXCEPT ![u].word[f] = v]
  <2>1. cell[q] \in {Nil} \cup Block /\ cell[r] \in {Nil} \cup Block
    BY <1>2, Has
  <2> QED BY <1>0, <2>1, Apart DEF LpSetIv
<1>4. At(table, u) = u /\ At(table, v) = v
  BY <1>3, Apart DEF At
<1>5. view.root[q] = u /\ view.root[r] = v /\ u \in R /\ v \in {Nil} \cup R
  BY <1>0, <1>1, <1>2, <1>3, <1>4
<1>6. \A a \in Object \cup Block, g \in Field :
        Inside(a, g)' = IF a = u /\ g = f THEN v ELSE Inside(a, g)
  <2>1. block \in BlockMap
    BY DEF IInv, Types
  <2> QED BY <1>2, <1>3, <2>1, Apart DEF Inside, BlockMap
<1>7. /\ DOMAIN s.field = R /\ s.root = view.root
      /\ \A a \in R, g \in Field :
           s.field[a][g] = IF a = u /\ g = f THEN v ELSE view.field[a][g]
  <2>1. DOMAIN s.field = DOMAIN view.field /\ s.root = view.root
    BY <1>1, ViewIs
  <2>2. \A a \in R, g \in Field :
          s.field[a][g] = IF a = u /\ g = f THEN v ELSE view.field[a][g]
    BY <1>1, <1>5, ViewIs
  <2> QED BY <1>1, <2>1, <2>2
<1>8. Store!Put(q, f, r) <=> Store!Same(s, view')
  BY <1>3, <1>5 DEF Store!Put, Store!Becomes, Store!Nil, Nil
<1> HIDE DEF s, R
<1>9. m \in [R -> DOMAIN s.field] /\ \A a, c \in R : m[a] = m[c] => a = c
  BY <1>7
<1>10. \A y \in Root : /\ At(table', cell'[y]) \in {Nil} \cup R
                       /\ s.root[y] = Was(m, At(table', cell'[y]))
  BY <1>1, <1>2, <1>7 DEF Was
<1>11. R \subseteq Object \cup Block
  BY <1>1 DEF Found, R
<1>12. \A a \in R, g \in Field :
         /\ At(table', Inside(a, g)') \in {Nil} \cup R
         /\ s.field[m[a]][g] = Was(m, At(table', Inside(a, g)'))
  <2>1. ASSUME NEW a \in R, NEW g \in Field
        PROVE  /\ At(table', Inside(a, g)') \in {Nil} \cup R
               /\ s.field[m[a]][g] = Was(m, At(table', Inside(a, g)'))
    <3>1. At(table', Inside(a, g)')
            = IF a = u /\ g = f THEN v ELSE At(table, Inside(a, g))
      BY <1>2, <1>4, <1>6, <1>11
    <3> QED BY <1>1, <1>5, <1>7, <3>1 DEF Was
  <2> QED BY <2>1
<1> HIDE DEF m
<1>13. LpShows(s, R, m)
  BY <1>9, <1>10, <1>11, <1>12 DEF LpShows
<1> QED
  BY <1>2, <1>8, <1>13, LpBecomes

\* Frozen blocks, and what registers and cells point to.
Held0 == {b \in Block : block[b].frozen} \cup (Range(cell) \cap Block)

\* A collection takes nothing the program can get at.
LEMMA LpCollectSeen ==
  ASSUME ~Misread, ~Misread', IInv, IInv', view = View, view' = View', LpCollect
  PROVE  Store!Becomes(view)
<1> DEFINE R == Reached
           m == [a \in R |-> a]
           closed == {S \in SUBSET Block :
                        \A b \in S, f \in Field :
                          block[b].word[f] \in Block => block[b].word[f] \in S}
<1>1. /\ LpSees /\ Found /\ TypeOK
      /\ \A y \in Root : /\ view.root[y] = At(table, cell[y])
                         /\ At(table, cell[y]) \in {Nil} \cup R
      /\ \A a \in R, g \in Field :
           /\ view.field[a][g] = At(table, Inside(a, g))
           /\ At(table, Inside(a, g)) \in {Nil} \cup R
      /\ DOMAIN view.field = R /\ DOMAIN view.root = Root
  BY LpHas DEF OnLp, LpCollect
<1>2. /\ core' = "lp" /\ table' = table /\ object' = object /\ cell' = cell /\ core = "lp"
  BY DEF OnLp, Quiet, LpCollect
<1>3. PICK K \in SUBSET Block :
        /\ Held0 \subseteq K
        /\ \A b \in K, f \in Field : block[b].word[f] \in Block => block[b].word[f] \in K
        /\ \A b \in K : block'[b] = block[b]
  <2>1. PICK stray \in SUBSET {b \in Block \ Held0 : block[b].used} :
          block' = [b \in Block |->
             IF \A S \in closed : Held0 \cup stray \subseteq S => b \in S
             THEN block[b] ELSE NoBlock]
    BY DEF LpCollect, Held0
  <2> DEFINE K == {b \in Block :
                     \A S \in closed : Held0 \cup stray \subseteq S => b \in S}
  <2>2. Held0 \subseteq K
    BY DEF Held0
  <2>3. ASSUME NEW b \in K, NEW f \in Field, block[b].word[f] \in Block
        PROVE  block[b].word[f] \in K
    BY <2>3
  <2>4. \A b \in K : block'[b] = block[b]
    BY <2>1
  <2> HIDE DEF closed, K
  <2>5. K \in SUBSET Block
    BY DEF K
  <2> QED BY <2>2, <2>3, <2>4, <2>5
<1>4. \A v : CopyOf(table, v) # Nil => CopyOf(table, v) \in K
  <2>1. PICK G \in SUBSET Block : Carried(block, table, G)
    BY <1>2, Has
  <2>2. Entered(table, object) /\ table \in Seq(Entry)
    BY <2>1 DEF Carried, Entered
  <2>3. ASSUME NEW v, CopyOf(table, v) # Nil PROVE CopyOf(table, v) \in K
    <3>1. InTable(table, v)
      BY <2>2, <2>3, CopyIs
    <3>2. PICK i \in DOMAIN table : table[i].main = v
      BY <3>1 DEF InTable
    <3>3. CopyOf(table, v) = table[i].copro
      BY <2>2, <3>2, CopyIs
    <3>4. block[CopyOf(table, v)].frozen /\ CopyOf(table, v) \in Block
      BY <2>1, <2>3, <3>3 DEF Carried
    <3> QED BY <1>3, <3>4 DEF Held0
  <2> QED BY <2>3
<1>5. R \subseteq Object \cup K
  <2> DEFINE T == Object \cup K
  <2>1. \A a \in {Nil} \cup T : At(table, a) \in {Nil} \cup T
    BY <1>4 DEF At
  <2>2. \A x \in Root : cell[x] \in {Nil} \cup T
    <3>1. ASSUME NEW x \in Root PROVE cell[x] \in {Nil} \cup T
      <4>1. cell[x] \in {Nil} \cup Object \cup Block /\ DOMAIN cell = Root
        BY <1>1 DEF TypeOK
      <4>2. cell[x] \in Range(cell)
        BY <4>1 DEF Range
      <4> QED BY <1>3, <4>1, <4>2 DEF Held0
    <3> QED BY <3>1
  <2>3. \A a \in T, f \in Field : Inside(a, f) \in {Nil} \cup T
    <3>1. ASSUME NEW a \in T, NEW f \in Field PROVE Inside(a, f) \in {Nil} \cup T
      <4>1. CASE a \in Block
        <5>1. a \in K /\ block[a].word[f] \in {Nil} \cup Object \cup Block
          BY <1>1, <4>1, Apart DEF TypeOK
        <5> QED BY <1>3, <4>1, <5>1 DEF Inside
      <4>2. CASE a \notin Block
        <5>1. object[a].field[f] \in {Nil} \cup Object
          BY <1>1, <4>2 DEF TypeOK
        <5> QED BY <4>2, <5>1 DEF Inside
      <4> QED BY <4>1, <4>2
    <3> QED BY <3>1
  <2> HIDE DEF T
  <2>4. T \subseteq Object \cup Block
    BY DEF T
  <2>5. Closes(T)
    BY <1>1, <2>1, <2>2, <2>3, <2>4 DEF LpSees, Closes
  <2> QED BY <2>5, ReachedWithin DEF T
<1>6. \A a \in R, f \in Field : Inside(a, f)' = Inside(a, f)
  BY <1>2, <1>3, <1>5, Apart DEF Inside
<1>7. m \in [R -> DOMAIN view.field] /\ \A a, c \in R : m[a] = m[c] => a = c
  BY <1>1
<1>8. \A y \in Root : /\ At(table', cell'[y]) \in {Nil} \cup R
                      /\ view.root[y] = Was(m, At(table', cell'[y]))
  BY <1>1, <1>2 DEF Was
<1>9. \A a \in R, g \in Field :
         /\ At(table', Inside(a, g)') \in {Nil} \cup R
         /\ view.field[m[a]][g] = Was(m, At(table', Inside(a, g)'))
  BY <1>1, <1>2, <1>6 DEF Was
<1>10. R \subseteq Object \cup Block
  BY <1>1 DEF Found
<1> HIDE DEF m, R
<1>11. LpShows(view, R, m)
  BY <1>7, <1>8, <1>9, <1>10 DEF LpShows
<1> QED
  BY <1>2, <1>11, LpBecomes DEF Store!Becomes

-----------------------------------------------------------------------------
\* A copy, and what it is a copy of.

\* The word x stands for the value y of the HP core.
Means(t, x, y) == x = y \/ (CopyOf(t, y) = x /\ x # Nil)

\* No block is the copy of two objects.
Paired(t) ==
  \A v, y : CopyOf(t, v) # Nil /\ CopyOf(t, v) = CopyOf(t, y) => v = y

\* What mrbcopro_objman_to2 writes for a value stands for it.
LEMMA WordMeans ==
  ASSUME NEW t, NEW o, Entered(t, o), NEW v \in {Nil} \cup Object
  PROVE  Means(t, Word(t, v), v)
<1> DEFINE i == Lookup(t, Nil, v)
           c == ToCopro(t, v)
<1>1. CASE v = Nil \/ c = Nil
  BY <1>1 DEF Word, Means
<1>2. CASE ~ (v = Nil \/ c = Nil)
  <2>1. Word(t, v) = c /\ c # Nil
    BY <1>2 DEF Word
  <2>2. i # 0 /\ c = t[i].copro
    BY <1>2 DEF ToCopro
  <2>3. t \in Seq(Entry)
    BY DEF Entered
  <2>4. i \in DOMAIN t /\ (t[i].copro = Nil \/ t[i].main = v)
    BY <2>2, <2>3, LookupIs
  <2> HIDE DEF i, c
  <2>5. CopyOf(t, v) = c
    BY <2>1, <2>2, <2>4, CopyIs
  <2> QED BY <2>1, <2>5 DEF Means
<1> QED BY <1>1, <1>2

\* A word and what it stands for lead to the same place.
LEMMA MeansAt ==
  ASSUME NEW t, NEW o, Entered(t, o), NEW x, NEW y, Means(t, x, y)
  PROVE  At(t, x) = At(t, y)
<1>1. CASE CopyOf(t, y) = x /\ x # Nil
  <2>1. InTable(t, y) /\ x \in Block
    BY <1>1, CopyIs
  <2>2. PICK i \in DOMAIN t : t[i].main = y
    BY <2>1 DEF InTable
  <2>3. y \in Object
    BY <1>1, <2>2, CopyIs DEF Entered, Backed
  <2> QED BY <1>1, <2>1, <2>3, Apart DEF At
<1> QED BY <1>1 DEF Means

\* And it still does when there are more entries.
LEMMA MeansGrown ==
  ASSUME NEW t, NEW u, NEW o, Entered(t, o), Entered(u, o), Grown(t, u),
         NEW x, NEW y, Means(t, x, y)
  PROVE  Means(u, x, y)
<1> QED BY GrownCopy DEF Means

\* Or when another object has got a copy.
LEMMA MeansNoted ==
  ASSUME NEW t, NEW u, NEW v, NEW b, Noted(t, u, v, b), CopyOf(t, v) = Nil,
         NEW x, NEW y, Means(t, x, y)
  PROVE  Means(u, x, y)
<1> QED BY DEF Means, Noted

\* The words of a copy stand for the instance variables of the object.
LEMMA CopyMeans ==
  ASSUME Counted(object, root), NEW w \in World, NEW G, G \subseteq Block,
         Carried(w.block, w.table, G), NEW v \in Object,
         NEW b \in Block, ~w.block[b].used, NEW u, u = Copied(w, v, b)
  PROVE  \A f \in Field : Means(u.table, u.block[b].word[f], object[v].field[f])
<1> DEFINE n == FIELDS
           H == G \cup {b}
           a == Allocated(w, b)
<1>1. PICK at : /\ at[0] = a
                /\ \A i \in 1 .. n : at[i] = FieldCopied(at[i - 1], v, b, i)
                /\ Copied(w, v, b) = at[n]
  BY CopiedSteps
<1> HIDE DEF n
<1>2. Filled(w, a, H, b)
  BY AllocatedFills
<1>3. H \subseteq Block /\ b \in H /\ n \in Nat /\ Field = 1 .. n
  BY Finite DEF Field, n
<1> HIDE DEF H, a
<1> DEFINE Told(s, i) == \A f \in 1 .. i :
             Means(s.table, s.block[b].word[f], object[v].field[f])
           T == {i \in 0 .. n : Filled(w, at[i], H, b) /\ Told(at[i], i)}
<1>4. 0 \in T
  BY <1>1, <1>2, <1>3
<1>5. ASSUME NEW i \in 1 .. n, i - 1 \in T PROVE i \in T
  <2> DEFINE s == at[i - 1]
             y == object[v].field[i]
             t == Typed(s.table, y)
             x == Word(t, y)
  <2>1. /\ Filled(w, s, H, b) /\ Told(s, i - 1)
        /\ at[i] = FieldCopied(s, v, b, i) /\ i \in Field
    BY <1>1, <1>3, <1>5
  <2>2. Filled(w, at[i], H, b)
    BY <2>1, <1>3, FieldCopies
  <2>3. y \in {Nil} \cup Object /\ (y \in Object => object[y].rc > 0)
    BY <2>1, HeldAlive
  <2>4. at[i].table = t /\ at[i].block = [s.block EXCEPT ![b].word[i] = x]
    BY <2>1 DEF FieldCopied
  <2> HIDE DEF s, y
  <2>5. Entered(s.table, object) /\ s.block \in BlockMap
    BY <2>1 DEF Filled, Carried
  <2>6. Entered(t, object) /\ Grown(s.table, t)
    BY <2>3, <2>5, TypedIs
  <2> HIDE DEF t
  <2>7. Means(t, x, y)
    BY <2>3, <2>6, WordMeans
  <2> HIDE DEF x
  <2>8. /\ at[i].block[b].word[i] = x
        /\ \A f \in Field \ {i} : at[i].block[b].word[f] = s.block[b].word[f]
    BY <2>1, <2>4, <2>5 DEF BlockMap
  <2>9. ASSUME NEW f \in 1 .. i
        PROVE  Means(at[i].table, at[i].block[b].word[f], object[v].field[f])
    <3>1. CASE f = i
      BY <2>4, <2>7, <2>8, <3>1 DEF y
    <3>2. CASE f # i
      <4>1. f \in 1 .. i - 1 /\ f \in Field \ {i}
        BY <1>3, <3>2
      <4>2. Means(s.table, s.block[b].word[f], object[v].field[f])
        BY <2>1, <4>1
      <4> QED BY <2>4, <2>5, <2>6, <2>8, <4>1, <4>2, MeansGrown
    <3> QED BY <3>1, <3>2
  <2>10. i \in 0 .. n
    BY <1>3
  <2> QED BY <2>2, <2>9, <2>10
<1>6. n \in T
  <2> HIDE DEF T
  <2> QED BY <1>3, <1>4, <1>5, Climb
<1> QED BY <1>1, <1>3, <1>6

\* When an object gets its first copy other blocks stay, no block becomes the
\* copy of two, and the copy has words for the instance variables.
CopyMade(w, u, v, b) ==
  /\ Noted(w.table, u.table, v, b) /\ b \in Block /\ ~w.block[b].used
  /\ Paired(w.table) => Paired(u.table)
  /\ \A a \in Block : a # b => u.block[a] = w.block[a]
  /\ \A f \in Field : Means(u.table, u.block[b].word[f], object[v].field[f])

\* mrbcopro_objman_to4 and the entry it gets do so.
LEMMA CopyMakes ==
  ASSUME Counted(object, root), NEW w \in World, NEW G, G \subseteq Block,
         Carried(w.block, w.table, G), NEW v, NEW b, NEW e, NEW u, Copies(w, v, b, e, u),
         CopyOf(w.table, v) = Nil
  PROVE  CopyMade(w, u, v, b)
<1> DEFINE c == Copied(w, v, b)
<1>1. v \in Object /\ b \in Block /\ ~w.block[b].used /\ e.copro = b /\ e.main = v
  BY DEF Copies, FreeBlocks
<1>2. PICK t : Put(c.table, object, e, t) /\ u = [c EXCEPT !.table = t]
  BY DEF Copies
<1>3. CopyHad(w, u, G, v, b)
  BY CopyCarries
<1>4. Noted(w.table, u.table, v, b) /\ b # Nil
  BY <1>1, <1>3, Apart DEF CopyHad
<1>5. ASSUME Paired(w.table) PROVE Paired(u.table)
  <2>1. \A y : CopyOf(w.table, y) # b
    BY <1>1, <1>4, CopyOfHad DEF Carried
  <2> QED BY <1>4, <1>5, <2>1 DEF Noted, Paired
<1>6. Filled(w, c, G \cup {b}, b)
  BY <1>1, CopyFills
<1>7. \A f \in Field : Means(c.table, c.block[b].word[f], object[v].field[f])
  BY <1>1, CopyMeans
<1> HIDE DEF c
<1>8. /\ u.block = c.block /\ u.table = t
      /\ Entered(c.table, object) /\ Entered(w.table, object)
  BY <1>2, <1>6 DEF Filled, Carried, World
<1>9. Noted(c.table, t, v, b)
  BY <1>1, <1>2, <1>8, PutNotes
<1>10. CopyOf(c.table, v) = Nil
  BY <1>6, <1>8, GrownCopy DEF Filled
<1>11. \A f \in Field : Means(u.table, u.block[b].word[f], object[v].field[f])
  BY <1>7, <1>8, <1>9, <1>10, MeansNoted
<1>12. \A a \in Block : a # b => u.block[a] = w.block[a]
  BY <1>6, <1>8 DEF Filled
<1> QED BY <1>1, <1>4, <1>5, <1>11, <1>12 DEF CopyMade

-----------------------------------------------------------------------------
\* Reads of the LP core.

\* When v is read the table is t and the blocks are B, where c is its copy.
ReadTo(t, B, v, c) ==
  /\ v \in Object /\ c \in Block
  /\ \A y : At(t, y) = IF y = v THEN c ELSE At(table, y)
  /\ \A a \in Block : a # c => B[a] = block[a]
  /\ \A f \in Field : At(t, B[c].word[f]) = At(t, Inside(At(table, v), f))
  /\ \/ c = At(table, v)
     \/ v = At(table, v) /\ ~block[c].used

\* mrbcopro_objman_to: the copy that is there is read, or a new one.
LEMMA ServedReads ==
  ASSUME IInv, core = "lp", NEW v \in Object, InTable(table, v), Answers(v),
         NEW w, w = Served(Sent, v)
  PROVE  ReadTo(w.table, w.block, v, CopyOf(w.table, v))
<1> DEFINE c == CopyOf(w.table, v)
<1>1. PICK G \in SUBSET Block : Carried(block, table, G) /\ block \in BlockMap
  BY Has
<1>2. Entered(table, object) /\ table \in Seq(Entry) /\ Counted(object, root)
  BY <1>1 DEF Carried, Entered, IInv
<1>3. Sent.block = block /\ Sent.table = table /\ Sent \in World
  BY <1>1, <1>2 DEF Sent, World
<1>4. CASE CopyOf(table, v) # Nil
  <2>1. w = Sent
    BY <1>3, <1>4 DEF Served
  <2>2. c = CopyOf(table, v) /\ c \in Block /\ w.table = table /\ w.block = block
    BY <1>2, <1>3, <1>4, <2>1, CopyIs
  <2> HIDE DEF c
  <2>3. At(table, v) = c
    BY <1>4, <2>2 DEF At
  <2>4. \A f \in Field : Inside(At(table, v), f) = block[c].word[f]
    BY <2>2, <2>3 DEF Inside
  <2> QED BY <2>2, <2>3, <2>4 DEF ReadTo, c
<1>5. CASE CopyOf(table, v) = Nil
  <2>1. FreeBlocks(Sent) # {}
    BY <1>5 DEF Answers
  <2>0. object[v].rc > 0
    BY <1>1, <1>5, AskedAlive
  <2>2. PICK b, e : Copies(Sent, v, b, e, w)
    BY <1>1, <1>2, <1>3, <1>5, <2>0, <2>1, ServedCopies
  <2>3. CopyMade(Sent, w, v, b)
    BY <1>1, <1>2, <1>3, <1>5, <2>2, CopyMakes
  <2>4. Entered(w.table, object)
    <3>1. Carried(Sent.block, Sent.table, G)
      BY <1>1, <1>3
    <3>2. CopyHad(Sent, w, G, v, b)
      BY <1>1, <1>2, <1>3, <2>2, <3>1, CopyCarries
    <3> QED BY <3>2 DEF CopyHad, Carried
  <2>5. c = b /\ b \in Block /\ b # Nil
    BY <2>3, Apart DEF CopyMade, Noted
  <2> HIDE DEF c
  <2>6. At(table, v) = v
    BY <1>5 DEF At
  <2>7. \A y : At(w.table, y) = IF y = v THEN c ELSE At(table, y)
    BY <1>3, <2>3, <2>5 DEF CopyMade, Noted, At
  <2>8. ASSUME NEW f \in Field
        PROVE  At(w.table, w.block[c].word[f]) = At(w.table, Inside(At(table, v), f))
    <3>1. Inside(At(table, v), f) = object[v].field[f]
      BY <2>6, Apart DEF Inside
    <3>2. Means(w.table, w.block[c].word[f], object[v].field[f])
      BY <2>3, <2>5 DEF CopyMade
    <3> QED BY <2>4, <3>1, <3>2, MeansAt
  <2>9. ~block[c].used /\ \A a \in Block : a # c => w.block[a] = block[a]
    BY <1>3, <2>3, <2>5 DEF CopyMade
  <2> QED BY <2>5, <2>6, <2>7, <2>8, <2>9 DEF ReadTo, c
<1> QED BY <1>4, <1>5

\* The program sees an assignment of the object read.
LEMMA LpReads ==
  ASSUME ~Misread, ~Misread', IInv, IInv', view = View, view' = View',
         core = "lp", core' = "lp", object' = object,
         NEW B, NEW v, NEW c, ReadTo(table', B, v, c), NEW r \in Root,
         At(table, v) \in Reached,
         \A x \in Root : At(table', cell'[x]) = IF x = r THEN c ELSE At(table', cell[x]),
         \A a \in Block, f \in Field :
           At(table', block'[a].word[f]) = At(table', B[a].word[f])
  PROVE  Store!Assign(r, At(table, v))
<1>0. PICK p : p = At(table, v)
  OBVIOUS
<1> DEFINE s == [view EXCEPT !.root[r] = p]
           R == Reached
           T == (R \ {p}) \cup {c}
           m == [a \in T |-> IF a = c THEN p ELSE a]
<1>1. /\ LpSees /\ Found /\ TypeOK
      /\ \A y \in Root : /\ view.root[y] = At(table, cell[y])
                         /\ At(table, cell[y]) \in {Nil} \cup R
      /\ \A a \in R, f \in Field :
           /\ view.field[a][f] = At(table, Inside(a, f))
           /\ At(table, Inside(a, f)) \in {Nil} \cup R
      /\ DOMAIN view.field = R /\ DOMAIN view.root = Root
  BY LpHas
<1>2. /\ v \in Object /\ c \in Block /\ p \in R
      /\ \A y : At(table', y) = IF y = v THEN c ELSE At(table, y)
      /\ \A a \in Block : a # c => B[a] = block[a]
      /\ \A f \in Field : At(table', B[c].word[f]) = At(table', Inside(p, f))
      /\ c = p \/ (v = p /\ ~block[c].used)
  BY <1>0 DEF ReadTo
<1>3. /\ s.field = view.field
      /\ \A y \in Root : s.root[y] = IF y = r THEN p ELSE view.root[y]
  BY <1>1, ViewIs
<1>4. /\ R \subseteq Object \cup Block
      /\ \A a \in R : Live(a) /\ a # Nil
      /\ c # Nil /\ c \notin Object
  BY <1>1, <1>2, Apart DEF Found
<1>5. c \notin R \/ c = p
  BY <1>2, <1>4 DEF Live
<1>6. ASSUME NEW y, At(table, y) \in {Nil} \cup R
      PROVE  At(table', y) \in {Nil} \cup T /\ Was(m, At(table', y)) = At(table, y)
  <2>1. CASE y = v
    BY <1>0, <1>2, <1>4, <2>1 DEF Was
  <2>2. CASE y # v
    <3> DEFINE q == At(table, y)
    <3>1. At(table', y) = q /\ q \in {Nil} \cup R
      BY <1>2, <1>6, <2>2
    <3>2. q # p \/ c = p
      <4>1. CopyOf(table, y) \notin Object
        <5>1. PICK G \in SUBSET Block : Carried(block, table, G)
          BY Has
        <5>2. CopyOf(table, y) \in {Nil} \cup Block
          BY <5>1, CopyIs DEF Carried
        <5> QED BY <5>2, Apart
      <4>2. CASE v = p
        <5>1. q # v
          BY <1>2, <2>2, <4>1 DEF At
        <5> QED BY <4>2, <5>1
      <4> QED BY <1>2, <4>2
    <3> HIDE DEF q
    <3> QED BY <1>4, <1>5, <3>1, <3>2 DEF Was, q
  <2> QED BY <2>1, <2>2
<1> HIDE DEF s, R
<1>7. m \in [T -> DOMAIN s.field] /\ \A a, d \in T : m[a] = m[d] => a = d
  BY <1>1, <1>2, <1>3, <1>5
<1>8. T \subseteq Object \cup Block
  BY <1>2, <1>4
<1>9. \A y \in Root : /\ At(table', cell'[y]) \in {Nil} \cup T
                      /\ s.root[y] = Was(m, At(table', cell'[y]))
  <2>1. At(table', cell'[r]) = c /\ Was(m, c) = p
    BY <1>4 DEF Was
  <2>2. ASSUME NEW y \in Root, y # r
        PROVE  /\ At(table', cell'[y]) \in {Nil} \cup T
               /\ s.root[y] = Was(m, At(table', cell'[y]))
    BY <1>1, <1>3, <1>6, <2>2
  <2> QED BY <1>3, <2>1, <2>2
<1>10. ASSUME NEW a \in T, NEW f \in Field
       PROVE  /\ At(table', Inside(a, f)') \in {Nil} \cup T
              /\ s.field[m[a]][f] = Was(m, At(table', Inside(a, f)'))
  <2>1. m[a] \in R /\ s.field[m[a]][f] = At(table, Inside(m[a], f))
        /\ At(table, Inside(m[a], f)) \in {Nil} \cup R
    <3>1. m[a] \in R
      BY <1>1, <1>3, <1>7
    <3> QED BY <1>1, <1>3, <3>1
  <2>2. At(table', Inside(a, f)') = At(table', Inside(m[a], f))
    <3>1. CASE a = c
      <4>1. Inside(a, f)' = block'[c].word[f]
        BY <1>2, <3>1 DEF Inside
      <4> QED BY <1>2, <3>1, <4>1
    <3>2. CASE a # c
      <4>1. m[a] = a
        BY <3>2
      <4>2. CASE a \in Block
        <5>1. Inside(a, f)' = block'[a].word[f] /\ Inside(a, f) = block[a].word[f]
          BY <4>2 DEF Inside
        <5> QED BY <1>2, <3>2, <4>1, <4>2, <5>1
      <4>3. CASE a \notin Block
        <5>1. Inside(a, f)' = Inside(a, f)
          BY <4>3 DEF Inside
        <5> QED BY <4>1, <5>1
      <4> QED BY <4>2, <4>3
    <3> QED BY <3>1, <3>2
  <2> HIDE DEF T, m
  <2> QED BY <1>6, <2>1, <2>2
<1> HIDE DEF T, m
<1>11. LpShows(s, T, m)
  BY <1>7, <1>8, <1>9, <1>10 DEF LpShows
<1>12. Store!Same(s, view')
  BY <1>11, LpBecomes
<1> QED
  BY <1>0, <1>12 DEF s, Store!Assign, Store!Becomes

\* A register gets the value of a global variable.
LEMMA LpLoads ==
  ASSUME ~Misread, ~Misread', IInv, IInv', view = View, view' = View',
         NEW r \in Reg, NEW g \in Global, LpGetGlobal(r, g)
  PROVE  Store!Assign(r, At(table, cell[g]))
<1>0. PICK v : v = cell[g]
  OBVIOUS
<1>1. core = "lp" /\ core' = "lp" /\ object' = object /\ r \in Root /\ g \in Root
  BY Apart DEF LpGetGlobal, OnLp
<1>2. At(table, v) \in {Nil} \cup Reached /\ cell \in [Root -> Address]
  BY <1>0, <1>1, LpHas DEF IInv, Types
<1>3. CASE v \in Object
  <2> DEFINE w == Served(Sent, v)
             c == CopyOf(w.table, v)
  <2>1. /\ Answers(v) /\ block' = w.block /\ table' = w.table
        /\ cell' = [cell EXCEPT ![r] = c, ![g] = c]
    BY <1>0, <1>3 DEF LpGetGlobal
  <2>2. InTable(table, v)
    <3>1. PICK G \in SUBSET Block : \A x \in Root : Leads(table, G, cell[x])
      BY <1>1, Has
    <3> QED BY <1>0, <1>1, <1>3, <3>1 DEF Leads
  <2>3. ReadTo(w.table, w.block, v, c)
    BY <1>1, <1>3, <2>1, <2>2, ServedReads
  <2>4. PICK d, B : d = c /\ B = w.block
    OBVIOUS
  <2>5. /\ ReadTo(table', B, v, d) /\ block' = B
        /\ cell' = [cell EXCEPT ![r] = d, ![g] = d]
    BY <2>1, <2>3, <2>4
  <2> HIDE DEF w, c
  <2>6. At(table', d) = d /\ At(table', v) = d /\ At(table, v) # Nil
    <3>1. d \in Block /\ d # v /\ At(table', d) = At(table, d)
      BY <1>3, <2>5, Apart DEF ReadTo
    <3> QED BY <1>3, <2>5, <3>1, Apart DEF ReadTo, At
  <2>7. \A x \in Root : At(table', cell'[x]) = IF x = r THEN d ELSE At(table', cell[x])
    BY <1>0, <1>1, <1>2, <2>5, <2>6
  <2>8. \A a \in Block, f \in Field :
           At(table', block'[a].word[f]) = At(table', B[a].word[f])
    BY <2>5
  <2>9. At(table, v) \in Reached
    BY <1>2, <2>6
  <2> QED BY <1>0, <1>1, <2>5, <2>7, <2>8, <2>9, LpReads
<1>4. CASE v \notin Object
  <2>1. OnLp /\ Quiet /\ UNCHANGED block /\ cell' = [cell EXCEPT ![r] = v]
    BY <1>0, <1>4 DEF LpGetGlobal, OnLp, Quiet
  <2> QED BY <1>0, <1>1, <1>2, <2>1, LpAssigns
<1> QED BY <1>3, <1>4

\* A register gets the value of an instance variable of a block.
LEMMA LpFetches ==
  ASSUME ~Misread, ~Misread', IInv, IInv', view = View, view' = View',
         NEW r \in Reg, NEW q \in Reg, NEW f \in Field, LpGetIv(r, q, f)
  PROVE  Store!Get(r, q, f)
<1>0. PICK u, v : u = cell[q] /\ v = block[u].word[f]
  OBVIOUS
<1>1. /\ core = "lp" /\ core' = "lp" /\ object' = object /\ r \in Root /\ q \in Root
      /\ u # Nil
  BY <1>0, Apart DEF LpGetIv, OnLp
<1>2. PICK G \in SUBSET Block :
        /\ Carried(block, table, G) /\ block \in BlockMap /\ cell \in [Root -> Address]
        /\ u \in G
  <2>1. PICK G \in SUBSET Block :
          /\ Carried(block, table, G)
          /\ cell \in [Root -> Address] /\ block \in BlockMap
          /\ \A x \in Reg : x \in Root /\ cell[x] \in {Nil} \cup G
    BY <1>1, Has
  <2> QED BY <1>0, <1>1, <2>1
<1>3. u \in Block /\ block[u].used /\ Leads(table, G, v)
  BY <1>0, <1>2 DEF Carried
<1>4. At(table, u) = u
  BY <1>3, Apart DEF At
<1>5. /\ view.root[q] = u /\ view.field[u][f] = At(table, v)
      /\ At(table, v) \in {Nil} \cup Reached
  <2>1. view.root[q] = u /\ u \in Reached
    BY <1>0, <1>1, <1>4, LpHas
  <2>2. Inside(u, f) = v
    BY <1>0, <1>3 DEF Inside
  <2> QED BY <1>1, <2>1, <2>2, LpHas
<1>6. Store!Assign(r, At(table, v))
  <2>1. CASE v \in Object
    <3> DEFINE w == Served(Sent, v)
               c == CopyOf(w.table, v)
    <3>1. /\ Answers(v) /\ block' = [w.block EXCEPT ![u].word[f] = c]
          /\ table' = w.table /\ cell' = [cell EXCEPT ![r] = c]
      BY <1>0, <2>1 DEF LpGetIv
    <3>2. InTable(table, v)
      BY <1>3, <2>1 DEF Leads
    <3>3. ReadTo(w.table, w.block, v, c)
      BY <1>1, <2>1, <3>1, <3>2, ServedReads
    <3>4. PICK d, B : d = c /\ B = w.block
      OBVIOUS
    <3>5. /\ ReadTo(table', B, v, d) /\ block' = [B EXCEPT ![u].word[f] = d]
          /\ cell' = [cell EXCEPT ![r] = d]
      BY <3>1, <3>3, <3>4
    <3>6. B \in BlockMap
      <4>1. PICK H \in SUBSET Block : Carried(w.block, w.table, H)
        BY <1>1, <1>2, <2>1, <3>1, <3>2, Answered, Apart DEF Leads
      <4> QED BY <3>4, <4>1 DEF Carried
    <3> HIDE DEF w, c
    <3>7. /\ At(table', d) = d /\ At(table', v) = d /\ At(table, v) # Nil
          /\ d \in Block
      <4>1. d \in Block /\ d # v /\ At(table', d) = At(table, d)
        BY <2>1, <3>5, Apart DEF ReadTo
      <4> QED BY <2>1, <3>5, <4>1, Apart DEF ReadTo, At
    <3>8. \A x \in Root : At(table', cell'[x]) = IF x = r THEN d ELSE At(table', cell[x])
      BY <1>2, <3>5, <3>7
    <3>9. At(table', B[u].word[f]) = d
      <4>1. CASE u # d
        <5>1. B[u] = block[u]
          BY <1>3, <3>5, <4>1 DEF ReadTo
        <5> QED BY <1>0, <3>7, <5>1
      <4>2. CASE u = d
        <5>1. u = At(table, v)
          BY <1>3, <3>5, <4>2 DEF ReadTo
        <5>2. Inside(At(table, v), f) = v
          BY <1>0, <1>3, <5>1 DEF Inside
        <5>3. At(table', B[d].word[f]) = At(table', Inside(At(table, v), f))
          BY <3>5 DEF ReadTo
        <5> QED BY <3>7, <4>2, <5>2, <5>3
      <4> QED BY <4>1, <4>2
    <3>10. ASSUME NEW a \in Block, NEW g \in Field
           PROVE  At(table', block'[a].word[g]) = At(table', B[a].word[g])
      <4>1. block'[a].word[g] = IF a = u /\ g = f THEN d ELSE B[a].word[g]
        BY <1>3, <3>5, <3>6 DEF BlockMap
      <4> QED BY <3>7, <3>9, <4>1
    <3>11. At(table, v) \in Reached
      BY <1>5, <3>7
    <3> QED BY <1>1, <3>5, <3>8, <3>10, <3>11, LpReads
  <2>2. CASE v \notin Object
    <3>1. OnLp /\ Quiet /\ UNCHANGED block /\ cell' = [cell EXCEPT ![r] = v]
      BY <1>0, <2>2 DEF LpGetIv, OnLp, Quiet
    <3> QED BY <1>1, <1>5, <3>1, LpAssigns
  <2> QED BY <2>1, <2>2
<1> QED
  BY <1>1, <1>5, <1>6 DEF Store!Get, Store!Nil, Nil

\* Every step of the LP core is a step of the store.
LEMMA LpFollows ==
  ASSUME ~Misread, ~Misread', IInv, IInv', view = View, view' = View', LpAct \/ LpCollect
  PROVE  Store!Next
<1>1. Reg \subseteq Root /\ Global \subseteq Root /\ DOMAIN view.root = Root
  BY Apart, ViewIs
<1>2. ASSUME OnLp
      PROVE  \A y \in Root : /\ view.root[y] = At(table, cell[y])
                             /\ At(table, cell[y]) \in {Nil} \cup Reached
  BY <1>2, LpHas DEF OnLp
<1>3. CASE LpCollect
  BY <1>3, LpCollectSeen DEF Store!Next
<1>4. ASSUME NEW r \in Reg, LpNew(r) PROVE Store!Next
  <2>1. Store!Make(r)
    BY <1>4, LpMakes
  <2> QED BY <1>1, <2>1 DEF Store!Next
<1>5. ASSUME NEW r \in Reg, LpNil(r) PROVE Store!Next
  <2>1. At(table, Nil) = Nil
    BY Apart DEF At
  <2>2. Store!Assign(r, Nil)
    BY <1>1, <1>5, <2>1, LpAssigns DEF LpNil
  <2> QED BY <1>1, <2>2, AssignStep
<1>6. ASSUME NEW x \in Root, NEW y \in Root, LpMove(x, y) PROVE Store!Next
  <2>1. OnLp /\ Quiet /\ UNCHANGED block /\ cell' = [cell EXCEPT ![x] = cell[y]]
    BY <1>6 DEF LpMove
  <2>2. At(table, cell[y]) \in {Nil} \cup Reached /\ view.root[y] = At(table, cell[y])
    BY <1>2, <2>1
  <2>3. Store!Assign(x, At(table, cell[y]))
    BY <2>1, <2>2, LpAssigns
  <2> QED BY <1>1, <2>2, <2>3, AssignStep
<1>7. ASSUME NEW r \in Reg, NEW g \in Global, LpGetGlobal(r, g) PROVE Store!Next
  <2>1. Store!Assign(r, At(table, cell[g]))
    BY <1>7, LpLoads
  <2>2. view.root[g] = At(table, cell[g])
    BY <1>1, <1>2, <1>7 DEF LpGetGlobal
  <2> QED BY <1>1, <2>1, <2>2, AssignStep
<1>8. ASSUME NEW r \in Reg, NEW q \in Reg, NEW f \in Field, LpGetIv(r, q, f)
      PROVE  Store!Next
  <2>1. Store!Get(r, q, f)
    BY <1>8, LpFetches
  <2> QED BY <1>1, <2>1 DEF Store!Next
<1>9. ASSUME NEW r \in Reg, NEW q \in Reg, NEW f \in Field, LpSetIv(q, f, r)
      PROVE  Store!Next
  <2>1. Store!Put(q, f, r)
    BY <1>9, LpStores
  <2> QED BY <1>1, <2>1 DEF Store!Next
<1> QED
  BY <1>1, <1>3, <1>4, <1>5, <1>6, <1>7, <1>8, <1>9 DEF LpAct

-----------------------------------------------------------------------------
\* What is sent when a run starts.

\* The words of the copies stand for what their objects hold.
Twins(t, B) ==
  \A v : CopyOf(t, v) # Nil =>
    \A f \in Field : Means(t, B[CopyOf(t, v)].word[f], object[v].field[f])

\* A copy more leaves that so.
LEMMA TwinsMore ==
  ASSUME NEW w, NEW G, G \subseteq Block, Carried(w.block, w.table, G), NEW u,
         NEW v, NEW b, CopyMade(w, u, v, b), CopyOf(w.table, v) = Nil,
         Twins(w.table, w.block)
  PROVE  Twins(u.table, u.block)
<1>1. ASSUME NEW y, CopyOf(u.table, y) # Nil, NEW f \in Field
      PROVE  Means(u.table, u.block[CopyOf(u.table, y)].word[f], object[y].field[f])
  <2>1. CASE y = v
    BY <1>1, <2>1 DEF CopyMade, Noted
  <2>2. CASE y # v
    <3>1. CopyOf(u.table, y) = CopyOf(w.table, y)
      BY <2>2 DEF CopyMade, Noted
    <3>2. CopyOf(w.table, y) \in G
      BY <1>1, <3>1, CopyOfHad
    <3>3. u.block[CopyOf(w.table, y)] = w.block[CopyOf(w.table, y)]
      BY <3>2 DEF CopyMade, Carried
    <3>4. Means(w.table, w.block[CopyOf(w.table, y)].word[f], object[y].field[f])
      BY <1>1, <3>1 DEF Twins
    <3>5. Noted(w.table, u.table, v, b)
      BY DEF CopyMade
    <3> QED BY <3>1, <3>3, <3>4, <3>5, MeansNoted
  <2> QED BY <2>1, <2>2
<1> QED BY <1>1 DEF Twins

\* And more entries do.
LEMMA TwinsGrown ==
  ASSUME NEW t, NEW u, Entered(t, object), Entered(u, object), Grown(t, u), NEW B
  PROVE  /\ Twins(t, B) => Twins(u, B)
         /\ Paired(t) => Paired(u)
<1>1. \A v : CopyOf(u, v) = CopyOf(t, v)
  BY GrownCopy
<1>2. ASSUME Twins(t, B), NEW v, CopyOf(u, v) # Nil, NEW f \in Field
      PROVE  Means(u, B[CopyOf(u, v)].word[f], object[v].field[f])
  BY <1>1, <1>2, MeansGrown DEF Twins
<1>3. Twins(t, B) => Twins(u, B)
  BY <1>2 DEF Twins
<1>4. Paired(t) => Paired(u)
  BY <1>1 DEF Paired
<1> QED BY <1>3, <1>4

\* The objects in registers have copies.
RegsMean(w) ==
  /\ Paired(w.table) /\ Twins(w.table, w.block)
  /\ \E G : Sendable(w, G)

\* mrbcopro_objman_to3 keeps it so, and the register has a copy then.
LEMMA WithCopyMeans ==
  ASSUME Types, Counted(object, root), NEW w, RegsMean(w), NEW r \in Reg,
         NEW u, u = WithCopy(w, r)
  PROVE  /\ RegsMean(u)
         /\ root[r] # Nil => CopyOf(u.table, root[r]) # Nil
         /\ \A v : CopyOf(w.table, v) # Nil => CopyOf(u.table, v) # Nil
<1> DEFINE v == root[r]
<1>1. CASE v = Nil \/ CopyOf(w.table, v) # Nil
  <2>1. u = w
    BY <1>1 DEF WithCopy
  <2> QED BY <1>1, <2>1
<1>2. CASE ~ (v = Nil \/ CopyOf(w.table, v) # Nil)
  <2>1. PICK G : Sendable(w, G)
    BY DEF RegsMean
  <2>2. /\ v \in Unsent(w.table) /\ CopyOf(w.table, v) = Nil
        /\ \E b, e : Copies(w, v, b, e, u)
    BY <1>2, <2>1, WithCopyCopies
  <2> HIDE DEF v
  <2>3. PICK b, e : Copies(w, v, b, e, u)
    BY <2>2
  <2>4. w \in World /\ G \subseteq Block /\ Carried(w.block, w.table, G)
    BY <2>1 DEF Sendable
  <2>5. CopyHad(w, u, G, v, b)
    BY <2>3, <2>4, CopyCarries
  <2>6. Sendable(u, G \cup {b})
    BY <2>1, <2>2, <2>5, Sends
  <2>7. CopyMade(w, u, v, b)
    BY <2>2, <2>3, <2>4, CopyMakes
  <2>8. Twins(u.table, u.block)
    BY <2>2, <2>4, <2>7, TwinsMore DEF RegsMean
  <2>9. Paired(u.table) /\ Noted(w.table, u.table, v, b) /\ b # Nil
    BY <2>7, Apart DEF RegsMean, CopyMade
  <2> QED BY <2>6, <2>8, <2>9 DEF RegsMean, Noted, v
<1> QED BY <1>1, <1>2

\* execute_on_ulp sends all registers.
LEMMA RegsAreSent ==
  ASSUME IInv, core = "hp",
         Cardinality(FreeBlocks(Sent)) >= Cardinality({root[r] : r \in Reg} \ {Nil}),
         NEW w, w = Folded(WithCopy, Sent, REGS)
  PROVE  /\ RegsMean(w)
         /\ \A r \in Reg : root[r] # Nil => CopyOf(w.table, root[r]) # Nil
<1>0. Types /\ Counted(object, root)
  BY DEF IInv
<1>1. PICK at : /\ at[0] = Sent
                /\ \A i \in 1 .. REGS : at[i] = WithCopy(at[i - 1], i)
                /\ Folded(WithCopy, Sent, REGS) = at[REGS]
  BY RegsSteps
<1>2. RegsMean(Sent)
  <2>1. Sendable(Sent, {}) /\ Sent.table = <<>>
    BY SentSendable DEF Sent
  <2>2. Entered(<<>>, object)
    BY <2>1 DEF Sendable, Carried
  <2>3. \A v : CopyOf(<<>>, v) = Nil
    BY <2>2, CopyIs DEF InTable
  <2> QED BY <2>1, <2>3 DEF RegsMean, Paired, Twins
<1> DEFINE Have(t, i) == \A r \in 1 .. i : root[r] # Nil => CopyOf(t, root[r]) # Nil
           T == {i \in 0 .. REGS : RegsMean(at[i]) /\ Have(at[i].table, i)}
<1>3. REGS \in Nat /\ Reg = 1 .. REGS
  BY Finite DEF Reg
<1>4. 0 \in T
  BY <1>1, <1>2, <1>3
<1>5. ASSUME NEW i \in 1 .. REGS, i - 1 \in T PROVE i \in T
  <2>1. RegsMean(at[i - 1]) /\ Have(at[i - 1].table, i - 1) /\ i \in Reg
        /\ at[i] = WithCopy(at[i - 1], i)
    BY <1>1, <1>3, <1>5
  <2>2. /\ RegsMean(at[i])
        /\ root[i] # Nil => CopyOf(at[i].table, root[i]) # Nil
        /\ \A v : CopyOf(at[i - 1].table, v) # Nil => CopyOf(at[i].table, v) # Nil
    BY <1>0, <2>1, WithCopyMeans
  <2>3. Have(at[i].table, i)
    <3>1. ASSUME NEW r \in 1 .. i, root[r] # Nil PROVE CopyOf(at[i].table, root[r]) # Nil
      <4>1. r = i \/ r \in 1 .. i - 1
        BY <1>3
      <4> QED BY <2>1, <2>2, <3>1, <4>1
    <3> QED BY <3>1
  <2> QED BY <1>3, <2>2, <2>3
<1>6. REGS \in T
  <2> HIDE DEF T
  <2> QED BY <1>3, <1>4, <1>5, Climb
<1> QED BY <1>1, <1>3, <1>6

\* The words for the global variables stand for their payloads.
LEMMA GlobalsMean ==
  ASSUME Counted(object, root), NEW B, NEW t,
         NEW G, G \subseteq Block, Carried(B, t, G),
         NEW p \in [Global -> {Nil} \cup Object], \A g \in Global : p[g] \in Payload(g),
         NEW at, at = GlobalsSent(t, p)
  PROVE  \A i \in 1 .. GLOBALS :
           Means(at[GLOBALS], Word(at[i - 1], p[REGS + i]), p[REGS + i])
<1> DEFINE n == GLOBALS
           W(i) == Word(at[i - 1], p[REGS + i])
<1>1. at[0] = t /\ \A i \in 1 .. n : at[i] = GlobalSent(at[i - 1], REGS + i, p[REGS + i])
  BY GlobalsSteps
<1>2. n \in Nat /\ \A i \in 1 .. n : REGS + i \in Global
  BY Finite DEF Global
<1>3. ASSUME NEW g \in Global
      PROVE  /\ p[g] \in {Nil} \cup Object
             /\ root[g] # Nil => p[g] \in Object /\ object[p[g]].rc > 0
  BY PayloadIs
<1> DEFINE T == {i \in 0 .. n :
                   /\ Carried(B, at[i], G)
                   /\ \A j \in 1 .. i : Means(at[i], W(j), p[REGS + j])}
<1> HIDE DEF W
<1>4. 0 \in T
  BY <1>1, <1>2
<1>5. ASSUME NEW i \in 1 .. n, i - 1 \in T PROVE i \in T
  <2> DEFINE q == p[REGS + i]
             a == at[i - 1]
  <2>1. Carried(B, a, G) /\ \A j \in 1 .. i - 1 : Means(a, W(j), p[REGS + j])
    BY <1>5
  <2>2. at[i] = GlobalSent(a, REGS + i, q) /\ REGS + i \in Global
    BY <1>1, <1>2
  <2>3. /\ q \in {Nil} \cup Object
        /\ root[REGS + i] # Nil => q \in Object /\ object[q].rc > 0
    BY <1>3, <2>2
  <2>4. W(i) = Word(a, q)
    BY DEF W
  <2> HIDE DEF q, a
  <2>5. Carried(B, at[i], G) /\ Grown(a, at[i])
    BY <2>1, <2>2, <2>3, GlobalSentIs
  <2>6. Entered(a, object) /\ Entered(at[i], object)
    BY <2>1, <2>5 DEF Carried
  <2>7. Means(a, W(i), q)
    BY <2>3, <2>4, <2>6, WordMeans
  <2>8. ASSUME NEW j \in 1 .. i PROVE Means(at[i], W(j), p[REGS + j])
    <3>1. Means(a, W(j), p[REGS + j])
      <4>1. j = i \/ j \in 1 .. i - 1
        BY <1>2
      <4> QED BY <2>1, <2>7, <4>1 DEF q
    <3> QED BY <2>5, <2>6, <3>1, MeansGrown
  <2> QED BY <1>2, <2>5, <2>8
<1>6. n \in T
  <2> HIDE DEF T
  <2> QED BY <1>2, <1>4, <1>5, Climb
<1> QED BY <1>6 DEF W

\* A run starts: registers and cells stand for the variables.
EnterShows ==
  /\ core' = "lp" /\ object' = object
  /\ Entered(table', object) /\ Paired(table') /\ Twins(table', block')
  /\ ~Misread' => \A x \in Root : Means(table', cell'[x], root[x])

\* execute_on_ulp does so.
LEMMA EnterIs ==
  ASSUME IInv, Enter
  PROVE  EnterShows
<1> DEFINE w == Folded(WithCopy, Sent, REGS)
<1>0. Types /\ Counted(object, root)
  BY DEF IInv
<1>1. /\ core = "hp" /\ core' = "lp"
      /\ Cardinality(FreeBlocks(Sent)) >= Cardinality({root[r] : r \in Reg} \ {Nil})
      /\ block' = w.block /\ object' = object /\ root' = root
  BY DEF Enter
<1>2. PICK p \in [Global -> {Nil} \cup Object] :
        /\ \A g \in Global : p[g] \in Payload(g)
        /\ payload' = p
        /\ table' = GlobalsSent(w.table, p)[GLOBALS]
        /\ cell' = [x \in Root |->
             IF x \in Reg THEN CopyOf(w.table, root[x])
             ELSE Word(GlobalsSent(w.table, p)[x - REGS - 1], p[x])]
  BY DEF Enter
<1> DEFINE at == GlobalsSent(w.table, p)
<1>3. /\ RegsMean(w)
      /\ \A r \in Reg : root[r] # Nil => CopyOf(w.table, root[r]) # Nil
  BY <1>1, RegsAreSent
<1> HIDE DEF w
<1>4. PICK G : Sendable(w, G)
  BY <1>3 DEF RegsMean
<1>5. G \subseteq Block /\ Carried(w.block, w.table, G)
  BY <1>4 DEF Sendable
<1>6. Carried(w.block, at[GLOBALS], G) /\ Grown(w.table, at[GLOBALS])
  BY <1>0, <1>2, <1>5, GlobalsAreSent
<1>7. \A i \in 1 .. GLOBALS :
        Means(at[GLOBALS], Word(at[i - 1], p[REGS + i]), p[REGS + i])
  BY <1>0, <1>2, <1>5, GlobalsMean
<1>8. /\ table' = at[GLOBALS]
      /\ \A x \in Root : cell'[x] = IF x \in Reg THEN CopyOf(w.table, root[x])
                                    ELSE Word(at[x - REGS - 1], p[x])
  BY <1>2
<1> HIDE DEF at
<1>9. Entered(table', object) /\ Entered(w.table, object) /\ Grown(w.table, table')
  BY <1>5, <1>6, <1>8 DEF Carried
<1>10. Paired(table') /\ Twins(table', block')
  BY <1>1, <1>3, <1>9, TwinsGrown DEF RegsMean
<1>11. ASSUME ~Misread', NEW x \in Root PROVE Means(table', cell'[x], root[x])
  <2>1. CASE x \in Reg
    <3>1. cell'[x] = CopyOf(w.table, root[x])
      BY <1>8, <2>1
    <3>2. CASE root[x] = Nil
      <4>1. ~ InTable(w.table, Nil)
        <5>1. ASSUME NEW i \in DOMAIN w.table, w.table[i].main = Nil PROVE FALSE
          <6>1. w.table[i].ty # "nil"
            BY <1>4, <5>1 DEF Sendable, NilIn
          <6>2. w.table[i].ty \in {"object", "nil"}
            BY <1>9, EntryIs DEF Entered
          <6> QED BY <1>9, <5>1, <6>1, <6>2, Apart DEF Entered, Backed
        <5> QED BY <5>1 DEF InTable
      <4> QED BY <1>9, <3>1, <3>2, <4>1, CopyIs DEF Means
    <3>3. CASE root[x] # Nil
      <4>1. Means(w.table, cell'[x], root[x])
        BY <1>3, <2>1, <3>1, <3>3 DEF Means
      <4> QED BY <1>9, <4>1, MeansGrown
    <3> QED BY <3>2, <3>3
  <2>2. CASE x \notin Reg
    <3> DEFINE i == x - REGS
    <3>1. i \in 1 .. GLOBALS /\ i - 1 = x - REGS - 1 /\ REGS + i = x /\ x \in Global
      BY <2>2, Finite DEF Root, Global, Reg
    <3>2. cell'[x] = Word(at[i - 1], p[REGS + i])
      BY <1>8, <2>2, <3>1
    <3> HIDE DEF i
    <3>3. p[x] = root[x]
      <4>1. CASE root[x] # Nil
        BY <1>0, <1>2, <3>1, <4>1, PayloadIs
      <4>2. CASE root[x] = Nil
        <5>1. Stale' = {}
          BY <1>1, <1>11 DEF Misread
        <5>2. payload'[x] \in {Nil} \cup Stale'
          BY <1>1, <3>1, <4>2 DEF Stale
        <5> QED BY <1>2, <4>2, <5>1, <5>2
      <4> QED BY <4>1, <4>2
    <3> QED BY <1>7, <1>8, <3>1, <3>2, <3>3
  <2> QED BY <2>1, <2>2
<1> QED BY <1>1, <1>9, <1>10, <1>11 DEF EnterShows

\* Values of the HP core that are not the same do not lead to the same place.
LEMMA AtApart ==
  ASSUME NEW t, NEW o, Entered(t, o), Paired(t),
         NEW a \in {Nil} \cup Object, NEW b \in {Nil} \cup Object, At(t, a) = At(t, b)
  PROVE  a = b
<1>1. \A v : CopyOf(t, v) \in {Nil} \cup Block
  BY CopyIs
<1> QED BY <1>1, Apart DEF At, Paired

\* The program finds its objects with their values on the LP core.
LEMMA EnterSeen ==
  ASSUME ~Misread, ~Misread', IInv, IInv', view = View, view' = View', Enter
  PROVE  Store!Becomes(view)
<1> DEFINE R == Reached
           Go(a) == At(table', a)
           T == {Go(a) : a \in R}
           m == [c \in T |-> CHOOSE a \in R : Go(a) = c]
<1>1. EnterShows
  BY EnterIs
<1>2. HpSees /\ Found /\ TypeOK
  BY HpSeesIs, FoundIs, TypesHold DEF Enter
<1>3. R \subseteq Object
  BY <1>2 DEF HpSees
<1>4. \A x \in Root : root[x] \in {Nil} \cup R /\ view.root[x] = root[x]
  BY <1>2, ViewIs DEF HpSees, Found, Closes
<1>5. /\ DOMAIN view.field = R
      /\ \A a \in R, f \in Field : /\ view.field[a][f] = object[a].field[f]
                                   /\ object[a].field[f] \in {Nil} \cup R
  BY <1>2, ViewIs DEF HpSees, Found, Closes
<1> HIDE DEF R
<1>6. Entered(table', object) /\ Paired(table') /\ Twins(table', block')
  BY <1>1 DEF EnterShows
<1>7. \A a, b \in {Nil} \cup R : Go(a) = Go(b) => a = b
  BY <1>3, <1>6, AtApart
<1>8. Go(Nil) = Nil
  BY Apart DEF At
<1>9. \A c \in T : m[c] \in R /\ Go(m[c]) = c
  OBVIOUS
<1>10. ASSUME NEW y \in {Nil} \cup R
       PROVE  Go(y) \in {Nil} \cup T /\ Was(m, Go(y)) = y
  <2>1. CASE y = Nil
    BY <1>8, <2>1 DEF Was
  <2>2. CASE y # Nil
    <3>1. Go(y) \in T /\ Go(y) # Nil
      BY <1>7, <1>8, <2>2
    <3>2. m[Go(y)] = y
      BY <1>7, <1>9, <3>1
    <3> QED BY <3>1, <3>2 DEF Was
  <2> QED BY <2>1, <2>2
<1>11. m \in [T -> DOMAIN view.field] /\ \A c, d \in T : m[c] = m[d] => c = d
  BY <1>5, <1>9
<1>12. T \subseteq Object \cup Block
  <2>1. \A v : CopyOf(table', v) \in {Nil} \cup Block
    BY <1>6, CopyIs
  <2> QED BY <1>3, <2>1 DEF At
<1>13. ASSUME NEW c \in T, NEW f \in Field
       PROVE  At(table', Inside(c, f)') = Go(object[m[c]].field[f])
  <2>1. PICK a : a = m[c]
    OBVIOUS
  <2>2. a \in Object /\ Go(a) = c
    BY <1>3, <1>9, <2>1
  <2>3. CASE CopyOf(table', a) # Nil
    <3>1. c = CopyOf(table', a) /\ c \in Block
      BY <1>6, <2>2, <2>3, CopyIs DEF At
    <3>2. Means(table', block'[c].word[f], object[a].field[f])
      BY <1>6, <2>3, <3>1 DEF Twins
    <3>3. Inside(c, f)' = block'[c].word[f]
      BY <3>1 DEF Inside
    <3> QED BY <1>6, <2>1, <3>2, <3>3, MeansAt
  <2>4. CASE CopyOf(table', a) = Nil
    <3>1. c = a /\ c \notin Block
      BY <2>2, <2>4, Apart DEF At
    <3>2. Inside(c, f)' = object[a].field[f]
      BY <1>1, <3>1 DEF Inside, EnterShows
    <3> QED BY <2>1, <3>2
  <2> QED BY <2>3, <2>4
<1>14. \A c \in T, f \in Field :
         /\ At(table', Inside(c, f)') \in {Nil} \cup T
         /\ view.field[m[c]][f] = Was(m, At(table', Inside(c, f)'))
  <2> HIDE DEF T, m, Go
  <2> QED BY <1>5, <1>9, <1>10, <1>13
<1>15. ASSUME NEW x \in Root
       PROVE  /\ At(table', cell'[x]) \in {Nil} \cup T
              /\ view.root[x] = Was(m, At(table', cell'[x]))
  <2>1. Means(table', cell'[x], root[x])
    BY <1>1 DEF EnterShows
  <2>2. At(table', cell'[x]) = Go(root[x])
    BY <1>6, <2>1, MeansAt
  <2> HIDE DEF T, m, Go
  <2> QED BY <1>4, <1>10, <2>2
<1> HIDE DEF T, m, Go
<1>16. LpShows(view, T, m)
  BY <1>11, <1>12, <1>14, <1>15 DEF LpShows
<1> QED
  BY <1>1, <1>16, LpBecomes DEF EnterShows, Store!Becomes

-----------------------------------------------------------------------------
\* What the blocks are taken into when a run ends.

\* After the first i blocks: the table knows the copies it knew, no block as
\* the copy of two, and what a block is taken into it was a copy of or is new.
Traced(w, i) ==
  /\ \A b \in Block : \A v : KnownAs(table, b, v) => KnownAs(w.table, b, v)
  /\ \A b \in Block : \A v, y : KnownAs(w.table, b, v) /\ KnownAs(w.table, b, y) => v = y
  /\ \A b \in Block : b > HP + i => \A v : KnownAs(w.table, b, v) => KnownAs(table, b, v)
  /\ \A b \in Block : b <= HP + i /\ block[b].used => w.main[b] # Nil
  /\ \A b \in Block : w.main[b] # Nil =>
       KnownAs(table, b, w.main[b]) \/ object[w.main[b]].rc = 0
  /\ \A v \in Object : object[v].rc <= w.object[v].rc
  /\ Unmarked(w.table)

\* It stays so as the block HP + i is taken into v.
LEMMA TracedInto ==
  ASSUME object \in ObjectMap, NEW w, NEW i \in 1 .. LP, NEW G, Taking(w, i - 1, G),
         Traced(w, i - 1), NEW u, NEW v, TakenInto(w, u, i, v, G)
  PROVE  Traced(u, i)
<1> DEFINE b == HP + i
<1>1. /\ b \in Block /\ b \notin {Nil} /\ HP \in Nat /\ i \in Nat
      /\ \A a \in Block : a <= HP + i <=> (a = b \/ a <= HP + (i - 1))
      /\ \A a \in Block : a > HP + (i - 1) <=> (a = b \/ a > HP + i)
  BY Finite, Apart DEF Block
<1>0. b > HP + (i - 1)
  BY Finite
<1>2. w.main \in [Block -> {Nil} \cup Object] /\ w.object \in ObjectMap
  BY DEF Taking, TakenObjects
<1>3. /\ v \in Object /\ v # Nil /\ u.main[b] = v
      /\ \A a \in Block : a # b => u.main[a] = w.main[a]
  BY <1>1, <1>2, Apart DEF TakenInto
<1>4. /\ KnownAs(u.table, b, v)
      /\ \A a \in Block : \A y : KnownAs(w.table, a, y) => KnownAs(u.table, a, y)
      /\ \A a \in Block : \A y : KnownAs(u.table, a, y) =>
           KnownAs(w.table, a, y) \/ (a = b /\ y = v)
      /\ \/ KnownAs(w.table, b, v)
         \/ w.object[v].rc = 0 /\ \A y : ~KnownAs(w.table, b, y)
  BY DEF TakenInto
<1> HIDE DEF b
<1>5. KnownAs(table, b, v) \/ object[v].rc = 0
  <2>1. CASE KnownAs(w.table, b, v)
    <3> QED BY <1>0, <1>1, <2>1 DEF Traced
  <2>2. CASE w.object[v].rc = 0
    <3>1. object[v].rc \in Nat /\ object[v].rc <= w.object[v].rc
      BY <1>3 DEF Traced, ObjectMap
    <3> QED BY <2>2, <3>1
  <2> QED BY <1>4, <2>1, <2>2
<1>6. \A a \in Block : \A y : KnownAs(table, a, y) => KnownAs(u.table, a, y)
  BY <1>4 DEF Traced
<1>7. \A a \in Block : \A x, y : KnownAs(u.table, a, x) /\ KnownAs(u.table, a, y) => x = y
  <2>1. ASSUME NEW a \in Block, NEW x, NEW y,
               KnownAs(u.table, a, x), KnownAs(u.table, a, y)
        PROVE  x = y
    <3>1. KnownAs(w.table, a, x) \/ (a = b /\ x = v)
      BY <1>4, <2>1
    <3>2. KnownAs(w.table, a, y) \/ (a = b /\ y = v)
      BY <1>4, <2>1
    <3>3. \A z : KnownAs(w.table, b, z) => z = v
      BY <1>1, <1>4 DEF Traced
    <3>4. KnownAs(w.table, a, x) /\ KnownAs(w.table, a, y) => x = y
      BY DEF Traced
    <3> QED BY <3>1, <3>2, <3>3, <3>4
  <2> QED BY <2>1
<1>8. \A a \in Block : a > HP + i => \A y : KnownAs(u.table, a, y) => KnownAs(table, a, y)
  <2>1. ASSUME NEW a \in Block, a > HP + i, NEW y, KnownAs(u.table, a, y)
        PROVE  KnownAs(table, a, y)
    <3>1. a # b
      BY <1>1, <2>1 DEF b
    <3>2. a > HP + (i - 1)
      BY <2>1, Finite DEF Block
    <3>3. KnownAs(w.table, a, y)
      BY <1>4, <2>1, <3>1
    <3> QED BY <3>2, <3>3 DEF Traced
  <2> QED BY <2>1
<1>9. \A a \in Block : a <= HP + i /\ block[a].used => u.main[a] # Nil
  BY <1>1, <1>3 DEF Traced
<1>10. \A a \in Block : u.main[a] # Nil =>
         KnownAs(table, a, u.main[a]) \/ object[u.main[a]].rc = 0
  BY <1>3, <1>5 DEF Traced
<1>11. \A y \in Object : object[y].rc <= u.object[y].rc
  <2>1. ASSUME NEW y \in Object PROVE object[y].rc <= u.object[y].rc
    <3>1. u.object[y].rc >= w.object[y].rc + Is(v, y) /\ object[y].rc <= w.object[y].rc
      BY DEF TakenInto, Traced
    <3>2. object[y].rc \in Nat /\ w.object[y].rc \in Nat /\ u.object[y].rc \in Nat
      BY <1>2 DEF ObjectMap, TakenInto
    <3> QED BY <3>1, <3>2 DEF Is
  <2> QED BY <2>1
<1>12. Unmarked(u.table)
  BY DEF Traced, TakenInto, Unmarked
<1> QED BY <1>6, <1>7, <1>8, <1>9, <1>10, <1>11, <1>12 DEF Traced

\* So each step of the first pass keeps it.
LEMMA TracedStep ==
  ASSUME object \in ObjectMap, NEW w, NEW i \in 1 .. LP, NEW G,
         Taking(w, i - 1, G), Traced(w, i - 1), NEW u, u = Taken(w, i)
  PROVE  Traced(u, i)
<1> DEFINE b == HP + i
           t == w.table
           k == Lookup(t, b, NONE)
<1>1. t \in Seq(Entry) /\ Entered(t, w.object) /\ Unmarked(t)
  BY DEF Taking, Entered, Traced
<1>2. k # 0 => k \in DOMAIN t /\ t[k].copro = b
  <2>1. k # 0 => k \in DOMAIN t /\ (t[k].copro = b \/ t[k].main = NONE)
    BY <1>1, LookupIs
  <2>2. \A j \in DOMAIN t : t[j].main # NONE
    BY <1>1, EntryIs, Apart DEF Address
  <2> QED BY <2>1, <2>2
<1>3. CASE ~block[b].used
  <2>1. u = w
    BY <1>3 DEF Taken
  <2>2. /\ \A a \in Block : a <= HP + i => a = b \/ a <= HP + (i - 1)
        /\ \A a \in Block : a > HP + i => a > HP + (i - 1)
    BY Finite, Apart DEF Block
  <2>3. ~block[b].used
    BY <1>3
  <2> HIDE DEF b
  <2>4. \A a \in Block : a > HP + i =>
          \A v : KnownAs(w.table, a, v) => KnownAs(table, a, v)
    BY <2>2 DEF Traced
  <2>5. \A a \in Block : a <= HP + i /\ block[a].used => w.main[a] # Nil
    BY <2>2, <2>3 DEF Traced
  <2> QED BY <2>1, <2>4, <2>5 DEF Traced
<1>4. CASE block[b].used /\ k # 0
  <2>1. b # Nil
    BY Finite DEF Nil
  <2>2. t[k].main \in Object
    BY <1>1, <1>2, <1>4, <2>1 DEF Entered, Backed
  <2>3. t[k].ty # "nil"
    BY <1>1, <1>2, <1>4, <2>2 DEF Unmarked, NilIn
  <2>4. TakenInto(w, u, i, t[k].main, G)
    BY <1>2, <1>4, <2>3, TakenKnown
  <2> QED BY <2>4, TracedInto
<1>5. CASE block[b].used /\ k = 0
  <2>1. \E v : TakenInto(w, u, i, v, G)
    BY <1>5, TakenNew
  <2> QED BY <2>1, TracedInto
<1> QED BY <1>3, <1>4, <1>5

\* A block is known as what it is a copy of.
LEMMA KnownCopy ==
  ASSUME NEW t, NEW o, Entered(t, o), NEW b \in Block, NEW v
  PROVE  KnownAs(t, b, v) <=> CopyOf(t, v) = b
<1>1. ASSUME KnownAs(t, b, v) PROVE CopyOf(t, v) = b
  BY <1>1, CopyIs DEF KnownAs
<1>2. ASSUME CopyOf(t, v) = b PROVE KnownAs(t, b, v)
  <2>1. InTable(t, v)
    BY <1>2, CopyIs, Apart
  <2>2. PICK j \in DOMAIN t : t[j].main = v
    BY <2>1 DEF InTable
  <2>3. t[j].copro = b
    BY <1>2, <2>2, CopyIs
  <2> QED BY <2>2, <2>3 DEF KnownAs
<1> QED BY <1>1, <1>2

\* And it holds after the pass.
LEMMA AllTraced ==
  ASSUME Counted(object, root), NEW G \in SUBSET Block,
         Carried(block, table, G), Paired(table), Unmarked(table),
         Cardinality({b \in Block : block[b].used /\ Lookup(table, b, NONE) = 0})
           <= Cardinality(FreeObjects(object))
  PROVE  Traced(AllTaken, LP)
<1>1. PICK at : /\ at[0] = NoneTaken
                /\ \A i \in 1 .. LP : at[i] = Taken(at[i - 1], i)
                /\ AllTaken = at[LP]
  BY TakenSteps
<1> DEFINE T == {i \in 0 .. LP : Taking(at[i], i, G) /\ Traced(at[i], i)}
<1>2. LP \in Nat /\ object \in ObjectMap
  BY Finite DEF Counted
<1>3. Traced(NoneTaken, 0)
  <2>1. /\ NoneTaken.object = object /\ NoneTaken.table = table
        /\ \A b \in Block : NoneTaken.main[b] = Nil
    BY DEF NoneTaken
  <2>2. \A b \in Block : ~ (b <= HP + 0)
    BY Finite DEF Block
  <2>3. ASSUME NEW b \in Block, NEW v, NEW y, KnownAs(table, b, v), KnownAs(table, b, y)
        PROVE  v = y
    <3>1. Entered(table, object)
      BY DEF Carried
    <3>2. CopyOf(table, v) = b /\ CopyOf(table, y) = b
      BY <2>3, <3>1, KnownCopy
    <3> QED BY <3>2, Apart DEF Paired
  <2>4. \A v \in Object : object[v].rc <= object[v].rc
    BY <1>2 DEF ObjectMap
  <2> QED BY <2>1, <2>2, <2>3, <2>4 DEF Traced
<1>4. 0 \in T
  BY <1>1, <1>2, <1>3, NoneTakenIs
<1>5. ASSUME NEW i \in 1 .. LP, i - 1 \in T PROVE i \in T
  <2>1. /\ Taking(at[i - 1], i - 1, G) /\ Traced(at[i - 1], i - 1)
        /\ at[i] = Taken(at[i - 1], i)
    BY <1>1, <1>5
  <2>2. Taking(at[i], i, G) /\ Traced(at[i], i)
    BY <1>2, <2>1, TakenStep, TracedStep
  <2> QED BY <1>2, <2>2
<1>6. LP \in T
  <2> HIDE DEF T
  <2> QED BY <1>2, <1>4, <1>5, Climb
<1> QED BY <1>1, <1>6

-----------------------------------------------------------------------------
\* What the program sees when a run ends.

\* The object that is at the address a after the run.
HomeOf(s, a) == IF a \in Block THEN s.main[a] ELSE a

\* What is known at the end of a run.
Homing(s, G) ==
  /\ Counted(object, root)
  /\ Carried(block, table, G) /\ G \in SUBSET Block
  /\ Taking(s, LP, G) /\ Traced(s, LP)

\* A copy is taken into the object it is a copy of.
LEMMA CopyHome ==
  ASSUME NEW s, NEW G, Homing(s, G), NEW v \in Object, CopyOf(table, v) # Nil
  PROVE  HomeOf(s, CopyOf(table, v)) = v
<1> DEFINE b == CopyOf(table, v)
<1>1. b \in G /\ b \in Block /\ block[b].used
  BY CopyOfHad DEF Homing, Carried
<1>2. KnownAs(table, b, v)
  <2>1. Entered(table, object)
    BY DEF Homing, Carried
  <2> QED BY <1>1, <2>1, KnownCopy
<1> HIDE DEF b
<1>3. b <= HP + LP
  BY <1>1, Finite DEF Block
<1>4. s.main[b] # Nil /\ KnownAs(s.table, b, v)
  BY <1>1, <1>2, <1>3 DEF Homing, Traced
<1>5. KnownAs(s.table, b, s.main[b])
  BY <1>1, <1>4 DEF Homing, Taking, TakenTable
<1>6. s.main[b] = v
  BY <1>1, <1>4, <1>5 DEF Homing, Traced
<1> QED BY <1>1, <1>6 DEF HomeOf, b

\* What the program sees as an address of an object is taken into the object.
LEMMA AtHome ==
  ASSUME NEW s, NEW G, Homing(s, G), NEW v \in {Nil} \cup Object
  PROVE  HomeOf(s, At(table, v)) = v
<1>1. v \notin Block
  BY Apart
<1>2. CASE v \in Object /\ CopyOf(table, v) # Nil
  BY <1>2, CopyHome DEF At
<1>3. CASE ~(v \in Object /\ CopyOf(table, v) # Nil)
  BY <1>1, <1>3 DEF At, HomeOf
<1> QED BY <1>2, <1>3

\* A word gets the value of what the program sees there.
LEMMA ValueHome ==
  ASSUME NEW s, NEW G, Homing(s, G), NEW x \in Address, Leads(table, G, x)
  PROVE  Value(s.table, x) = HomeOf(s, At(table, x))
<1> DEFINE t == s.table
           k == Lookup(t, x, x)
<1>1. /\ t \in Seq(Entry) /\ TakenTable(t, s.main, LP, G)
      /\ \A j \in DOMAIN t : /\ t[j].main \in {Nil} \cup Object
                             /\ t[j].copro \in {Nil} \cup Block
                             /\ t[j].main # Nil \/ t[j].copro # Nil => t[j].ty = "object"
  <2>1. Entered(t, s.object) /\ TakenTable(t, s.main, LP, G) /\ Unmarked(t)
    BY DEF Homing, Taking, Traced
  <2>2. t \in Seq(Entry)
    BY <2>1 DEF Entered
  <2> HIDE DEF t
  <2> SUFFICES ASSUME NEW j \in DOMAIN t
               PROVE  /\ t[j].main \in {Nil} \cup Object
                      /\ t[j].copro \in {Nil} \cup Block
                      /\ t[j].main # Nil \/ t[j].copro # Nil => t[j].ty = "object"
    BY <2>1, <2>2
  <2>3. /\ t[j].main \in {Nil} \cup Object /\ t[j].copro \in {Nil} \cup Block
        /\ t[j].ty \in {"object", "nil"}
    BY <2>2, EntryIs
  <2>4. t[j].copro # Nil => t[j].main \in Object
    BY <2>1 DEF Entered, Backed
  <2>5. t[j].main \in Object => t[j].ty # "nil"
    BY <2>1 DEF Unmarked, NilIn
  <2> QED BY <2>3, <2>4, <2>5
<1>2. ASSUME x # Nil, NEW j \in DOMAIN t, t[j].copro = x \/ t[j].main = x
      PROVE  /\ k \in DOMAIN t /\ (t[k].copro = x \/ t[k].main = x)
             /\ Value(t, x) = t[k].main
  <2>1. k # 0 => k \in DOMAIN t /\ (t[k].copro = x \/ t[k].main = x)
    BY <1>1, LookupIs
  <2>2. k # 0
    BY <1>1, <1>2, LookupIs
  <2> HIDE DEF k, t
  <2>3. k \in DOMAIN t /\ (t[k].copro # Nil \/ t[k].main # Nil)
    BY <1>2, <2>1, <2>2
  <2>4. t[k].ty = "object"
    BY <1>1, <2>3
  <2> QED BY <1>2, <2>1, <2>2, <2>4 DEF Value, k, t
<1> HIDE DEF t, k
<1>3. CASE x = Nil
  <2>1. HomeOf(s, At(table, x)) = x
    BY <1>3, AtHome
  <2> QED BY <1>3, <2>1 DEF Value
<1>4. CASE x \in Object
  <2>1. InTable(t, x)
    BY <1>1, <1>4 DEF Leads, TakenTable
  <2>2. PICK j \in DOMAIN t : t[j].main = x
    BY <2>1 DEF InTable
  <2>3. k \in DOMAIN t /\ (t[k].copro = x \/ t[k].main = x) /\ Value(t, x) = t[k].main
    BY <1>2, <1>4, <2>2, Apart
  <2>4. Value(t, x) = x
    BY <1>1, <1>4, <2>3, Apart
  <2> QED BY <1>4, <2>4, AtHome DEF t
<1>5. CASE x \in Block
  <2>1. block[x].used /\ x <= HP + LP
    BY <1>5, Finite DEF Leads, Homing, Carried, Block
  <2>2. s.main[x] # Nil /\ KnownAs(t, x, s.main[x])
    BY <1>1, <1>5, <2>1 DEF Homing, Traced, TakenTable
  <2>3. PICK j \in DOMAIN t : t[j].copro = x
    BY <2>2 DEF KnownAs
  <2>4. k \in DOMAIN t /\ (t[k].copro = x \/ t[k].main = x) /\ Value(t, x) = t[k].main
    BY <1>2, <1>5, <2>3, Apart
  <2>5. KnownAs(t, x, t[k].main)
    BY <1>1, <1>5, <2>4, Apart DEF KnownAs
  <2>6. t[k].main = s.main[x]
    BY <1>5, <2>2, <2>5 DEF Homing, Traced, t
  <2> QED BY <1>5, <2>4, <2>6, Apart DEF At, HomeOf, t
<1> QED BY <1>3, <1>4, <1>5 DEF Address

\* What the program can get at is a block it may have or an object with no copy.
LEMMA ReachedPlain ==
  ASSUME ~Misread, IInv, core = "lp", NEW G \in SUBSET Block, OnLpCore(G)
  PROVE  \A a \in Reached : a \in G \/ (a \in Object /\ CopyOf(table, a) = Nil)
<1> DEFINE T == G \cup {a \in Object : CopyOf(table, a) = Nil}
<1>1. LpSees /\ Found
  BY LpSeesIs, FoundIs
<1>2. Carried(block, table, G) /\ Counted(object, root) /\ Types
  BY DEF IInv, OnLpCore
<1>3. ASSUME NEW x \in Address, x \in Block => x \in G PROVE At(table, x) \in {Nil} \cup T
  <2>1. CASE x \in Object /\ CopyOf(table, x) # Nil
    BY <1>2, <2>1, CopyOfHad DEF At
  <2>2. CASE ~(x \in Object /\ CopyOf(table, x) # Nil)
    BY <1>3, <2>2 DEF At, Address
  <2> QED BY <2>1, <2>2
<1>4. \A x \in Root : Roots[x] \in {Nil} \cup T
  <2> SUFFICES ASSUME NEW x \in Root PROVE Roots[x] \in {Nil} \cup T
    OBVIOUS
  <2>1. cell[x] \in Address /\ (cell[x] \in Block => cell[x] \in G)
    BY <1>2 DEF Types, OnLpCore, Leads
  <2> HIDE DEF T
  <2> QED BY <1>1, <1>3, <2>1 DEF LpSees
<1>5. \A a \in T, f \in Field : Held(a)[f] \in {Nil} \cup T
  <2> SUFFICES ASSUME NEW a \in T, NEW f \in Field PROVE Held(a)[f] \in {Nil} \cup T
    OBVIOUS
  <2>1. a \in Object \cup Block
    OBVIOUS
  <2>2. a \in Block => a \in G
    BY Apart
  <2> HIDE DEF T
  <2>3. Inside(a, f) \in Address /\ (Inside(a, f) \in Block => Inside(a, f) \in G)
    <3>1. CASE a \in Block
      BY <1>2, <2>2, <3>1 DEF Inside, Carried, BlockMap, Leads
    <3>2. CASE a \notin Block
      <4>1. object[a].field[f] \in {Nil} \cup Object
        BY <1>2, <2>1, <3>2 DEF Counted, ObjectMap
      <4> QED BY <3>2, <4>1, Apart DEF Inside, Address
    <3> QED BY <3>1, <3>2
  <2> QED BY <1>1, <1>3, <2>1, <2>3 DEF LpSees
<1>6. Closes(T)
  BY <1>4, <1>5 DEF Closes
<1>7. Reached \subseteq T
  <2> HIDE DEF T
  <2> QED BY <1>1, <1>6 DEF Found
<1> QED BY <1>7

\* Different objects the program can get at are taken into different ones, and no
\* block into one it can get at on the HP core.
LEMMA HomesApart ==
  ASSUME ~Misread, IInv, core = "lp", NEW G, OnLpCore(G), NEW s, Homing(s, G)
  PROVE  /\ \A a \in Reached : HomeOf(s, a) \in Object
         /\ \A a \in Reached \cap Object, b \in Block : s.main[b] # a
         /\ \A a, b \in Reached : HomeOf(s, a) = HomeOf(s, b) => a = b
<1>1. \A a \in Reached : a \in G \/ (a \in Object /\ CopyOf(table, a) = Nil)
  BY ReachedPlain DEF Homing
<1>2. /\ G \subseteq Block /\ Entered(table, object) /\ \A b \in G : block[b].used
      /\ s.main \in [Block -> {Nil} \cup Object]
  BY DEF Homing, Carried, Taking, TakenObjects
<1>3. ASSUME NEW a \in Reached, a \in Block PROVE s.main[a] \in Object
  <2>1. block[a].used /\ a <= HP + LP
    BY <1>1, <1>2, <1>3, Apart, Finite DEF Block
  <2>2. s.main[a] # Nil
    BY <1>3, <2>1 DEF Homing, Traced
  <2> QED BY <1>2, <1>3, <2>2
<1>4. ASSUME NEW a \in Reached \cap Object, NEW b \in Block, s.main[b] = a PROVE FALSE
  <2>1. object[a].rc > 0 /\ CopyOf(table, a) = Nil
    <3>1. a \notin Block /\ Found
      BY <1>4, Apart, FoundIs
    <3> QED BY <1>1, <1>2, <3>1 DEF Found, Live
  <2>2. KnownAs(table, b, a) \/ object[a].rc = 0
    BY <1>4, Apart DEF Homing, Traced
  <2>3. CopyOf(table, a) = b
    BY <1>2, <2>1, <2>2, KnownCopy
  <2> QED BY <2>1, <2>3, Apart
<1>5. ASSUME NEW a \in Reached, NEW b \in Reached, HomeOf(s, a) = HomeOf(s, b)
      PROVE  a = b
  <2>1. a \in Object \cup Block /\ b \in Object \cup Block
    BY <1>1, <1>2
  <2>2. CASE a \in Block /\ b \in Block
    <3>1. s.main[a] # Nil /\ s.main[a] = s.main[b]
      BY <1>3, <1>5, <2>2, Apart DEF HomeOf
    <3> QED BY <2>2, <3>1, MainsApart DEF Homing
  <2>3. CASE a \notin Block /\ b \notin Block
    BY <1>5, <2>3 DEF HomeOf
  <2>4. CASE a \in Block /\ b \notin Block
    BY <1>4, <1>5, <2>1, <2>4 DEF HomeOf
  <2>5. CASE a \notin Block /\ b \in Block
    BY <1>4, <1>5, <2>1, <2>5 DEF HomeOf
  <2> QED BY <2>2, <2>3, <2>4, <2>5
<1>6. ASSUME NEW a \in Reached PROVE HomeOf(s, a) \in Object
  BY <1>1, <1>2, <1>3 DEF HomeOf
<1> QED BY <1>4, <1>5, <1>6

\* The objects the program can get at hold, where they are taken to, what they held.
LEMMA FieldsHome ==
  ASSUME ~Misread, IInv, core = "lp", NEW G, OnLpCore(G), NEW s, Homing(s, G),
         NEW o, Written(o, s, G, HP + LP, FIELDS), NEW a \in Reached, NEW f \in Field
  PROVE  o[HomeOf(s, a)].field[f] = HomeOf(s, At(table, Inside(a, f)))
<1>1. /\ a \in G \/ a \in Object
      /\ \A b \in Block : a \in Object => s.main[b] # a
      /\ HomeOf(s, a) \in Object
  BY ReachedPlain, HomesApart DEF Homing
<1>2. Carried(block, table, G) /\ G \subseteq Block /\ Counted(object, root)
  BY DEF Homing
<1>3. CASE a \in Block
  <2>1. a \in G /\ a \in Nat /\ HP \in Nat /\ LP \in Nat /\ a <= HP + LP /\ f <= FIELDS
    BY <1>1, <1>3, Apart, Finite DEF Block, Field
  <2>2. s.main[a] # Nil /\ HomeOf(s, a) = s.main[a]
    BY <1>1, <1>3, Apart DEF HomeOf
  <2>3. a < HP + LP \/ (a = HP + LP /\ f <= FIELDS)
    BY <2>1
  <2>4. o[s.main[a]].field[f] = Value(s.table, block[a].word[f])
    BY <2>1, <2>2, <2>3 DEF Written
  <2>5. block[a].word[f] \in Address /\ Leads(table, G, block[a].word[f])
    BY <1>2, <2>1 DEF Carried, BlockMap
  <2>6. Value(s.table, block[a].word[f]) = HomeOf(s, At(table, block[a].word[f]))
    BY <2>5, ValueHome
  <2> QED BY <1>3, <2>2, <2>4, <2>6 DEF Inside
<1>4. CASE a \notin Block
  <2>1. a \in Object /\ HomeOf(s, a) = a
    BY <1>1, <1>2, <1>4 DEF HomeOf
  <2>2. o[a].field[f] = object[a].field[f]
    BY <1>1, <2>1 DEF Written
  <2>3. object[a].field[f] \in {Nil} \cup Object
    BY <1>2, <2>1 DEF Counted, ObjectMap
  <2> QED BY <1>4, <2>1, <2>2, <2>3, AtHome DEF Inside
<1> QED BY <1>3, <1>4

\* After the run the program sees what it saw at its end.
LEMMA LandsSame ==
  ASSUME ~Misread, IInv, core = "lp", view = View, NEW G, OnLpCore(G),
         NEW s, Homing(s, G), NEW o, Written(o, s, G, HP + LP, FIELDS),
         Fewer(o, object'), \A x \in Root : root'[x] = Value(s.table, cell[x]),
         NEW w, w = view
  PROVE  \E T, m : HpShows(o, w, T, m)
<1>1. PICK R : R = Reached
  OBVIOUS
<1> DEFINE T == {HomeOf(s, a) : a \in R}
           m == [v \in T |-> CHOOSE a \in R : HomeOf(s, a) = v]
<1>2. /\ \A a \in R : HomeOf(s, a) \in Object
      /\ \A a, b \in R : HomeOf(s, a) = HomeOf(s, b) => a = b
  BY <1>1, HomesApart
<1>3. \A a \in R : HomeOf(s, a) \in T /\ m[HomeOf(s, a)] = a
  BY <1>2
<1>4. \A v \in T : m[v] \in R /\ HomeOf(s, m[v]) = v
  OBVIOUS
<1>5. T \subseteq Object /\ m \in [T -> R] /\ \A v, y \in T : m[v] = m[y] => v = y
  BY <1>2, <1>4
<1> HIDE DEF T, m
<1>6. HomeOf(s, Nil) = Nil
  BY Apart DEF HomeOf
<1>7. ASSUME NEW a \in {Nil} \cup R
      PROVE  HomeOf(s, a) \in {Nil} \cup T /\ a = Was(m, HomeOf(s, a))
  <2>1. CASE a = Nil
    BY <1>6, <2>1 DEF Was
  <2>2. CASE a \in R
    <3>1. HomeOf(s, a) # Nil
      BY <1>2, <2>2, Apart
    <3> QED BY <1>3, <2>2, <3>1 DEF Was
  <2> QED BY <2>1, <2>2
<1>8. /\ \A x \in Root : /\ w.root[x] = At(table, cell[x])
                         /\ At(table, cell[x]) \in {Nil} \cup R
      /\ \A a \in R, f \in Field :
           /\ w.field[a][f] = At(table, Inside(a, f))
           /\ At(table, Inside(a, f)) \in {Nil} \cup R
      /\ DOMAIN w.field = R
  BY <1>1, LpHas
<1>9. ASSUME NEW x \in Root
      PROVE  root'[x] \in {Nil} \cup T /\ w.root[x] = Was(m, root'[x])
  <2>1. cell[x] \in Address /\ Leads(table, G, cell[x])
    BY DEF IInv, Types, OnLpCore
  <2>2. root'[x] = HomeOf(s, At(table, cell[x]))
    BY <2>1, ValueHome
  <2> QED BY <1>7, <1>8, <2>2
<1>10. ASSUME NEW v \in T, NEW f \in Field
       PROVE  o[v].field[f] \in {Nil} \cup T /\ w.field[m[v]][f] = Was(m, o[v].field[f])
  <2>1. m[v] \in R /\ HomeOf(s, m[v]) = v
    BY <1>4
  <2>2. o[v].field[f] = HomeOf(s, At(table, Inside(m[v], f)))
    BY <1>1, <2>1, FieldsHome
  <2> QED BY <1>7, <1>8, <2>1, <2>2
<1> QED BY <1>5, <1>8, <1>9, <1>10 DEF HpShows

\* When a run ends the program sees the same.
LEMMA LeaveSeen ==
  ASSUME ~Misread, ~Misread', IInv, IInv', view = View, view' = View', Paired(table), Leave
  PROVE  Store!Becomes(view)
<1> DEFINE s  == AllTaken
           t  == s.table
           w1 == AllReleased(AllUpdated(s), s.main)
           w2 == GlobalsReceived(w1, t)
           w3 == RegsDropped(RegsBuilt(w2, t))
<1>1. /\ core = "lp" /\ core' = "hp"
      /\ Cardinality({b \in Block : block[b].used /\ Lookup(table, b, NONE) = 0})
           <= Cardinality(FreeObjects(object))
      /\ object' = Dropped(w3.object, w3.buf)
      /\ root' = [x \in Root |->
           IF x \in Reg THEN Result(t, Nil, cell[x])
           ELSE IF Known(t, x) THEN Result(t, root[x], cell[x]) ELSE root[x]]
  BY DEF Leave
<1>2. Types /\ Counted(object, root)
  BY DEF IInv
<1>3. PICK G \in SUBSET Block : OnLpCore(G)
  BY <1>1 DEF IInv
<1>4. Carried(block, table, G) /\ \A x \in Root : Leads(table, G, cell[x])
  BY <1>3 DEF OnLpCore
<1>5. Taking(s, LP, G) /\ Traced(s, LP)
  <2>1. Unmarked(table)
    BY <1>1, RunUnmarked
  <2> QED BY <1>1, <1>2, <1>4, <2>1, AllTakenIs, AllTraced
<1>6. Homing(s, G)
  BY <1>2, <1>4, <1>5 DEF Homing
<1> HIDE DEF s
<1>7. AllKnown(t)
  <2>1. \A x \in Root : cell[x] \in Address
    BY <1>2 DEF Types
  <2> QED BY <1>4, <1>5, <2>1, ValueKnown DEF AllKnown
<1>8. /\ w3 \in Worlds
      /\ Written(w3.object, s, G, HP + LP, FIELDS)
  <2> HIDE DEF w1, w2, w3
  <2>1. w1 = AllReleased(AllUpdated(s), s.main)
    BY DEF w1
  <2>2. w2 = GlobalsReceived(w1, s.table)
    BY DEF w2
  <2>3. w3 = RegsDropped(RegsBuilt(w2, s.table))
    BY DEF w3
  <2>4. /\ Kept(w3, OfRoots(DroppedAt(t, REGS), BuiltAt(t, REGS)))
        /\ Written(w3.object, s, G, HP + LP, FIELDS)
    BY <1>2, <1>4, <1>5, <1>7, <2>1, <2>2, <2>3, RunEnds
  <2> QED BY <2>4 DEF Kept
<1> HIDE DEF w1, w2, w3
<1>9. Fewer(w3.object, object')
  <2>1. w3.object \in ObjectMap
    BY <1>8 DEF Worlds
  <2>2. w3.object \in [Object -> [rc : Int, field : [Field -> {Nil} \cup Object]]]
    BY <2>1 DEF ObjectMap
  <2> QED BY <1>1, <2>2, DroppedFewer
<1>10. \A x \in Root : root'[x] = Value(t, cell[x])
  <2> HIDE DEF t
  <2>1. PICK r : r = root'
    OBVIOUS
  <2>2. r = [x \in Root |->
           IF x \in Reg THEN Result(t, Nil, cell[x])
           ELSE IF Known(t, x) THEN Result(t, root[x], cell[x]) ELSE root[x]]
    BY <1>1, <2>1
  <2>3. \A x \in Root : r[x] = Value(t, cell[x])
    BY <1>2, <1>7, <2>2, RootAfter
  <2> QED BY <2>1, <2>3
<1>11. PICK w : w = view
  OBVIOUS
<1>12. PICK z : z = s
  OBVIOUS
<1>13. PICK o : o = w3.object
  OBVIOUS
<1>14. \E T, m : HpShows(o, w, T, m)
  <2>1. /\ Homing(z, G) /\ Written(o, z, G, HP + LP, FIELDS) /\ Fewer(o, object')
        /\ \A x \in Root : root'[x] = Value(z.table, cell[x])
    BY <1>6, <1>8, <1>9, <1>10, <1>12, <1>13
  <2> QED BY <1>1, <1>3, <1>11, <2>1, LandsSame
<1>15. Store!Same(w, view')
  BY <1>1, <1>14, HpBecomes
<1> QED BY <1>11, <1>15 DEF Store!Becomes

-----------------------------------------------------------------------------
\* Every step is one of the store.

\* On the LP core no two objects have the same copy.
Joined == core = "lp" => Paired(table)

\* The read barrier keeps it so.
LEMMA ServedPairs ==
  ASSUME IInv, core = "lp", Paired(table),
         NEW v \in Object, InTable(table, v), Answers(v),
         NEW w, w = Served(Sent, v)
  PROVE  Paired(w.table)
<1>1. CASE CopyOf(table, v) # Nil
  BY <1>1 DEF Served, Sent
<1>2. CASE CopyOf(table, v) = Nil
  <2>1. Types /\ Counted(object, root)
    BY DEF IInv
  <2>2. PICK G \in SUBSET Block : OnLpCore(G)
    BY DEF IInv
  <2>3. Carried(block, table, G)
    BY <2>2 DEF OnLpCore
  <2>4. Sent \in World /\ Sent.table = table /\ Sent.block = block
    BY <2>1, <2>3 DEF Sent, World, Types, Carried, Entered
  <2>5. FreeBlocks(Sent) # {}
    BY <1>2 DEF Answers
  <2>6. \E b, e : Copies(Sent, v, b, e, w)
    <3>1. Carried(Sent.block, Sent.table, G) /\ InTable(Sent.table, v)
          /\ CopyOf(Sent.table, v) = Nil /\ w = Served(Sent, v) /\ object[v].rc > 0
      BY <1>2, <2>3, <2>4, AskedAlive
    <3> QED BY <2>1, <2>4, <2>5, <3>1, ServedCopies
  <2>7. PICK b, e : Copies(Sent, v, b, e, w)
    BY <2>6
  <2>8. CopyMade(Sent, w, v, b)
    BY <1>2, <2>1, <2>3, <2>4, <2>7, CopyMakes
  <2> QED BY <2>4, <2>8 DEF CopyMade
<1> QED BY <1>1, <1>2

\* A read of the LP core leaves the objects and their copies joined.
LEMMA LoadJoins ==
  ASSUME IInv, Joined, NEW r \in Reg, NEW g \in Global, LpGetGlobal(r, g)
  PROVE  Paired(table')
<1>0. PICK v : v = cell[g]
  OBVIOUS
<1>1. core = "lp" /\ Paired(table) /\ g \in Root
  BY Apart DEF LpGetGlobal, OnLp, Joined
<1>2. CASE v \in Object
  <2>1. Answers(v) /\ table' = Served(Sent, v).table
    BY <1>0, <1>2 DEF LpGetGlobal
  <2>2. PICK G \in SUBSET Block : \A x \in Root : Leads(table, G, cell[x])
    BY <1>1, Has
  <2>3. InTable(table, v)
    BY <1>0, <1>1, <1>2, <2>2 DEF Leads
  <2> QED BY <1>1, <1>2, <2>1, <2>3, ServedPairs
<1>3. CASE v \notin Object
  BY <1>0, <1>1, <1>3 DEF LpGetGlobal
<1> QED BY <1>2, <1>3

\* And so does the read of an instance variable.
LEMMA FetchJoins ==
  ASSUME IInv, Joined, NEW r \in Reg, NEW q \in Reg, NEW f \in Field, LpGetIv(r, q, f)
  PROVE  Paired(table')
<1>0. PICK u, v : u = cell[q] /\ v = block[u].word[f]
  OBVIOUS
<1>1. core = "lp" /\ Paired(table) /\ u # Nil
  BY <1>0 DEF LpGetIv, OnLp, Joined
<1>2. CASE v \in Object
  <2>1. Answers(v) /\ table' = Served(Sent, v).table
    BY <1>0, <1>2 DEF LpGetIv
  <2>2. PICK G \in SUBSET Block :
          /\ Carried(block, table, G)
          /\ cell \in [Root -> Address] /\ block \in BlockMap
          /\ \A x \in Reg : x \in Root /\ cell[x] \in {Nil} \cup G
    BY <1>1, Has
  <2>3. u \in G
    BY <1>0, <1>1, <2>2
  <2>4. InTable(table, v)
    BY <1>0, <1>2, <2>2, <2>3 DEF Carried, Leads
  <2> QED BY <1>1, <1>2, <2>1, <2>4, ServedPairs
<1>3. CASE v \notin Object
  BY <1>0, <1>1, <1>3 DEF LpGetIv
<1> QED BY <1>2, <1>3

\* Every step keeps objects and copies joined.
LEMMA JoinedKeeps ==
  ASSUME IInv, Joined, [Next]_vars
  PROVE  Joined'
<1>1. CASE core' = core /\ table' = table
  BY <1>1 DEF Joined, Paired
<1>2. CASE HpAct \/ HpClear
  BY <1>1, <1>2 DEF HpAct, HpClear, HpNew, HpNil, HpMove, HpGetIv, HpSetIv, OnHp
<1>3. CASE Enter
  <2>1. Paired(table')
    BY <1>3, EnterIs DEF EnterShows
  <2> QED BY <2>1 DEF Joined, Paired
<1>4. CASE Leave
  BY <1>4 DEF Leave, Joined
<1>5. CASE LpCollect
  BY <1>1, <1>5 DEF LpCollect, Quiet
<1>6. ASSUME NEW r \in Reg, NEW g \in Global, LpGetGlobal(r, g) PROVE Joined'
  <2>1. Paired(table')
    BY <1>6, LoadJoins
  <2> QED BY <2>1 DEF Joined, Paired
<1>7. ASSUME NEW r \in Reg, NEW q \in Reg, NEW f \in Field, LpGetIv(r, q, f) PROVE Joined'
  <2>1. Paired(table')
    BY <1>7, FetchJoins
  <2> QED BY <2>1 DEF Joined, Paired
<1>8. CASE LpAct
  BY <1>1, <1>6, <1>7, <1>8 DEF LpAct, LpNew, LpNil, LpMove, LpSetIv, Quiet
<1>9. CASE UNCHANGED vars
  BY <1>1, <1>9 DEF vars, state
<1>10. CASE Step
  <2>1. HpAct \/ LpAct \/ HpClear \/ Enter \/ Leave \/ LpCollect
    BY <1>10 DEF Step, HpAct, LpAct
  <2> QED BY <1>2, <1>3, <1>4, <1>5, <1>8, <2>1
<1> QED BY <1>9, <1>10 DEF Next

\* The program starts with nothing.
LEMMA StoreStarts == Init => Store!Init
<1> SUFFICES ASSUME Init PROVE Store!Init
  OBVIOUS
<1>1. IInv /\ core = "hp" /\ view = View /\ \A x \in Root : root[x] = Nil
  BY InitHolds DEF Init
<1>2. HpSees /\ Found /\ DOMAIN Roots = Root
  BY <1>1, HpSeesIs, FoundIs, ViewIs
<1>3. \A x \in Root : Roots[x] = Nil
  BY <1>1, <1>2 DEF HpSees
<1>4. Closes({})
  BY <1>3 DEF Closes
<1>5. Reached = {}
  BY <1>2, <1>4 DEF Found
<1>6. Roots = [x \in Root |-> Nil]
  BY <1>3 DEF Roots
<1>7. view.root = Roots /\ view.field = [a \in {} |-> Held(a)]
  BY <1>1, <1>5 DEF View
<1>8. [a \in {} |-> Held(a)] = [a \in {} |-> Store!Blank]
  OBVIOUS
<1>9. view = [root |-> Roots, field |-> [a \in {} |-> Store!Blank]]
  BY <1>1, <1>5, <1>8 DEF View
<1> QED BY <1>6, <1>9 DEF Store!Init, Store!Nil, Nil

\* Every step is one of the store, or nothing the program sees.
LEMMA StoreFollows ==
  ASSUME ~Misread, ~Misread', IInv, IInv', Joined, view = View, [Next]_vars
  PROVE  [Store!Next]_view
<1>1. CASE UNCHANGED vars
  BY <1>1 DEF vars
<1>2. CASE Next
  <2>1. view' = View' /\ (HpAct \/ LpAct \/ HpClear \/ Enter \/ Leave \/ LpCollect)
    BY <1>2 DEF Next, Step, HpAct, LpAct
  <2>2. CASE HpAct \/ HpClear
    BY <2>1, <2>2, HpFollows
  <2>3. CASE LpAct \/ LpCollect
    BY <2>1, <2>3, LpFollows
  <2>4. CASE Enter
    BY <2>1, <2>4, EnterSeen DEF Store!Next
  <2>5. CASE Leave
    <3>1. Paired(table)
      BY <2>5 DEF Leave, Joined
    <3> QED BY <2>1, <2>5, <3>1, LeaveSeen DEF Store!Next
  <2> QED BY <2>1, <2>2, <2>3, <2>4, <2>5
<1> QED BY <1>1, <1>2

\* The view is worked out in every state.
LEMMA ViewKeeps ==
  ASSUME IInv, IInv', view = View, [Next]_vars
  PROVE  (view = View)'
<1>1. CASE Next
  BY <1>1 DEF Next
<1>2. CASE UNCHANGED vars
  <2>1. /\ core' = core /\ root' = root /\ object' = object /\ view' = view
        /\ cell' = cell /\ block' = block /\ table' = table
    BY <1>2 DEF vars, state
  <2>2. \A a : Place(a)' = Place(a)
    BY <2>1 DEF Place
  <2>3. Roots' = Roots /\ \A a : Held(a)' = Held(a)
    BY <2>1 DEF Roots, Held, Place
  <2>4. Reached' = Reached
    <3>1. PICK R, Q : R = Reached /\ Q = Reached'
      OBVIOUS
    <3>2. Found /\ Found'
      BY FoundIs, FoundNext
    <3>3. \A T : Closes(T)' <=> Closes(T)
      BY <2>3 DEF Closes
    <3>4. Closes(R) /\ \A T : Closes(T) => R \subseteq T
      BY <3>1, <3>2 DEF Found
    <3>5. Closes(Q)' /\ \A T : Closes(T)' => Q \subseteq T
      BY <3>1, <3>2 DEF Found
    <3>6. R \subseteq Q /\ Q \subseteq R
      BY <3>3, <3>4, <3>5
    <3> QED BY <3>1, <3>6
  <2>5. View' = View
    BY <2>3, <2>4 DEF View
  <2> QED BY <2>1, <2>5
<1> QED BY <1>1, <1>2

\* On whichever core the program runs, and however it moves between them, it
\* sees the same objects with the same values, but for runs that treat a nil as
\* the object whose address it kept.
THEOREM ObjectsAreSame == Spec => SameUnlessMisread
<1>1. Init => IInv /\ Joined /\ view = View
  <2>1. Init => Joined
    BY DEF Init, Joined
  <2> QED BY <2>1, InitHolds DEF Init
<1>2. (IInv /\ Joined /\ view = View) /\ [Next]_vars
        => (IInv /\ Joined /\ view = View)' /\ [Store!Next \/ Misread \/ Misread']_view
  <2> SUFFICES ASSUME IInv, Joined, view = View, [Next]_vars
               PROVE  /\ (IInv /\ Joined /\ view = View)'
                      /\ [Store!Next \/ Misread \/ Misread']_view
    OBVIOUS
  <2>1. IInv'
    BY NextKeeps
  <2>2. Joined'
    BY JoinedKeeps
  <2>3. (view = View)'
    BY <2>1, ViewKeeps
  <2>4. ~Misread /\ ~Misread' => [Store!Next]_view
    BY <2>1, StoreFollows
  <2> QED BY <2>1, <2>2, <2>3, <2>4
<1>3. Init => Store!Init
  BY StoreStarts
<1> QED BY <1>1, <1>2, <1>3, PTL DEF Spec, SameUnlessMisread
=============================================================================
