----------------------------- MODULE CoproHeap -----------------------------
(***************************************************************************)
(* The heap of the LP core, mrbc_gc_space: one area of LP memory that both *)
(* cores allocate in and both collect.  The LP core allocates the objects  *)
(* its program makes (gc.c); the HP core allocates machine code, cells of  *)
(* global variables and the copies of HP objects the LP program uses       *)
(* (gc.copro.c), and empties the heap when the program is back on the HP   *)
(* core (objman.c).                                                        *)
(*                                                                         *)
(* The area holds classes of equal slots, with a used, a frozen and a      *)
(* marked bit per slot, and a class of 32-byte units for bigger blocks,    *)
(* which has a start bit too.  One class of slots stands for the three of  *)
(* the code: they differ in the size of a slot only, and a request goes to *)
(* the next class when one is full.  Marked bits are all zero outside a    *)
(* collection and are not kept here.                                       *)
(*                                                                         *)
(* While the HP core serves a request the LP core waits for it (see        *)
(* CoproMailbox), so the two never run at once.                            *)
(***************************************************************************)
EXTENDS Integers, FiniteSets

CONSTANTS
  WORD,          \* 32, bits of a word of a bitmap
  SLOTS,         \* slots of the class of small blocks
  UNITS,         \* units of the class of bigger blocks
  SKIP,          \* 4, slots the walk over frozen blocks passes for a zero word
  MaxLen,        \* bound of the model: units of a block
  FIELDS         \* bound of the model: pointers to LP memory in a block

ASSUME HeapAssumption ==
  /\ WORD \in Nat \ {0}
  /\ SLOTS \in Nat
  /\ UNITS \in Nat
  /\ SKIP \in 1 .. WORD
  /\ MaxLen \in Nat \ {0}
  /\ FIELDS \in Nat

Small == 0 .. SLOTS - 1
Big   == SLOTS .. SLOTS + UNITS - 1
Addr  == 0 .. SLOTS + UNITS - 1

VARIABLES
  core,      \* who runs: "hp", "lp", or "crashed" after a write to NULL
  used,      \* used bits
  start,     \* start bits of the bigger blocks
  frozen,    \* frozen bits
  len,       \* length of the block last allocated at an address
  points,    \* what the fields of the block at an address point to
  code,      \* blocks of machine code
  globals,   \* blocks of cells of global variables
  given,     \* blocks the address table of the HP core knows
  roots,     \* blocks the registers and the stack of the LP program point to
  lost       \* history: a collection took what the code gives it no way to keep

vars ==
  <<core, used, start, frozen, len, points, code, globals, given, roots, lost>>

-----------------------------------------------------------------------------
\* Allocation.

\* What mrbc_get_head accepts as a pointer: a used slot, or a used unit
\* with its start bit set.
HeadsOf(b) == b.used \cap (Small \cup b.start)

Now == [used |-> used, start |-> start]

Heads == HeadsOf(Now)

Span(h, n) == h .. h + n - 1

First(S) == {a \in S : \A b \in S : a <= b}

\* Mutants of Place: a class one unit longer than its memory, and a search
\* that looks at the first unit of a run only.
PlacePastEnd(n, u) ==
  First({a \in Small : n = 1 /\ a \notin u} \cup
        {a \in Big : a + n <= SLOTS + UNITS + 1 /\ Span(a, n) \cap u = {}})

PlaceFirstUnit(n, u) ==
  First({a \in Small : n = 1 /\ a \notin u} \cup
        {a \in Big : a + n <= SLOTS + UNITS /\ a \notin u})

\* Where a block of n units goes when u are in use: a block of one unit, 32
\* bytes or less, in the first free slot; any other, or when no slot is
\* free, at the first free run of units.  Empty for NULL.
Place(n, u) ==
  First({a \in Small : n = 1 /\ a \notin u} \cup
        {a \in Big : a + n <= SLOTS + UNITS /\ Span(a, n) \cap u = {}})

\* The bitmaps become b, the lengths and the fields of the blocks l and p.
\* What a freed block holds is not kept.
Set(b, l, p) ==
  /\ used' = b.used
  /\ start' = b.start
  /\ len' = [a \in Addr |-> IF a \in HeadsOf(b) THEN l[a] ELSE 1]
  /\ points' = [a \in Addr |-> IF a \in HeadsOf(b) THEN p[a] ELSE {}]

\* The bits for a block of n units at h are set in the bitmaps b.
Take(b, h, n, p) ==
  Set([used |-> b.used \cup Span(h, n), start |-> b.start \cup ({h} \cap Big)],
      [len EXCEPT ![h] = n], p)

-----------------------------------------------------------------------------
\* Collection.

\* The words of the bitmap f, all of them before a, that are zero.
ZeroWords(f, a) ==
  {w \in 0 .. a : (w + 1) * WORD <= a /\ Span(w * WORD, WORD) \cap f = {}}

\* The addresses the walk over the frozen bits f of a class takes for the
\* frozen blocks: it moves SKIP slots on for a zero word, not WORD.
Walk(f) == {a - (WORD - SKIP) * Cardinality(ZeroWords(f, a)) : a \in f}

FrozenWalk ==
  Walk(frozen \cap Small) \cup
  {SLOTS + a : a \in Walk({b - SLOTS : b \in frozen \cap Big})}

\* The blocks of H that the pointers P lead to, when p is what fields point
\* to: the least set that has P and is closed under p.
Least(P, H, p) ==
  LET closed == {S \in {P \cup T : T \in SUBSET (H \ P)} :
                   \A b \in S : p[b] \cap H \subseteq S}
  IN  {a \in H : \A S \in closed : a \in S}

From(P) == Least(P, Addr, points)

\* What mrbc_gc_mark marks from the pointers P: words that are no head are
\* passed over.
Marked(P) == Least(P \cap Heads, Heads, points)

\* Mutant of Swept: a unit lives with any kept block before it.
SweptLate(small, heads) ==
  [used |-> small \cup {u \in used \cap Big : \E s \in heads : s <= u},
   start |-> heads]

\* The bitmaps after a sweep that keeps the slots small and the bigger
\* blocks that start at heads: a unit lives with the last start bit at or
\* before it.
Swept(small, heads) ==
  [used |-> small \cup
            {u \in used \cap Big :
               \E s \in heads : s <= u /\ \A t \in start : t <= u => t <= s},
   start |-> heads]

\* mrbc_gc_gc on the LP core.  The stack holds old words too, and so do the
\* fields of a new block: stray is what those happen to point to.
LpCollected(stray) ==
  LET m == Marked(roots \cup stray \cup FrozenWalk)
  IN  Swept(m \cap Small, start \cap (m \cup frozen))

\* mrbcopro_gc_gc on the HP core sweeps without marking.
HpCollected == Swept(frozen \cap Small, start \cap frozen)

\* The bitmaps a search for n units meets, after the collection if there is one;
\* a stray word makes a difference only where it is not found anyway.
LpBitmaps(n) ==
  IF Place(n, used) # {} THEN {Now}
  ELSE {LpCollected(stray) :
          stray \in SUBSET (Heads \ (roots \cup FrozenWalk))}

HpBitmaps(n) == IF Place(n, used) # {} THEN Now ELSE HpCollected

-----------------------------------------------------------------------------
\* What has to be kept.

\* Blocks the program can still use: what the registers and the stack of the
\* LP program, the address table of the HP core and, while the program is on
\* the LP core, its global variables lead to; and the blocks the machine code
\* of the program has the addresses of.
Seeds == roots \cup given \cup (IF core = "lp" THEN globals ELSE {})

Live == From(Seeds) \cup code \cup globals

\* A collection on the LP core that does not walk over all frozen blocks, and
\* one on the HP core while a block that is not frozen is in use.
LpLoses(n) == Place(n, used) = {} /\ ~(frozen \subseteq FrozenWalk)
HpLoses(n) == Place(n, used) = {} /\ ~(Live \subseteq frozen)

-----------------------------------------------------------------------------
\* The HP core, before the program goes on on the LP core.

\* The fields of a new block, some of them pointers to blocks in S.
Fields(S) == {t \in SUBSET S : Cardinality(t) <= FIELDS}

Init ==
  /\ core = "hp"
  /\ used = {} /\ start = {} /\ frozen = {}
  /\ len = [a \in Addr |-> 1]
  /\ points = [a \in Addr |-> {}]
  /\ code = {} /\ globals = {} /\ given = {} /\ roots = {}
  /\ lost = FALSE

\* mrbcopro_gc_alloc with special = 0.
HpTake(n, h, p) ==
  /\ h \in Place(n, HpBitmaps(n).used)
  /\ Take(HpBitmaps(n), h, n, p)
  /\ frozen' = frozen \cup {h}

\* A basic block is compiled; when there is no room this raises an exception.
HpAddCode(n, h) ==
  /\ core = "hp"
  /\ HpTake(n, h, [points EXCEPT ![h] = {}])
  /\ code' = code \cup {h}
  /\ UNCHANGED <<core, globals, given, roots, lost>>

\* Cells for global variables.
HpAddGlobals(h) ==
  /\ core = "hp"
  /\ HpTake(1, h, [points EXCEPT ![h] = {}])
  /\ globals' = globals \cup {h}
  /\ UNCHANGED <<core, code, given, roots, lost>>

\* An object in a register of the program is copied; of the objects it holds
\* the copy points to those copied before, and to the HP memory for others.
HpSend(n, h) ==
  /\ core = "hp"
  /\ \E t \in Fields(given) : HpTake(n, h, [points EXCEPT ![h] = t])
  /\ given' = given \cup {h}
  /\ roots' = roots \cup {h}
  /\ UNCHANGED <<core, code, globals, lost>>

\* The cells of global variables are filled and the LP core starts.
HpRun ==
  /\ core = "hp"
  /\ \E t \in [globals -> Fields(given)] :
       points' = [a \in Addr |-> IF a \in globals THEN t[a] ELSE points[a]]
  /\ core' = "lp"
  /\ UNCHANGED <<used, start, frozen, len, code, globals, given, roots, lost>>

-----------------------------------------------------------------------------
\* The program on the LP core.  The data of the program have no cycles.

Reachable == roots \cup globals

Program == <<core, used, start, frozen, len, code, globals, given, lost>>

LpNew(n, h) ==
  /\ core = "lp"
  /\ \E b \in LpBitmaps(n) :
       h \in Place(n, b.used) /\ Take(b, h, n, [points EXCEPT ![h] = {}])
  /\ roots' = roots \cup {h}
  /\ lost' = (lost \/ LpLoses(n))
  /\ UNCHANGED <<core, frozen, code, globals, given>>

\* object_new writes the header of the object to the address NULL.  What the
\* collection before did no longer matters.
LpExhausted(n) ==
  /\ core = "lp"
  /\ \E b \in LpBitmaps(n) : Place(n, b.used) = {}
  /\ core' = "crashed"
  /\ UNCHANGED <<used, start, frozen, len, points, code, globals, given, roots, lost>>

LpLoad(a, b) ==
  /\ core = "lp" /\ a \in Reachable /\ b \in points[a]
  /\ roots' = roots \cup {b}
  /\ UNCHANGED <<Program, points>>

LpStore(a, b) ==
  /\ core = "lp" /\ a \in Reachable /\ b \in roots /\ a \notin From({b})
  /\ points[a] \cup {b} \in Fields(Addr)
  /\ points' = [points EXCEPT ![a] = @ \cup {b}]
  /\ UNCHANGED <<Program, roots>>

LpErase(a, b) ==
  /\ core = "lp" /\ a \in Reachable /\ b \in points[a]
  /\ points' = [points EXCEPT ![a] = @ \ {b}]
  /\ UNCHANGED <<Program, roots>>

LpDrop(a) ==
  /\ core = "lp" /\ a \in roots
  /\ roots' = roots \ {a}
  /\ UNCHANGED <<Program, points>>

\* The program reads a field of o that points to HP memory: the HP core
\* copies the object, and the field is replaced by the pointer to the copy.
\* When the heap is full the HP core sweeps it with no block marked.
HpServe(o, n, h) ==
  /\ core = "lp" /\ o \in Reachable
  /\ Cardinality(points[o]) < FIELDS
  /\ \E t \in Fields(given) :
       /\ o \notin From(t)
       /\ HpTake(n, h, [[points EXCEPT ![h] = t] EXCEPT ![o] = @ \cup {h}])
  /\ given' = given \cup {h}
  /\ roots' = roots \cup {h}
  /\ lost' = (lost \/ HpLoses(n))
  /\ UNCHANGED <<core, code, globals>>

\* The object has been copied before: the address table has its address.
HpServeAgain(o, h) ==
  /\ core = "lp" /\ o \in Reachable /\ h \in given /\ o \notin From({h})
  /\ points[o] \cup {h} \in Fields(Addr)
  /\ points' = [points EXCEPT ![o] = @ \cup {h}]
  /\ roots' = roots \cup {h}
  /\ UNCHANGED Program

\* Neither objman_to4 nor objman_to2 looks at what the allocation returned.
HpExhausted(n) ==
  /\ core # "crashed"
  /\ Place(n, HpBitmaps(n).used) = {}
  /\ core' = "crashed"
  /\ UNCHANGED <<used, start, frozen, len, points, code, globals, given, roots, lost>>

-----------------------------------------------------------------------------
\* Back on the HP core.

\* Frozen bits after objman_receive went over all blocks: it inverts the bit
\* of each, but for code and cells of global variables.
Inverted ==
  LET inverted == Heads \ (code \cup globals)
  IN  (frozen \ inverted) \cup (inverted \ frozen)

\* The program leaves the LP core: objman_receive copies all objects back,
\* and objman_cleanup forgets their addresses.
HpReceive ==
  /\ core = "lp"
  /\ core' = "hp"
  /\ frozen' = Inverted
  /\ Set(Swept(Inverted \cap Small, start \cap Inverted), len, points)
  /\ given' = {} /\ roots' = {}
  /\ UNCHANGED <<code, globals, lost>>

\* sleep_and_run returns: mrbcopro_gc_clear.
HpClear ==
  /\ core = "hp"
  /\ Set([used |-> {}, start |-> {}], len, points)
  /\ frozen' = {}
  /\ code' = {} /\ globals' = {} /\ given' = {} /\ roots' = {}
  /\ UNCHANGED <<core, lost>>

Next ==
  \/ \E n \in 1 .. MaxLen, h \in Addr :
       HpAddCode(n, h) \/ HpSend(n, h) \/ LpNew(n, h)
  \/ \E h \in Addr : HpAddGlobals(h)
  \/ \E n \in 1 .. MaxLen : LpExhausted(n) \/ HpExhausted(n)
  \/ \E a \in Addr, b \in Addr :
       LpLoad(a, b) \/ LpStore(a, b) \/ LpErase(a, b) \/ HpServeAgain(a, b)
  \/ \E a \in Addr : LpDrop(a)
  \/ \E o \in Addr, n \in 1 .. MaxLen, h \in Addr : HpServe(o, n, h)
  \/ HpRun \/ HpReceive \/ HpClear

Spec == Init /\ [][Next]_vars

-----------------------------------------------------------------------------
\* The types of the variables.
TypeOK ==
  /\ core \in {"hp", "lp", "crashed"}
  /\ used \subseteq Addr
  /\ start \subseteq Big
  /\ frozen \subseteq Addr
  /\ len \in [Addr -> 1 .. MaxLen]
  /\ points \in [Addr -> SUBSET Addr]
  /\ code \subseteq Addr
  /\ globals \subseteq Addr
  /\ given \subseteq Addr
  /\ roots \subseteq Addr
  /\ lost \in BOOLEAN

Extent(h) == Span(h, len[h])

\* The bitmaps say which blocks there are: a block in use has all of its
\* units, no other block begins inside it, and no unit is in use without one.
\* The sweeps follow start bits over used bits to keep this so.
BlocksIntact ==
  /\ \A h \in Heads : Extent(h) \subseteq used /\ Extent(h) \cap Heads = {h}
  /\ \A u \in used : \E h \in Heads : u \in Extent(h)

\* No collection, on either core, takes a block the program can still use.
LiveIsUsed == Live \subseteq Heads

LiveUnits == UNION {Extent(h) : h \in Live}

\* An allocation, and the collection it may begin with, never hands out
\* memory of a block the program can still use, until one of the two
\* collections that cannot keep it: on the LP core over frozen blocks the walk
\* misses, and on the HP core, in a request, while a block is in use that is
\* not frozen.
NothingLiveIsTaken ==
  ~lost =>
    LET live == LiveUnits
    IN  \A n \in 1 .. MaxLen :
          \A b \in (IF core = "lp" /\ ~LpLoses(n) THEN LpBitmaps(n) ELSE {}) \cup
                   (IF core = "hp" \/ ~HpLoses(n) THEN {HpBitmaps(n)} ELSE {}) :
            \A h \in Place(n, b.used) : Span(h, n) \cap live = {}

\* A frozen block is not freed: mrbc_gc_mark_frozen_objects marks it.
FrozenStays == frozen \subseteq Heads
=============================================================================
