---------------------------- MODULE CoproObjects ----------------------------
(***************************************************************************)
(* The objects of a program that moves between the cores: the object       *)
(* manager (objman.c), the address table (addrtransman.c), the global      *)
(* variables (globalman.c) and the part of execute_on_ulp, stack.c and the *)
(* read barrier that hands values over.                                    *)
(*                                                                         *)
(* On the HP core objects are counted references.  When a run on the LP    *)
(* core starts, the objects in registers are copied to blocks of the heap  *)
(* of the LP core; what they and the global variables hold stays a pointer *)
(* to HP memory until the program reads it, which makes the HP core copy   *)
(* that object too.  When the run ends every block is taken over into the  *)
(* object it is a copy of, or into a new one, and the blocks are swept.    *)
(*                                                                         *)
(* An address is a number: 0 is nil, then come the objects of the HP core, *)
(* then the blocks of the LP core in the order the walks go over them.     *)
(* Which block an allocation takes, and how a collection marks, is in      *)
(* CoproHeap; how the cores wait for one another is in CoproMailbox.       *)
(***************************************************************************)
EXTENDS Integers, FiniteSets, SequencesExt

CONSTANTS
  HP,        \* objects there is room for on the HP core
  LP,        \* blocks of the LP core
  FIELDS,    \* instance variables of an object
  REGS,      \* registers of the program
  GLOBALS,   \* global variables of the program
  MADE       \* objects there are at a time that the LP core made

ASSUME ObjectsAssumption == {HP, LP, FIELDS, REGS, GLOBALS, MADE} \subseteq Nat

Object == 1 .. HP
Block  == HP + 1 .. HP + LP
Field  == 1 .. FIELDS
Reg    == 1 .. REGS
Global == REGS + 1 .. REGS + GLOBALS
Root   == Reg \cup Global

Nil == 0

NONE == -1   \* an address no entry has

VARIABLES
  core,      \* where the program is
  root,      \* registers and global variables in HP memory
  payload,   \* what the global variables had as their payload when the run began
  object,    \* objects of the HP core; rc is 0 where there is none
  cell,      \* registers of the LP core, and the cells of global variables
  block,     \* blocks of the LP core
  table,     \* translation_table
  view       \* what the program sees: View, kept to be worked out once

state == <<core, root, payload, object, cell, block, table>>
vars  == <<state, view>>

Blank == [f \in Field |-> Nil]

\* Free memory; what was in it is never read.
NoObject == [rc |-> 0, field |-> Blank]
NoBlock  == [used |-> FALSE, frozen |-> FALSE, word |-> Blank]

Smallest(S) == CHOOSE n \in S : \A k \in S : n <= k

\* What a becomes by the steps Op(_, 1), .., Op(_, n).
Folded(Op(_, _), a, n) ==
  LET at[i \in 0 .. n] == IF i = 0 THEN a ELSE Op(at[i - 1], i) IN at[n]

-----------------------------------------------------------------------------
\* The address table.

\* mrbcopro_addrtrans_get: the first entry with either address.
Lookup(t, copro, main) ==
  LET found == {i \in DOMAIN t : t[i].copro = copro \/ t[i].main = main}
  IN  IF found = {} THEN 0 ELSE Smallest(found)

RegisterType(t, main, ty) ==
  LET i == Lookup(t, NONE, main)
  IN  IF i # 0 THEN [t EXCEPT ![i].ty = ty]
      ELSE Append(t, [copro |-> Nil, main |-> main, ty |-> ty])

\* Mutant of Register: the addresses are swapped.
RegisterSwapped(t, copro, main, ty) ==
  Append(t, [copro |-> main, main |-> copro, ty |-> ty])

Register(t, copro, main, ty) ==
  LET i == Lookup(t, copro, main)
      e == [copro |-> copro, main |-> main, ty |-> ty]
  IN  IF i # 0 THEN [t EXCEPT ![i] = e] ELSE Append(t, e)

\* It finds an entry that has not been sent as well, and then nothing is
\* known of main.
ToCopro(t, main) ==
  LET i == Lookup(t, Nil, main) IN IF i = 0 THEN Nil ELSE t[i].copro

\* Where the copy of an object is.
CopyOf(t, main) ==
  LET i == Lookup(t, NONE, main) IN IF i = 0 THEN Nil ELSE t[i].copro

-----------------------------------------------------------------------------
\* Reference counts of the HP core.

Incref(o, v) == IF v = Nil THEN o ELSE [o EXCEPT ![v].rc = @ + 1]

\* The next mrbc_decref of those still to be done: of v it is s.due[v] times.
\* An object whose count becomes zero is freed, and what it holds is due.
Decref(s, i) ==
  LET v == Smallest({u \in Object : s.due[u] > 0})
      rest == [s.due EXCEPT ![v] = @ - 1]
      held == [u \in Object |-> Cardinality({f \in Field : s.object[v].field[f] = u})]
  IN  IF \A u \in Object : s.due[u] = 0 THEN s
      ELSE IF s.object[v].rc > 1
      THEN [object |-> [s.object EXCEPT ![v].rc = @ - 1], due |-> rest]
      ELSE [object |-> [s.object EXCEPT ![v] = NoObject],
            due    |-> [u \in Object |-> rest[u] + held[u]]]

\* mrbc_decref of each address in S, with all that follows: an object is freed
\* once at most, so the steps are enough, and their order makes no difference.
Dropped(o, S) ==
  LET start == [object |-> o, due |-> [v \in Object |-> IF v \in S THEN 1 ELSE 0]]
  IN  Folded(Decref, start, HP + HP * FIELDS).object

\* mrbcopro_objman_safe_decref: the last reference is kept in decref_buf until
\* the end, for the object may be referred to again by then.
SafeDecref(w, v) ==
  IF v = Nil \/ v \in w.buf THEN w
  ELSE IF w.object[v].rc = 1 THEN [w EXCEPT !.buf = @ \cup {v}]
  ELSE [w EXCEPT !.object = Dropped(@, {v})]

-----------------------------------------------------------------------------
\* To the LP core.  The blocks and the table are what a copy changes.

Sent == [block |-> block, table |-> table]

FreeBlocks(w) == {b \in Block : ~w.block[b].used}

\* Mutant of Typed: the object gets no entry.
TypedNot(t, v) == t

\* mrbcopro_objman_to2, the word for the value v, and what the table is then.
Typed(t, v) == IF v = Nil THEN t ELSE RegisterType(t, v, "object")

Word(t, v) ==
  LET c == IF v = Nil THEN Nil ELSE ToCopro(t, v) IN IF c = Nil THEN v ELSE c

\* Mutant of Copied: the copy is not frozen.
CopiedLoose(w, v, b) ==
  [w EXCEPT !.block[b] = [used |-> TRUE, frozen |-> FALSE, word |-> object[v].field]]

\* mrbcopro_objman_to4 of the object v, into the block b: its instance
\* variables f one by one.
FieldCopied(w, v, b, f) ==
  LET x == object[v].field[f]
      t == Typed(w.table, x)
  IN  [block |-> [w.block EXCEPT ![b].word[f] = Word(t, x)], table |-> t]

\* The block b is allocated for a copy.
Allocated(w, b) ==
  [w EXCEPT !.block[b] = [used |-> TRUE, frozen |-> TRUE, word |-> Blank]]

Copied(w, v, b) ==
  Folded(LAMBDA u, f : FieldCopied(u, v, b, f), Allocated(w, b), FIELDS)

\* mrbcopro_objman_to3, for the register r: the copy there is or a new one.
WithCopy(w, r) ==
  LET v == root[r]
      b == Smallest(FreeBlocks(w))
      u == Copied(w, v, b)
  IN  IF v = Nil \/ CopyOf(w.table, v) # Nil THEN w
      ELSE [u EXCEPT !.table = Register(@, b, v, "object")]

\* mrbcopro_objman_to, for a read of the LP core.  The entry is there, and it
\* stays where it is: the table is not moved as it grows (it has room for five
\* entries from the start), or else the entry would keep the address 0.
Served(w, v) ==
  LET b == Smallest(FreeBlocks(w))
      u == Copied(w, v, b)
  IN  IF CopyOf(w.table, v) # Nil THEN w
      ELSE [u EXCEPT !.table[Lookup(w.table, NONE, v)].copro = b]

\* mrbcopro_globalman_send of the variable g with the payload p.  There is no
\* case for nil: what its payload points to is sent, or an entry of no object.
GlobalSent(t, g, p) ==
  IF ToCopro(t, p) # Nil THEN t
  ELSE RegisterType(t, p, IF root[g] = Nil THEN "nil" ELSE "object")

\* The tables in the course of it, with the payloads p.
GlobalsSent(t, p) ==
  LET u[i \in 0 .. GLOBALS] ==
        IF i = 0 THEN t ELSE GlobalSent(u[i - 1], REGS + i, p[REGS + i])
  IN  u

-----------------------------------------------------------------------------
\* Back on the HP core.

FreeObjects(o) == {v \in Object : o[v].rc = 0}

\* First pass of mrbcopro_objman_receive, for the block b = HP + i: main[b] is
\* the object it is a copy of, or a new one.
Taken(w, i) ==
  LET b == HP + i
      k == Lookup(w.table, b, NONE)
      v == IF k = 0 THEN Smallest(FreeObjects(w.object)) ELSE w.table[k].main
      o == IF k = 0 THEN [w.object EXCEPT ![v].rc = 1] ELSE w.object
  IN  IF ~block[b].used \/ (k # 0 /\ w.table[k].ty = "nil") THEN w
      ELSE [object |-> Incref(o, v),
            table  |-> Register(w.table, b, v, "object"),
            main   |-> [w.main EXCEPT ![b] = v]]

NoneTaken == [object |-> object, table |-> table, main |-> [b \in Block |-> Nil]]

AllTaken == Folded(Taken, NoneTaken, LP)

\* The frozen bit of a block that was taken is inverted, and the sweep frees
\* what is not frozen.
Swept(main) ==
  [b \in Block |-> IF block[b].frozen # (main[b] # Nil)
                   THEN [block[b] EXCEPT !.frozen = TRUE] ELSE NoBlock]

\* The value of the word x; NONE when the table does not know it.
Value(t, x) ==
  LET i == Lookup(t, x, x)
  IN  IF x = Nil THEN Nil
      ELSE IF i = 0 THEN NONE
      ELSE IF t[i].ty = "nil" THEN Nil ELSE t[i].main

\* Mutant of Translated: the new value is not counted.
TranslatedUncounted(w, t, v, x) == SafeDecref(w, v)

\* mrbcopro_objman_translate_from_copro: the references change for a variable
\* that held v and gets the word x.  The state is that of the objects and of
\* decref_buf.
Translated(w, t, v, x) ==
  LET u == SafeDecref(w, v)
  IN  IF Value(t, x) = NONE THEN u ELSE [u EXCEPT !.object = Incref(@, Value(t, x))]

\* Mutant of Result: the variable keeps its value.
ResultKept(t, v, x) == v

\* And what the variable holds then.
Result(t, v, x) == IF Value(t, x) = NONE THEN v ELSE Value(t, x)

\* mrbcopro_objman_from_copro_update_value_without_checking, for the block b
\* and its object v.
FieldUpdated(w, t, v, b, f) ==
  LET old == w.object[v].field[f]
      x == block[b].word[f]
  IN  [Translated(w, t, old, x) EXCEPT !.object[v].field[f] = Result(t, old, x)]

Updated(w, t, v, b) ==
  IF v = Nil THEN w
  ELSE Folded(LAMBDA u, f : FieldUpdated(u, t, v, b, f), w, FIELDS)

\* The other passes of mrbcopro_objman_receive, after the first made s.
NoneUpdated(s) == [object |-> s.object, buf |-> {}]

AllUpdated(s) ==
  Folded(LAMBDA w, i : Updated(w, s.table, s.main[HP + i], HP + i), NoneUpdated(s), LP)

AllReleased(w, main) == Folded(LAMBDA u, i : SafeDecref(u, main[HP + i]), w, LP)

\* mrbcopro_globalman_receive ends at a word the table does not know.
Known(t, g) == \A h \in Global : h <= g => Value(t, cell[h]) # NONE

GlobalReceived(w, t, g) ==
  IF \A h \in Global : h < g => Value(t, cell[h]) # NONE
  THEN Translated(w, t, root[g], cell[g]) ELSE w

GlobalsReceived(w, t) ==
  Folded(LAMBDA u, i : GlobalReceived(u, t, REGS + i), w, GLOBALS)

\* copro_to_main: the registers are built aside, then the old ones dropped.
RegsBuilt(w, t) == Folded(LAMBDA u, r : Translated(u, t, Nil, cell[r]), w, REGS)

RegsDropped(w) == Folded(LAMBDA u, r : SafeDecref(u, root[r]), w, REGS)

-----------------------------------------------------------------------------
\* What the program has of its objects.

\* Where the object is that an address stands for, for the program: on the LP
\* core the copy if there is one.
Place(a) ==
  LET i == Lookup(table, NONE, a)
  IN  CASE core = "hp" \/ a = Nil \/ a \in Block -> a
        [] i = 0 -> a
        [] OTHER -> IF table[i].ty = "nil" THEN Nil
                    ELSE IF table[i].copro # Nil THEN table[i].copro ELSE a

Held(a) ==
  [f \in Field |-> Place(IF a \in Block THEN block[a].word[f] ELSE object[a].field[f])]

Roots == [x \in Root |-> Place(IF core = "hp" THEN root[x] ELSE cell[x])]

Members(h) == Range(h) \ {Nil}

\* The addresses the program can get at: what the roots hold, with what the
\* objects found so far hold, as many times as there are addresses.
Reached ==
  Folded(LAMBDA S, i : UNION {{a} \cup Members(Held(a)) : a \in S},
         Members(Roots), HP + LP)

View == [root |-> Roots, field |-> [a \in Reached |-> Held(a)]]

Store == INSTANCE ObjectStore WITH Var <- Root, Ivar <- Field, store <- view

-----------------------------------------------------------------------------
\* The program on the HP core.

Init ==
  /\ core = "hp"
  /\ root = [x \in Root |-> Nil]
  /\ payload = [g \in Global |-> Nil]
  /\ object = [v \in Object |-> NoObject]
  /\ cell = [x \in Root |-> Nil]
  /\ block = [b \in Block |-> NoBlock]
  /\ table = <<>>
  /\ view = View

OnHp == core = "hp" /\ UNCHANGED <<core, payload, cell, block, table>>

\* The variable x gets v; the objects are o before it lets go of the old one.
HpSet(o, x, v) ==
  /\ object' = Dropped(o, {root[x]})
  /\ root' = [root EXCEPT ![x] = v]

HpNew(r) ==
  /\ OnHp
  /\ FreeObjects(object) # {}
  /\ LET v == Smallest(FreeObjects(object))
     IN  HpSet([object EXCEPT ![v].rc = 1], r, v)

HpMove(x, y) == OnHp /\ HpSet(Incref(object, root[y]), x, root[y])

HpNil(r) == OnHp /\ HpSet(object, r, Nil)

HpGetIv(r, q, f) ==
  /\ OnHp /\ root[q] # Nil
  /\ LET v == object[root[q]].field[f]
     IN  HpSet(Incref(object, v), r, v)

HpSetIv(q, f, r) ==
  /\ OnHp /\ root[q] # Nil
  /\ LET o == Incref(object, root[r])
     IN  object' = Dropped([o EXCEPT ![root[q]].field[f] = root[r]],
                           {object[root[q]].field[f]})
  /\ UNCHANGED root

\* sleep_and_run ends with mrbcopro_gc_clear.
HpClear ==
  /\ core = "hp"
  /\ block' = [b \in Block |-> NoBlock]
  /\ UNCHANGED <<core, root, payload, object, cell, table>>

-----------------------------------------------------------------------------
\* The program moves.

\* The payloads of a variable: a nil keeps the one of the value before, the
\* address of an object that is there or was.  A number has no object either
\* and stands with 0, unless it is an address of the LP core or -1.
Payload(g) == IF root[g] # Nil THEN {root[g]} ELSE {Nil} \cup Object

\* execute_on_ulp starts the LP core: registers, then global variables.
Enter ==
  LET w == Folded(WithCopy, Sent, REGS)
  IN  /\ core = "hp" /\ core' = "lp"
      /\ Cardinality(FreeBlocks(Sent)) >= Cardinality({root[r] : r \in Reg} \ {Nil})
      /\ block' = w.block
      /\ \E p \in [Global -> {Nil} \cup Object] :
           LET t == GlobalsSent(w.table, p)
           IN  /\ \A g \in Global : p[g] \in Payload(g)
               /\ payload' = p
               /\ table' = t[GLOBALS]
               /\ cell' = [x \in Root |->
                    IF x \in Reg THEN CopyOf(w.table, root[x])
                    ELSE Word(t[x - REGS - 1], p[x])]
      /\ UNCHANGED <<root, object>>

\* The run ends: mrbcopro_objman_receive, mrbcopro_globalman_receive,
\* copro_to_main, mrbcopro_objman_cleanup.
Leave ==
  LET s  == AllTaken
      w1 == AllReleased(AllUpdated(s), s.main)
      w2 == GlobalsReceived(w1, s.table)
      w3 == RegsDropped(RegsBuilt(w2, s.table))
  IN  /\ core = "lp" /\ core' = "hp"
      /\ Cardinality({b \in Block : block[b].used /\ Lookup(table, b, NONE) = 0})
           <= Cardinality(FreeObjects(object))
      /\ object' = Dropped(w3.object, w3.buf)
      /\ block' = Swept(s.main) /\ table' = <<>>
      /\ root' = [x \in Root |->
           IF x \in Reg THEN Result(s.table, Nil, cell[x])
           ELSE IF Known(s.table, x) THEN Result(s.table, root[x], cell[x])
           ELSE root[x]]
      /\ payload' = [g \in Global |-> Nil]
      /\ cell' = [x \in Root |-> Nil]

-----------------------------------------------------------------------------
\* The program on the LP core.

OnLp == core = "lp" /\ UNCHANGED <<root, payload, object>>

Quiet == UNCHANGED <<core, table>>

\* The variables and instance variables that hold v on the HP core.
Holders(v) ==
  Cardinality({x \in Root : root[x] = v}) +
  Cardinality({h \in Object \X Field :
                 object[h[1]].rc > 0 /\ object[h[1]].field[h[2]] = v})

\* Objects the LP core made: blocks no object is known for, and objects that
\* came from one, which have a reference too many.
MadeHere ==
  Cardinality({b \in Block : block[b].used /\ Lookup(table, b, NONE) = 0}) +
  Cardinality({v \in Object : object[v].rc > Holders(v)})

LpNew(r) ==
  /\ OnLp /\ Quiet
  /\ MadeHere < MADE
  /\ FreeBlocks(Sent) # {}
  /\ LET b == Smallest(FreeBlocks(Sent))
     IN  /\ block' = [block EXCEPT ![b] =
                        [used |-> TRUE, frozen |-> FALSE, word |-> Blank]]
         /\ cell' = [cell EXCEPT ![r] = b]

\* A collection: it keeps the frozen blocks, what registers and cells point
\* to, what old words on the stack point to, and what these hold.
LpCollect ==
  /\ OnLp /\ Quiet
  /\ LET kept == {b \in Block : block[b].frozen} \cup (Range(cell) \cap Block)
         closed == {S \in SUBSET Block :
                      \A b \in S, f \in Field :
                        block[b].word[f] \in Block => block[b].word[f] \in S}
     IN  \E stray \in SUBSET {b \in Block \ kept : block[b].used} :
           block' = [b \in Block |->
             IF \A S \in closed : kept \cup stray \subseteq S => b \in S
             THEN block[b] ELSE NoBlock]
  /\ UNCHANGED cell

LpMove(r, q) ==
  /\ OnLp /\ Quiet
  /\ cell' = [cell EXCEPT ![r] = cell[q]]
  /\ UNCHANGED block

LpNil(r) ==
  /\ OnLp /\ Quiet
  /\ cell' = [cell EXCEPT ![r] = Nil]
  /\ UNCHANGED block

LpSetIv(q, f, r) ==
  /\ OnLp /\ Quiet
  /\ cell[q] # Nil
  /\ block' = [block EXCEPT ![cell[q]].word[f] = cell[r]]
  /\ UNCHANGED cell

\* The HP core is asked for the copy of the object at a.
Answers(a) ==
  /\ Lookup(table, NONE, a) # 0
  /\ CopyOf(table, a) # Nil \/
       (table[Lookup(table, NONE, a)].ty = "object" /\ FreeBlocks(Sent) # {})

\* The read barrier: the word a is replaced by the pointer to the copy.
LpGetGlobal(r, g) ==
  /\ OnLp /\ UNCHANGED core
  /\ IF cell[g] \in Object
     THEN LET w == Served(Sent, cell[g])
              c == CopyOf(w.table, cell[g])
          IN  /\ Answers(cell[g])
              /\ block' = w.block /\ table' = w.table
              /\ cell' = [cell EXCEPT ![r] = c, ![g] = c]
     ELSE cell' = [cell EXCEPT ![r] = cell[g]] /\ UNCHANGED <<block, table>>

LpGetIv(r, q, f) ==
  /\ OnLp /\ UNCHANGED core
  /\ cell[q] # Nil
  /\ LET x == block[cell[q]].word[f]
     IN  IF x \in Object
         THEN LET w == Served(Sent, x)
                  c == CopyOf(w.table, x)
              IN  /\ Answers(x)
                  /\ block' = [w.block EXCEPT ![cell[q]].word[f] = c]
                  /\ table' = w.table
                  /\ cell' = [cell EXCEPT ![r] = c]
         ELSE cell' = [cell EXCEPT ![r] = x] /\ UNCHANGED <<block, table>>

Step ==
  \/ \E r \in Reg :
       \/ HpNew(r) \/ HpNil(r) \/ LpNew(r) \/ LpNil(r)
       \/ \E q \in Reg \ {r} : HpMove(r, q) \/ LpMove(r, q)
       \/ \E g \in Global : HpMove(r, g) \/ HpMove(g, r)
                          \/ LpGetGlobal(r, g) \/ LpMove(g, r)
       \/ \E q \in Reg, f \in Field :
            HpGetIv(r, q, f) \/ HpSetIv(q, f, r) \/ LpGetIv(r, q, f) \/ LpSetIv(q, f, r)
  \/ HpClear \/ Enter \/ Leave \/ LpCollect

Next == Step /\ view' = View'

Spec == Init /\ [][Next]_vars

-----------------------------------------------------------------------------
\* The types of the variables.
TypeOK ==
  /\ core \in {"hp", "lp"}
  /\ root \in [Root -> {Nil} \cup Object]
  /\ payload \in [Global -> {Nil} \cup Object]
  /\ object \in [Object -> [rc : Nat, field : [Field -> {Nil} \cup Object]]]
  /\ cell \in [Root -> {Nil} \cup Object \cup Block]
  /\ \A b \in Block : block[b] \in
       [used : BOOLEAN, frozen : BOOLEAN,
        word : [Field -> {Nil} \cup Object \cup Block]]
  /\ \A i \in DOMAIN table :
       table[i] \in [copro : {Nil} \cup Block, main : {Nil} \cup Object,
                    ty : {"object", "nil"}]

\* No object is freed that is still held: its count is at least the number
\* of its holders, also after a run on the LP core.
CountsCover == \A v \in Object : Holders(v) <= object[v].rc

\* No register, global or instance variable leads the program to memory that
\* is free.
NothingDangles ==
  \A a \in Reached : IF a \in Block THEN block[a].used ELSE object[a].rc > 0

\* The addresses that nils kept when the run began.
Stale == {payload[g] : g \in {h \in Global : root[h] = Nil}} \ {Nil}

\* The run treats a nil as the object whose address it kept, or that object as
\* nil.
Misread == core = "lp" /\ Stale # {}

\* Of each object the LP core may ask for, the HP core has a copy or can make
\* one, unless it is the address a nil kept: objman_to otherwise answers 0, or
\* the value of another type, and the LP core waits in the read barrier for
\* good.
ReadsAreAnswered ==
  core = "lp" =>
    \A x \in Object \cap (Range(cell) \cup
         UNION {Range(block[cell[r]].word) : r \in {q \in Reg : cell[q] # Nil}}) :
      LET i == Lookup(table, NONE, x)
      IN  /\ i # 0
          /\ CopyOf(table, x) # Nil \/ table[i].ty = "object" \/ x \in Stale

\* Wherever it runs the program sees the same objects with the same values.
SameObjects == Store!Spec

\* It does so but for the runs in which a global variable that is nil kept the
\* address of an object, and again after them.
SameUnlessMisread ==
  Store!Init /\ [][Store!Next \/ Misread \/ Misread']_view
=============================================================================
