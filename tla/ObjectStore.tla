---------------------------- MODULE ObjectStore ----------------------------
(***************************************************************************)
(* What a Ruby program sees of its objects, wherever it runs: variables    *)
(* and instance variables that refer to objects or hold nil.  Addresses    *)
(* mean nothing to the program, so a step may give the objects others; an  *)
(* object the program cannot reach any more need not be there.             *)
(***************************************************************************)
EXTENDS Integers, Functions

CONSTANTS
  Var,     \* variables: registers and globals
  Ivar     \* instance variables of an object

VARIABLE
  store    \* .root: what the variables hold; .field: what the objects hold

Nil == 0

New == -1   \* an object that has just been made, until it gets an address

Blank == [f \in Ivar |-> Nil]

Init == store = [root |-> [x \in Var |-> Nil], field |-> [a \in {} |-> Blank]]

\* The address that was a, when m gives for each address what it was before.
Was(m, a) == IF a = Nil THEN Nil ELSE m[a]

\* The program cannot tell t from s: every object it can reach in s is in t.
Same(s, t) ==
  /\ Range(t.root) \subseteq {Nil} \cup DOMAIN t.field
  /\ \E m \in [DOMAIN t.field -> DOMAIN s.field] :
       /\ \A x \in Var : s.root[x] = Was(m, t.root[x])
       /\ \A a \in DOMAIN t.field, f \in Ivar :
            /\ t.field[a][f] \in {Nil} \cup DOMAIN t.field
            /\ s.field[m[a]][f] = Was(m, t.field[a][f])
       /\ IsInjective(m)

\* The variables and the objects hold the values in s now.
Becomes(s) == Same(s, store')

Assign(x, v) == Becomes([store EXCEPT !.root[x] = v])

Make(x) ==
  Becomes([root  |-> [store.root EXCEPT ![x] = New],
           field |-> [a \in {New} \cup DOMAIN store.field |->
                        IF a = New THEN Blank ELSE store.field[a]]])

Get(x, y, f) ==
  /\ store.root[y] # Nil
  /\ Assign(x, store.field[store.root[y]][f])

Put(y, f, x) ==
  /\ store.root[y] # Nil
  /\ Becomes([store EXCEPT !.field[store.root[y]][f] = store.root[x]])

Next ==
  \/ Becomes(store)
  \/ \E x \in Var :
       \/ \E v \in {Nil} \cup Range(store.root) : Assign(x, v)
       \/ Make(x)
       \/ \E y \in Var, f \in Ivar : Get(x, y, f) \/ Put(y, f, x)

Spec == Init /\ [][Next]_store
=============================================================================
