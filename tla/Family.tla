------------------------------- MODULE Family -------------------------------
(***************************************************************************)
(* What the algorithms on diagrams see of a diagram.  A canonical ZDD is   *)
(* determined by the family of sets it stands for, so a family is the      *)
(* diagram: its top variable is the highest in the support, lo and hi are  *)
(* the members without and with that variable.  NodeTable shows that equal *)
(* families are equal edges; here f = g compares edges.                    *)
(*                                                                         *)
(* The second half is the vocabulary of the two forms every algorithm is   *)
(* written in: a recursive function, and the body of one pass of the loop  *)
(* of its iterative twin, run by module Frames.                            *)
(***************************************************************************)
EXTENDS Integers, FiniteSets, Sequences, SequencesExt

CONSTANT var2level     \* level of every variable created so far

Vars == DOMAIN var2level

\* The levels are those of the variables 1..n in some order.
ASSUME FamilyAssumption ==
  /\ IsFiniteSet(Vars) /\ Vars = 1..Cardinality(Vars)
  /\ var2level \in [Vars -> Vars]
  /\ \A v, w \in Vars : var2level[v] = var2level[w] => v = w

\* A variable created later goes on top of the order.
LevelOf(v) == IF v \in DOMAIN var2level THEN var2level[v] ELSE v
VarOf(n) == IF n \in DOMAIN var2level
            THEN CHOOSE v \in DOMAIN var2level : var2level[v] = n ELSE n

Least(x, y) == IF x < y THEN x ELSE y
Most(x, y) == IF x < y THEN y ELSE x

Empty == {}            \* bddempty
Single == {{}}         \* bddsingle
Terminal(f) == f \in {Empty, Single}
Support(f) == UNION f

Level(f) == Max({LevelOf(v) : v \in Support(f)} \cup {0})
TopVar(f) == CHOOSE v \in Support(f) : \A w \in Support(f) :
               LevelOf(w) <= LevelOf(v)
Higher(f, g) == IF Level(f) >= Level(g) THEN TopVar(f) ELSE TopVar(g)

Off(f, v) == {s \in f : v \notin s}
On(f, v) == {s \ {v} : s \in f \ Off(f, v)}
Lo(f) == Off(f, TopVar(f))
Hi(f) == On(f, TopVar(f))

\* The hi side of an operand, or an operand below v itself.
Down(f, v) == IF v \in Support(f) THEN On(f, v) ELSE f

\* What an operation returns when it throws, and what is no diagram at all:
\* a node whose children are not below it.
Thrown == {{-1}}
Broken == {{0}}

\* ZDD::getnode.
Node(v, lo, hi) ==
  IF Thrown \in {lo, hi} THEN Thrown
  ELSE IF \E w \in Support(lo) \cup Support(hi) : w < 1 \/ LevelOf(w) >= LevelOf(v)
  THEN Broken
  ELSE lo \cup {s \cup {v} : s \in hi}

HasEmpty(f) == {} \in f

\* bddnot on a ZDD: the complement bit stands for the empty set, and an edge
\* without the bit is a family without it.
Toggle(f) == IF HasEmpty(f) THEN f \ {{}} ELSE f \cup {{}}
Plain(f) == f \ {{}}

-----------------------------------------------------------------------------
(***************************************************************************)
(* One pass of an iterative loop over the frame of a call with arguments   *)
(* a, which has got the results of some subproblems: it pops with a value, *)
(* pops with a value it writes to the cache, or pushes a subproblem.  The  *)
(* key of a cache entry is the set of arguments it will answer.            *)
(***************************************************************************)
Answer(v) == [kind |-> "answer", value |-> v]
Keep(key, v) == [kind |-> "keep", key |-> key, value |-> v]
Ask(key, sub) == [kind |-> "ask", key |-> key, sub |-> sub]

\* Asks for subs in order, then keeps the value.
Open(key, subs, got, v) ==
  IF Len(got) < Len(subs) THEN Ask(key, subs[Len(got) + 1]) ELSE Keep(key, v)

\* Hands a subproblem on and answers with what it makes of the result.
Relay(subs, got, v) ==
  IF Len(got) < Len(subs) THEN Ask({}, subs[Len(got) + 1]) ELSE Answer(v)

One(f, g) == {<<f, g>>}                  \* key of an ordered pair
Either(f, g) == {<<f, g>>, <<g, f>>}     \* key of a sorted pair
=============================================================================
