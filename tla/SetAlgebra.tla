----------------------------- MODULE SetAlgebra -----------------------------
(***************************************************************************)
(* What the binary operations promise, without nodes, caches or garbage:   *)
(* objects hold Boolean functions (of a BDD) or, as their characteristic   *)
(* functions, families of sets (of a ZDD).  A call is answered with the    *)
(* function asked for, or refused, and changes nothing else.               *)
(***************************************************************************)
EXTENDS Integers

CONSTANTS
  Objects,      \* the objects of the program
  Points        \* the assignments the functions are defined on

VARIABLES
  value,        \* the function every object holds
  pending       \* the call in progress: NoCall or [op, f, g, dest]

NoCall == [op |-> "none"]

Ops == {"and", "xor", "union", "intersec", "subtract", "symdiff"}

\* What each operation computes at one point.
Pointwise(op, x, y) ==
  CASE op \in {"and", "intersec"} -> IF x = 1 /\ y = 1 THEN 1 ELSE 0
    [] op = "union" -> IF x = 1 \/ y = 1 THEN 1 ELSE 0
    [] op \in {"xor", "symdiff"} -> IF x # y THEN 1 ELSE 0
    [] op = "subtract" -> IF x = 1 /\ y = 0 THEN 1 ELSE 0

Combined(op, F, G) == [p \in Points |-> Pointwise(op, F[p], G[p])]

Calls == [op : Ops, f : Objects, g : Objects, dest : Objects]

\* The values once call c is answered.
Answered(c) ==
  [value EXCEPT ![c.dest] = Combined(c.op, value[c.f], value[c.g])]

SetAlgebraInit ==
  /\ value \in [Objects -> [Points -> {0, 1}]]
  /\ pending = NoCall

Request ==
  /\ pending = NoCall
  /\ pending' \in Calls
  /\ UNCHANGED value

Answer ==
  /\ pending # NoCall
  /\ pending' = NoCall
  /\ value' = Answered(pending)

\* The call ends by an exception.
Refuse ==
  /\ pending # NoCall
  /\ pending' = NoCall
  /\ UNCHANGED value

\* The program gives an object up: it then holds the constant 0.
Clear(h) ==
  /\ pending = NoCall
  /\ UNCHANGED pending
  /\ value' = [value EXCEPT ![h] = [p \in Points |-> 0]]

SetAlgebraNext ==
  \/ Request
  \/ Answer
  \/ Refuse
  \/ \E h \in Objects : Clear(h)

SetAlgebraSpec == SetAlgebraInit /\ [][SetAlgebraNext]_<<value, pending>>
=============================================================================
