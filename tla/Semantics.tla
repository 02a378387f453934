------------------------------ MODULE Semantics ------------------------------
(***************************************************************************)
(* What the diagrams mean.  An assignment is the set of the variables that *)
(* are true; a diagram maps every assignment to the index of a constant.   *)
(* A ZDD or MTZDD maps an assignment that sets a skipped variable to 0,    *)
(* and its complement edges concern the empty set only.                    *)
(***************************************************************************)
EXTENDS NodeTable

Assignments == SUBSET VarsUsed

ZeroSuppressed(k) == k \in {"zdd", "mtzdd"}

\* No variable of a is above the level of e: nothing a skipped node suppresses.
NoneSkipped(e, a) == \A v \in a : var2level[v] <= Level(e)

(***************************************************************************)
(* The value of edge e of kind k under assignment a (BDD::eval and the     *)
(* child functions of dd_base).                                            *)
(***************************************************************************)
Value(k, e0, a0) ==
  LET val[p \in Edges \X Assignments] ==
        LET e == p[1]
            a == p[2]
            v == nodes[e.node].var
        IN  IF ZeroSuppressed(k) /\ ~ NoneSkipped(e, a) THEN 0
            ELSE IF e.node = 0 THEN e.comp
            ELSE val[<<ChildOf(k, e, IF v \in a THEN 1 ELSE 0),
                       IF ZeroSuppressed(k) THEN a \ {v} ELSE a>>]
  IN  val[<<e0, a0>>]

-----------------------------------------------------------------------------
(***************************************************************************)
(* The diagrams of a kind whose nodes are S: constants the kind ends in,   *)
(* and reduced nodes closed under children, all in the normal form the     *)
(* getnode of the kind makes.                                              *)
(***************************************************************************)
Reducing == Kinds \ {"unreduced"}

OfKind(k, S, e) ==
  IF e.node = 0 THEN e \in ConstsOf(k)
  ELSE /\ e \in Edges /\ e.node \in S
       /\ k \in {"mtbdd", "mtzdd"} => e.comp = 0

NormalPair(k, lo, hi) ==
  /\ k \in {"bdd", "mtbdd"} => lo # hi
  /\ k \in {"zdd", "mtzdd"} => hi # False
  /\ k \in {"bdd", "zdd", "qdd"} => lo.comp = 0

Diagrams(k, S) ==
  /\ S \subseteq ReducedNodes
  /\ \A n \in S : /\ OfKind(k, S, nodes[n].lo) /\ OfKind(k, S, nodes[n].hi)
                  /\ NormalPair(k, nodes[n].lo, nodes[n].hi)
=============================================================================
