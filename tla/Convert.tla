------------------------------ MODULE Convert ------------------------------
(***************************************************************************)
(* From one kind of diagram to another: BDD, ZDD, QDD and unreduced        *)
(* diagrams (qdd.cpp, unreduced_dd.cpp), and the renaming of variables     *)
(* (dd_permute.cpp), in the recursive and the iterative form.              *)
(*                                                                         *)
(* A QDD has a node on every level up to its height, so it is given by its *)
(* height and its function.  An unreduced diagram is a tree of edges, with *)
(* a sign, to a node, a terminal or a reduced diagram.                     *)
(***************************************************************************)
EXTENDS BddOps

Levels == Cardinality(Vars)
UpTo(n) == {v \in Vars : LevelOf(v) <= n}

-----------------------------------------------------------------------------
Qdd(n, f) == [height |-> n, of |-> f]
QNot(q) == Qdd(q.height, bddnot(q.of))
QSide(q, b) == Qdd(q.height - 1, At(q.of, VarOf(q.height), b))

\* QDD::getnode_raw; a node that misses a level is no QDD.
QNode(v, lo, hi) ==
  IF LevelOf(v) = lo.height + 1 /\ LevelOf(v) = hi.height + 1
  THEN Qdd(LevelOf(v), BNode(v, lo.of, hi.of))
  ELSE Qdd(LevelOf(v), Broken)

RECURSIVE qdd_fill_levels(_, _), qdd_fill_levels_zdd(_, _),
          fill_zdd_levels_as_bdd(_, _, _), fill_bdd_levels_as_zdd(_, _, _),
          qdd_to_bdd(_), qdd_to_zdd(_), bdd_to_qdd(_), zdd_to_qdd(_),
          zdd_to_bdd(_), bdd_to_zdd(_), expand_bdd(_), expand_zdd(_), reduce(_, _),
          bddpermute_rec(_, _), bddpermutez_rec(_, _)

\* A skipped level is a free variable in a BDD, an absent one in a ZDD.
qdd_fill_levels(q, n) ==
  IF q.height >= n THEN q
  ELSE qdd_fill_levels(QNode(VarOf(q.height + 1), q, q), n)

qdd_fill_levels_zdd(q, n) ==
  IF q.height >= n THEN q
  ELSE qdd_fill_levels_zdd(QNode(VarOf(q.height + 1), q, Qdd(q.height, False)), n)

\* Mutant: the filling stops one level short.
FillOneShort(f, n, m) ==
  IF n + 1 >= m THEN f ELSE fill_zdd_levels_as_bdd(BNode(VarOf(n + 1), f, False), n + 1, m)

fill_zdd_levels_as_bdd(f, n, m) ==
  IF n >= m THEN f ELSE fill_zdd_levels_as_bdd(BNode(VarOf(n + 1), f, False), n + 1, m)

fill_bdd_levels_as_zdd(f, n, m) ==
  IF n >= m THEN f ELSE fill_bdd_levels_as_zdd(Node(VarOf(n + 1), f, f), n + 1, m)

\* The children come back as lo and hi, wherever a form got them from.
MakeQdd(v, lo, hi) ==
  QNode(v, qdd_fill_levels(lo, LevelOf(v) - 1), qdd_fill_levels(hi, LevelOf(v) - 1))
MakeQddOfZdd(v, lo, hi) ==
  QNode(v, qdd_fill_levels_zdd(lo, LevelOf(v) - 1), qdd_fill_levels_zdd(hi, LevelOf(v) - 1))
MakeBdd(f, lo, hi) ==
  BNode(TopVar(f), fill_zdd_levels_as_bdd(lo, Level(Lo(f)), Level(f) - 1),
                   fill_zdd_levels_as_bdd(hi, Level(Hi(f)), Level(f) - 1))
MakeZdd(f, lo, hi) ==
  Node(Top(f), fill_bdd_levels_as_zdd(lo, LevelIn(Lo0(f)), LevelIn(f) - 1),
               fill_bdd_levels_as_zdd(hi, LevelIn(Hi1(f)), LevelIn(f) - 1))

-----------------------------------------------------------------------------
\* Between BDDs, ZDDs and QDDs.
qdd_to_bdd(q) ==
  IF q.height = 0 THEN q.of
  ELSE IF Comp(q.of) THEN bddnot(qdd_to_bdd(QNot(q)))
  ELSE BNode(VarOf(q.height), qdd_to_bdd(QSide(q, 0)), qdd_to_bdd(QSide(q, 1)))

qdd_to_bdd_iter(a, got) ==
  LET q == a[1]
  IN  IF q.height = 0 THEN Answer(q.of)
      ELSE IF Comp(q.of) THEN Relay(<<<<QNot(q)>>>>, got, bddnot(got[1]))
      ELSE Open({a}, <<<<QSide(q, 0)>>, <<QSide(q, 1)>>>>, got,
                BNode(VarOf(q.height), got[1], got[2]))

qdd_to_zdd(q) ==
  IF q.of = False /\ q.height = 0 THEN Empty
  ELSE IF q.height = 0 THEN Single
  ELSE Node(VarOf(q.height), qdd_to_zdd(QSide(q, 0)), qdd_to_zdd(QSide(q, 1)))

qdd_to_zdd_iter(a, got) ==
  LET q == a[1]
  IN  IF q.height = 0 THEN Answer(IF q.of = False THEN Empty ELSE Single)
      ELSE Open({a}, <<<<QSide(q, 0)>>, <<QSide(q, 1)>>>>, got,
                Node(VarOf(q.height), got[1], got[2]))

bdd_to_qdd(f) ==
  IF Constant(f) THEN Qdd(0, f)
  ELSE IF Comp(f) THEN QNot(bdd_to_qdd(bddnot(f)))
  ELSE MakeQdd(Top(f), bdd_to_qdd(Lo0(f)), bdd_to_qdd(Hi1(f)))

bdd_to_qdd_iter(a, got) ==
  LET f == a[1]
  IN  IF Constant(f) THEN Answer(Qdd(0, f))
      ELSE IF Comp(f) THEN Relay(<<<<bddnot(f)>>>>, got, QNot(got[1]))
      ELSE Open({a}, <<<<Lo0(f)>>, <<Hi1(f)>>>>, got, MakeQdd(Top(f), got[1], got[2]))

zdd_to_qdd(f) ==
  IF Terminal(f) THEN Qdd(0, IF f = Empty THEN False ELSE True)
  ELSE MakeQddOfZdd(TopVar(f), zdd_to_qdd(Lo(f)), zdd_to_qdd(Hi(f)))

zdd_to_qdd_iter(a, got) ==
  LET f == a[1]
  IN  IF Terminal(f) THEN Answer(Qdd(0, IF f = Empty THEN False ELSE True))
      ELSE Open({a}, <<<<Lo(f)>>, <<Hi(f)>>>>, got, MakeQddOfZdd(TopVar(f), got[1], got[2]))

zdd_to_bdd(f) ==
  IF f = Empty THEN False
  ELSE IF f = Single THEN True
  ELSE MakeBdd(f, zdd_to_bdd(Lo(f)), zdd_to_bdd(Hi(f)))

zdd_to_bdd_iter(a, got) ==
  LET f == a[1]
  IN  IF Terminal(f) THEN Answer(IF f = Empty THEN False ELSE True)
      ELSE Open({a}, <<<<Lo(f)>>, <<Hi(f)>>>>, got, MakeBdd(f, got[1], got[2]))

bdd_to_zdd(f) ==
  IF f = False THEN Empty
  ELSE IF f = True THEN Single
  ELSE MakeZdd(f, bdd_to_zdd(Lo0(f)), bdd_to_zdd(Hi1(f)))

bdd_to_zdd_iter(a, got) ==
  LET f == a[1]
  IN  IF Constant(f) THEN Answer(IF f = False THEN Empty ELSE Single)
      ELSE Open({a}, <<<<Lo0(f)>>, <<Hi1(f)>>>>, got, MakeZdd(f, got[1], got[2]))

\* The public forms fill the levels above the top: all of them in a QDD, the
\* lowest n otherwise, where n <= 0 stands for all of them.
BddToQdd(f) == qdd_fill_levels(bdd_to_qdd(f), Levels)
ZddToQdd(f) == qdd_fill_levels_zdd(zdd_to_qdd(f), Levels)
Filled(n) == IF n <= 0 THEN Levels ELSE n
ZddToBdd(f, n) == IF Filled(n) < Level(f) THEN Thrown
                  ELSE fill_zdd_levels_as_bdd(zdd_to_bdd(f), Level(f), Filled(n))
BddToZdd(f, n) == IF Filled(n) < LevelIn(f) THEN Thrown
                  ELSE fill_bdd_levels_as_zdd(bdd_to_zdd(f), LevelIn(f), Filled(n))

-----------------------------------------------------------------------------
\* Edges of an unreduced diagram: bddnull, terminals, reduced diagrams, nodes.
Edge(neg, v, dd, below) == [neg |-> neg, v |-> v, dd |-> dd, below |-> below]
Null == Edge(FALSE, -2, {}, <<>>)
Leaf(b) == Edge(b, 0, {}, <<>>)
Wrapped(d) == Edge(FALSE, -1, d, <<>>)
Tree(neg, v, lo, hi) == Edge(neg, v, {}, <<lo, hi>>)
Unsigned(t) == [t EXCEPT !.neg = FALSE]

\* UnreducedDD(BDD) and UnreducedDD(ZDD): no complement edge is left.
expand_bdd(f) ==
  IF Constant(f) THEN Leaf(f = True)
  ELSE Tree(FALSE, Top(f), expand_bdd(Lo0(f)), expand_bdd(Hi1(f)))

expand_bdd_iter(a, got) ==
  LET f == a[1]
  IN  IF Constant(f) THEN Answer(Leaf(f = True))
      ELSE Open({a}, <<<<Lo0(f)>>, <<Hi1(f)>>>>, got, Tree(FALSE, Top(f), got[1], got[2]))

expand_zdd(f) ==
  IF Terminal(f) THEN Leaf(f = Single)
  ELSE Tree(FALSE, TopVar(f), expand_zdd(Lo(f)), expand_zdd(Hi(f)))

expand_zdd_iter(a, got) ==
  LET f == a[1]
  IN  IF Terminal(f) THEN Answer(Leaf(f = Single))
      ELSE Open({a}, <<<<Lo(f)>>, <<Hi(f)>>>>, got, Tree(FALSE, TopVar(f), got[1], got[2]))

\* What terminals, complement and nodes are to a BDD or a ZDD.
Make(kind, v, lo, hi) == IF kind = "bdd" THEN BNode(v, lo, hi) ELSE Node(v, lo, hi)
Terminate(kind, b) == IF ~b THEN {} ELSE IF kind = "bdd" THEN True ELSE Single
Negate(kind, d) == IF d = Thrown THEN d
                   ELSE IF kind = "bdd" THEN bddnot(d) ELSE Toggle(d)

reduce(t, kind) ==
  CASE t.v = -2 -> Thrown
    [] t.v = 0 -> Terminate(kind, t.neg)
    [] t.v = -1 -> IF t.neg THEN Negate(kind, t.dd) ELSE t.dd
    [] t.v > 0 /\ t.neg -> Negate(kind, reduce(Unsigned(t), kind))
    [] t.v > 0 /\ ~t.neg -> Make(kind, t.v, reduce(t.below[1], kind), reduce(t.below[2], kind))

\* Mutant: the memo is asked before the sign of the edge is taken off.
ReduceSigned(a, got) ==
  LET t == a[1]  kind == a[2]
  IN  CASE t.v = -2 \/ Thrown \in ToSet(got) -> Answer(Thrown)
        [] t.v = 0 -> Answer(Terminate(kind, t.neg))
        [] t.v = -1 -> Answer(IF t.neg THEN Negate(kind, t.dd) ELSE t.dd)
        [] t.v > 0 /\ t.neg -> Relay(<<<<Unsigned(t), kind>>>>, got, Negate(kind, got[1]))
        [] t.v > 0 /\ ~t.neg ->
             Open({a, <<[t EXCEPT !.neg = TRUE], kind>>},
                  <<<<t.below[1], kind>>, <<t.below[2], kind>>>>, got, Make(kind, t.v, got[1], got[2]))

reduce_iter(a, got) ==
  LET t == a[1]  kind == a[2]
  IN  CASE t.v = -2 \/ Thrown \in ToSet(got) -> Answer(Thrown)
        [] t.v = 0 -> Answer(Terminate(kind, t.neg))
        [] t.v = -1 -> Answer(IF t.neg THEN Negate(kind, t.dd) ELSE t.dd)
        [] t.v > 0 /\ t.neg -> Relay(<<<<Unsigned(t), kind>>>>, got, Negate(kind, got[1]))
        [] t.v > 0 /\ ~t.neg ->
             Open({a}, <<<<t.below[1], kind>>, <<t.below[2], kind>>>>, got, Make(kind, t.v, got[1], got[2]))

reduce_as_qdd(t) == LET f == reduce(t, "bdd") IN IF f = Thrown THEN Thrown ELSE BddToQdd(f)

-----------------------------------------------------------------------------
\* Renaming by any map of variables, one that merges two of them included;
\* below the lowest variable it moves, diagrams stay as they are.
MinLevel(perm) == CHOOSE n \in {LevelOf(v) : v \in {v \in Vars : perm[v] # v}} :
                    \A v \in Vars : perm[v] # v => n <= LevelOf(v)
Moves(perm) == \E v \in Vars : perm[v] # v

permute_make_bdd(w, lo, hi) ==
  IF LevelOf(w) > LevelIn(lo) /\ LevelOf(w) > LevelIn(hi) THEN BNode(w, lo, hi)
  ELSE bddite(bddprime(w), hi, lo)

zdd_attach(g, w) == {s \cup {w} : s \in Off(g, w)} \cup {s \in g : w \in s}

permute_make_zdd(w, lo, hi) ==
  IF LevelOf(w) > Level(lo) /\ LevelOf(w) > Level(hi) THEN Node(w, lo, hi)
  ELSE lo \cup zdd_attach(hi, w)

bddpermute_rec(f, perm) ==
  IF Constant(f) \/ LevelIn(f) < MinLevel(perm) THEN f
  ELSE IF Comp(f) THEN bddnot(bddpermute_rec(bddnot(f), perm))
  ELSE permute_make_bdd(perm[Top(f)], bddpermute_rec(Lo0(f), perm),
                        bddpermute_rec(Hi1(f), perm))

bddpermute_iter(a, got) ==
  LET f == a[1]  perm == a[2]
  IN  IF Constant(f) \/ LevelIn(f) < MinLevel(perm) THEN Answer(f)
      ELSE IF Comp(f) THEN Relay(<<<<bddnot(f), perm>>>>, got, bddnot(got[1]))
      ELSE Open({a}, <<<<Lo0(f), perm>>, <<Hi1(f), perm>>>>, got,
                permute_make_bdd(perm[Top(f)], got[1], got[2]))

bddpermutez_rec(f, perm) ==
  IF Terminal(f) \/ Level(f) < MinLevel(perm) THEN f
  ELSE IF HasEmpty(f) THEN Toggle(bddpermutez_rec(Plain(f), perm))
  ELSE permute_make_zdd(perm[TopVar(f)], bddpermutez_rec(Lo(f), perm),
                        bddpermutez_rec(Hi(f), perm))

bddpermutez_iter(a, got) ==
  LET f == a[1]  perm == a[2]
  IN  IF Terminal(f) \/ Level(f) < MinLevel(perm) THEN Answer(f)
      ELSE IF HasEmpty(f) THEN Relay(<<<<Plain(f), perm>>>>, got, Toggle(got[1]))
      ELSE Open({a}, <<<<Lo(f), perm>>, <<Hi(f), perm>>>>, got,
                permute_make_zdd(perm[TopVar(f)], got[1], got[2]))
=============================================================================
