------------------------------- MODULE BddOps -------------------------------
(***************************************************************************)
(* The operations of bdd_ops.cpp beyond those of module Apply, and the     *)
(* iterative forms of those that call others (bdd_ops_iter.cpp and         *)
(* bdd_ops_iter_quant.cpp).  BddLoops has the other iterative forms.       *)
(***************************************************************************)
EXTENDS BddLoops

\* A variable set is a chain of lo edges that ends in bddfalse.
UpByLevel(W) == SetToSortSeq(W, LAMBDA v, w : LevelOf(v) < LevelOf(w))
vars_to_cube(W) == FoldLeft(LAMBDA cube, v : BNode(v, cube, True), False, UpByLevel(W))
bddprime(v) == BNode(v, False, True)

RECURSIVE bddite(_, _, _), bddat0(_, _), bddat1(_, _), bddimply(_, _),
          bddexist(_, _), bdduniv(_, _), bddandexist(_, _, _), bddcofactor(_, _),
          swap_rec(_, _, _), bddsmooth(_, _), bddspread(_, _), bddlshiftb(_, _),
          bddrshiftb(_, _)

-----------------------------------------------------------------------------
\* If-then-else.  The cache entry is that of a condition and a then-branch
\* without complement bit.
bddite(f, g, h) ==
  LET v == HighestOf({f, g, h})
      side(b) == bddite(At(f, v, b), At(g, v, b), At(h, v, b))
  IN  IF IteDecided(f, g, h) THEN IteDecision(f, g, h)
      ELSE IF Comp(f) THEN bddite(bddnot(f), h, g)
      ELSE IF Comp(g) THEN bddnot(bddite(f, bddnot(g), bddnot(h)))
      ELSE BNode(v, side(0), side(1))

-----------------------------------------------------------------------------
\* Cofactors by a variable.
bddat0(f, v) ==
  IF Constant(f) \/ LevelIn(f) < LevelOf(v) THEN f
  ELSE IF Top(f) = v THEN Lo0(f)
  ELSE BNode(Top(f), bddat0(Lo0(f), v), bddat0(Hi1(f), v))

bddat1(f, v) ==
  IF Constant(f) \/ LevelIn(f) < LevelOf(v) THEN f
  ELSE IF Top(f) = v THEN Hi1(f)
  ELSE BNode(Top(f), bddat1(Lo0(f), v), bddat1(Hi1(f), v))

bddsmooth(f, v) ==
  IF Constant(f) \/ LevelIn(f) < LevelOf(v) THEN f
  ELSE IF Top(f) = v THEN Lo0(f) \cup Hi1(f)
  ELSE BNode(Top(f), bddsmooth(Lo0(f), v), bddsmooth(Hi1(f), v))

\* Implication, lo sides first, hi sides only when those imply.
bddimply(f, g) ==
  LET v == HighestOf({f, g})
  IN  IF ImplyDecided(f, g) THEN ImplyDecision(f, g)
      ELSE bddimply(At(f, v, 0), At(g, v, 0)) /\ bddimply(At(f, v, 1), At(g, v, 1))

-----------------------------------------------------------------------------
\* Support and quantifiers over a variable set.
bddsupport(f) == vars_to_cube(Depends(f))
bddsupport_vec(f) == Reverse(UpByLevel(Depends(f)))

\* Mutant: a variable of the set above the operand ends the quantification.
ExistStopsAbove(f, g0) ==
  LET g == Strip(g0)
  IN  IF g = False \/ Constant(f) \/ LevelIn(g) > LevelIn(f) THEN f
      ELSE IF LevelIn(f) > LevelIn(g)
      THEN BNode(Top(f), bddexist(Lo0(f), g), bddexist(Hi1(f), g))
      ELSE bddexist(Lo0(f), Lo0(g)) \cup bddexist(Hi1(f), Lo0(g))

bddexist(f, g0) ==
  LET g == Strip(g0)
  IN  IF g = False \/ Constant(f) THEN f
      ELSE IF LevelIn(g) > LevelIn(f) THEN bddexist(f, Lo0(g))
      ELSE IF LevelIn(f) > LevelIn(g)
      THEN BNode(Top(f), bddexist(Lo0(f), g), bddexist(Hi1(f), g))
      ELSE bddexist(Lo0(f), Lo0(g)) \cup bddexist(Hi1(f), Lo0(g))

bdduniv(f, g0) ==
  LET g == Strip(g0)
  IN  IF g = False \/ Constant(f) THEN f
      ELSE IF LevelIn(g) > LevelIn(f) THEN bdduniv(f, Lo0(g))
      ELSE IF LevelIn(f) > LevelIn(g)
      THEN BNode(Top(f), bdduniv(Lo0(f), g), bdduniv(Hi1(f), g))
      ELSE bdduniv(Lo0(f), Lo0(g)) \cap bdduniv(Hi1(f), Lo0(g))

\* Variables of the set above both operands are skipped.
RECURSIVE SkipAbove(_, _)
SkipAbove(cube, n) == IF LevelIn(cube) > n THEN SkipAbove(Lo0(cube), n) ELSE cube

bddandexist(f, g, cube0) ==
  LET v == HighestOf({f, g})  cube == SkipAbove(Strip(cube0), LevelOf(v))
      lo(c) == bddandexist(At(f, v, 0), At(g, v, 0), c)
      hi(c) == bddandexist(At(f, v, 1), At(g, v, 1), c)
  IN  IF False \in {f, g} \/ f = bddnot(g) THEN False
      ELSE IF Strip(cube0) = False THEN f \cap g
      ELSE IF f \in {True, g} THEN bddexist(g, Strip(cube0))
      ELSE IF g = True THEN bddexist(f, Strip(cube0))
      ELSE IF cube = False THEN f \cap g
      ELSE IF Top(cube) = v
      THEN IF lo(Lo0(cube)) = True THEN True ELSE lo(Lo0(cube)) \cup hi(Lo0(cube))
      ELSE BNode(v, lo(cube), hi(cube))

\* The key holds the shortened set: the entry answers every set that is
\* shortened to it, for both orders of the operands.
bddandexist_iter(a, got) ==
  LET f == a[1]  g == a[2]  given == Strip(a[3])
      v == HighestOf({f, g})  cube == SkipAbove(given, LevelOf(v))
      key == UNION {{<<f, g, c>>, <<g, f, c>>} :
                      c \in {c \in Cubes : SkipAbove(Strip(c), LevelOf(v)) = cube}}
      lo(c) == <<At(f, v, 0), At(g, v, 0), c>>
      hi(c) == <<At(f, v, 1), At(g, v, 1), c>>
  IN  IF False \in {f, g} \/ f = bddnot(g) THEN Answer(False)
      ELSE IF given = False THEN Answer(f \cap g)
      ELSE IF f \in {True, g} THEN Answer(bddexist(g, given))
      ELSE IF g = True THEN Answer(bddexist(f, given))
      ELSE IF cube = False THEN Answer(f \cap g)
      ELSE IF Top(cube) = v
      THEN IF got = <<True>> THEN Keep(key, True)
           ELSE Open(key, <<lo(Lo0(cube)), hi(Lo0(cube))>>, got, got[1] \cup got[2])
      ELSE Open(key, <<lo(cube), hi(cube)>>, got, BNode(v, got[1], got[2]))

bddoruniv(f, g, cube) == bddnot(bddandexist(bddnot(f), bddnot(g), cube))

-----------------------------------------------------------------------------
\* The generalised cofactor: free to choose where g is false.
bddcofactor(f, g) ==
  LET v == HighestOf({f, g})  side(b) == bddcofactor(At(f, v, b), At(g, v, b))
  IN  IF CofactorDecided(f, g) THEN CofactorDecision(f, g)
      ELSE IF At(g, v, 0) = False THEN side(1)
      ELSE IF At(g, v, 1) = False THEN side(0)
      ELSE BNode(v, side(0), side(1))

\* Exchange of two variables, v the higher.  Between the two, a node no
\* longer fits its place and is built with if-then-else.
Rebuild(f, v, w, lo, hi) ==
  IF Top(f) = v THEN bddite(bddprime(w), hi, lo)
  ELSE IF LevelIn(f) > LevelOf(v) THEN BNode(Top(f), lo, hi)
  ELSE bddite(bddprime(Top(f)), hi, lo)

swap_rec(f, v, w) ==
  IF Constant(f) \/ LevelIn(f) < LevelOf(w) THEN f
  ELSE IF Comp(f) THEN bddnot(swap_rec(bddnot(f), v, w))
  ELSE IF Top(f) = w THEN BNode(v, Lo0(f), Hi1(f))
  ELSE Rebuild(f, v, w, swap_rec(Lo0(f), v, w), swap_rec(Hi1(f), v, w))

bddswap_iter(a, got) ==
  LET f == a[1]  v == a[2]  w == a[3]
  IN  IF Constant(f) \/ LevelIn(f) < LevelOf(w) THEN Answer(f)
      ELSE IF Comp(f) THEN Relay(<<<<bddnot(f), v, w>>>>, got, bddnot(got[1]))
      ELSE IF Top(f) = w THEN Keep({a}, BNode(v, Lo0(f), Hi1(f)))
      ELSE Open({a}, <<<<Lo0(f), v, w>>, <<Hi1(f), v, w>>>>, got,
                Rebuild(f, v, w, got[1], got[2]))

bddswap(f, v, w) ==
  IF v = w THEN f
  ELSE IF LevelOf(v) > LevelOf(w) THEN swap_rec(f, v, w) ELSE swap_rec(f, w, v)

-----------------------------------------------------------------------------
\* Every assignment within distance k of a satisfying one.
bddspread(f, k) ==
  IF Constant(f) \/ k = 0 THEN f
  ELSE BNode(Top(f), bddspread(Lo0(f), k) \cup bddspread(Hi1(f), k - 1),
                     bddspread(Hi1(f), k) \cup bddspread(Lo0(f), k - 1))

\* Shifts, whose cache serves the edge without its complement bit.
bddlshiftb(f, n) ==
  IF Constant(f) \/ n = 0 THEN f
  ELSE IF Comp(f) THEN bddnot(bddlshiftb(bddnot(f), n))
  ELSE BNode(VarOf(LevelIn(f) + n), bddlshiftb(Lo0(f), n), bddlshiftb(Hi1(f), n))

bddrshiftb(f, n) ==
  IF Constant(f) \/ n = 0 THEN f
  ELSE IF LevelIn(f) <= n THEN Thrown
  ELSE IF Comp(f) THEN bddnot(bddrshiftb(bddnot(f), n))
  ELSE BNode(VarOf(LevelIn(f) - n), bddrshiftb(Lo0(f), n), bddrshiftb(Hi1(f), n))
=============================================================================
