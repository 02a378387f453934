------------------------------ MODULE BddLoops ------------------------------
(***************************************************************************)
(* What an operation sees of a BDD, and the loops of bdd_ops_iter.cpp that *)
(* call no other operation, in a module without recursive operators.  A    *)
(* BDD is the set of its satisfying assignments, an assignment the set of  *)
(* its true variables.  The complement bit is set exactly when the         *)
(* all-false assignment satisfies the function, as lo edges never carry    *)
(* it.                                                                     *)
(***************************************************************************)
EXTENDS Family

False == {}            \* bddfalse
True == SUBSET Vars    \* bddtrue
Constant(f) == f \in {False, True}
bddnot(f) == IF f = Thrown THEN f ELSE True \ f
Comp(f) == {} \in f
Strip(f) == IF Comp(f) THEN bddnot(f) ELSE f

Flip(s, v) == IF v \in s THEN s \ {v} ELSE s \cup {v}
Depends(f) == {v \in Vars : \E s \in f : Flip(s, v) \notin f}

\* 0 for a constant, else the highest level the function depends on.
LevelIn(f) == LET on == {LevelOf(v) : v \in Depends(f)}
              IN  IF on = {} THEN 0 ELSE CHOOSE n \in on : \A m \in on : m <= n
Top(f) == VarOf(LevelIn(f))
HighestOf(F) == LET on == {LevelIn(f) : f \in F}
                IN  VarOf(CHOOSE n \in on : \A m \in on : m <= n)

At(f, v, b) == {s \in True : (IF b = 1 THEN s \cup {v} ELSE s \ {v}) \in f}
Lo0(f) == At(f, Top(f), 0)
Hi1(f) == At(f, Top(f), 1)

\* BDD::getnode_raw.
BNode(v, lo, hi) ==
  IF Thrown \in {lo, hi} THEN Thrown
  ELSE IF LevelIn(lo) >= LevelOf(v) \/ LevelIn(hi) >= LevelOf(v) THEN Broken
  ELSE {s \in lo : v \notin s} \cup {s \in hi : v \in s}

\* Every variable set, of either sign.
Cubes == LET W == {{s \in True : s \cap U # {}} : U \in SUBSET Vars}
         IN  W \cup {bddnot(c) : c \in W}

-----------------------------------------------------------------------------
\* If-then-else.  The cache entry is that of a condition and a then-branch
\* without complement bit.
IteDecided(f, g, h) == Constant(f) \/ Constant(g) \/ Constant(h) \/ g = h
IteDecision(f, g, h) ==
  IF f = True THEN g
  ELSE IF f = False THEN h
  ELSE IF g = h THEN g
  ELSE IF g = True THEN f \cup h
  ELSE IF g = False THEN bddnot(f) \cap h
  ELSE IF h = False THEN f \cap g
  ELSE bddnot(f) \cup g

\* Mutant: the complement bit of the then-branch is not put back on the result.
IteUnturned(a, got) ==
  LET f == a[1]  g == a[2]  h == a[3]  v == HighestOf({f, g, h})
      side(b) == <<At(f, v, b), At(g, v, b), At(h, v, b)>>
  IN  IF IteDecided(f, g, h) THEN Answer(IteDecision(f, g, h))
      ELSE IF Comp(f) THEN Relay(<<<<bddnot(f), h, g>>>>, got, got[1])
      ELSE IF Comp(g) THEN Relay(<<<<f, bddnot(g), bddnot(h)>>>>, got, got[1])
      ELSE Open({a}, <<side(0), side(1)>>, got, BNode(v, got[1], got[2]))

bddite_iter(a, got) ==
  LET f == a[1]  g == a[2]  h == a[3]  v == HighestOf({f, g, h})
      side(b) == <<At(f, v, b), At(g, v, b), At(h, v, b)>>
  IN  IF IteDecided(f, g, h) THEN Answer(IteDecision(f, g, h))
      ELSE IF Comp(f) THEN Relay(<<<<bddnot(f), h, g>>>>, got, got[1])
      ELSE IF Comp(g) THEN Relay(<<<<f, bddnot(g), bddnot(h)>>>>, got, bddnot(got[1]))
      ELSE Open({a}, <<side(0), side(1)>>, got, BNode(v, got[1], got[2]))

-----------------------------------------------------------------------------
\* Cofactors by a variable, and their disjunction.
bddat0_iter(a, got) ==
  LET f == a[1]  v == a[2]
  IN  IF Constant(f) \/ LevelIn(f) < LevelOf(v) THEN Answer(f)
      ELSE IF Top(f) = v THEN Keep({a}, Lo0(f))
      ELSE Open({a}, <<<<Lo0(f), v>>, <<Hi1(f), v>>>>, got, BNode(Top(f), got[1], got[2]))

bddat1_iter(a, got) ==
  LET f == a[1]  v == a[2]
  IN  IF Constant(f) \/ LevelIn(f) < LevelOf(v) THEN Answer(f)
      ELSE IF Top(f) = v THEN Keep({a}, Hi1(f))
      ELSE Open({a}, <<<<Lo0(f), v>>, <<Hi1(f), v>>>>, got, BNode(Top(f), got[1], got[2]))

bddsmooth_iter(a, got) ==
  LET f == a[1]  v == a[2]
  IN  IF Constant(f) \/ LevelIn(f) < LevelOf(v) THEN Answer(f)
      ELSE IF Top(f) = v THEN Keep({a}, Lo0(f) \cup Hi1(f))
      ELSE Open({a}, <<<<Lo0(f), v>>, <<Hi1(f), v>>>>, got, BNode(Top(f), got[1], got[2]))

-----------------------------------------------------------------------------
\* Implication, lo sides first, hi sides only when those imply.
ImplyDecided(f, g) == f \in {False, g, bddnot(g)} \/ g = True \/ (f = True /\ g = False)
ImplyDecision(f, g) == f = False \/ g = True \/ f = g

bddimply_iter(a, got) ==
  LET f == a[1]  g == a[2]  v == HighestOf({f, g})
  IN  IF ImplyDecided(f, g) THEN Answer(ImplyDecision(f, g))
      ELSE IF got = <<FALSE>> THEN Keep({a}, FALSE)
      ELSE Open({a}, <<<<At(f, v, 0), At(g, v, 0)>>, <<At(f, v, 1), At(g, v, 1)>>>>,
                got, got[2])

-----------------------------------------------------------------------------
\* Quantifiers over a variable set.
bddexist_iter(a, got) ==
  LET f == a[1]  g == Strip(a[2])  key == {<<f, g>>, <<f, bddnot(g)>>}
  IN  IF g = False \/ Constant(f) THEN Answer(f)
      ELSE IF LevelIn(g) > LevelIn(f) THEN Open(key, <<<<f, Lo0(g)>>>>, got, got[1])
      ELSE IF LevelIn(f) > LevelIn(g)
      THEN Open(key, <<<<Lo0(f), g>>, <<Hi1(f), g>>>>, got, BNode(Top(f), got[1], got[2]))
      ELSE Open(key, <<<<Lo0(f), Lo0(g)>>, <<Hi1(f), Lo0(g)>>>>, got, got[1] \cup got[2])

bdduniv_iter(a, got) ==
  LET f == a[1]  g == Strip(a[2])  key == {<<f, g>>, <<f, bddnot(g)>>}
  IN  IF g = False \/ Constant(f) THEN Answer(f)
      ELSE IF LevelIn(g) > LevelIn(f) THEN Open(key, <<<<f, Lo0(g)>>>>, got, got[1])
      ELSE IF LevelIn(f) > LevelIn(g)
      THEN Open(key, <<<<Lo0(f), g>>, <<Hi1(f), g>>>>, got, BNode(Top(f), got[1], got[2]))
      ELSE Open(key, <<<<Lo0(f), Lo0(g)>>, <<Hi1(f), Lo0(g)>>>>, got, got[1] \cap got[2])

-----------------------------------------------------------------------------
\* The generalised cofactor: free to choose where g is false.
CofactorDecided(f, g) == Constant(f) \/ Constant(g) \/ f \in {g, bddnot(g)}
CofactorDecision(f, g) ==
  IF Constant(f) THEN f
  ELSE IF g = False \/ f = bddnot(g) THEN False
  ELSE IF f = g THEN True
  ELSE f

bddcofactor_iter(a, got) ==
  LET f == a[1]  g == a[2]  v == HighestOf({f, g})
      side(b) == <<At(f, v, b), At(g, v, b)>>
  IN  IF CofactorDecided(f, g) THEN Answer(CofactorDecision(f, g))
      ELSE IF At(g, v, 0) = False THEN Open({a}, <<side(1)>>, got, got[1])
      ELSE IF At(g, v, 1) = False THEN Open({a}, <<side(0)>>, got, got[1])
      ELSE Open({a}, <<side(0), side(1)>>, got, BNode(v, got[1], got[2]))

-----------------------------------------------------------------------------
\* Every assignment within distance k of a satisfying one.
bddspread_iter(a, got) ==
  LET f == a[1]  k == a[2]
  IN  IF Constant(f) \/ k = 0 THEN Answer(f)
      ELSE Open({a}, <<<<Lo0(f), k>>, <<Hi1(f), k>>, <<Lo0(f), k - 1>>, <<Hi1(f), k - 1>>>>,
                got, BNode(Top(f), got[1] \cup got[4], got[2] \cup got[3]))

\* Shifts, whose cache serves the edge without its complement bit.
lshiftb_iter(a, got) ==
  LET f == a[1]  n == a[2]
  IN  IF Constant(f) \/ n = 0 THEN Answer(f)
      ELSE IF Comp(f) THEN Relay(<<<<bddnot(f), n>>>>, got, bddnot(got[1]))
      ELSE Open({a}, <<<<Lo0(f), n>>, <<Hi1(f), n>>>>, got,
                BNode(VarOf(LevelIn(f) + n), got[1], got[2]))

rshiftb_iter(a, got) ==
  LET f == a[1]  n == a[2]
  IN  IF Constant(f) \/ n = 0 THEN Answer(f)
      ELSE IF LevelIn(f) <= n \/ Thrown \in ToSet(got) THEN Answer(Thrown)
      ELSE IF Comp(f) THEN Relay(<<<<bddnot(f), n>>>>, got, bddnot(got[1]))
      ELSE Open({a}, <<<<Lo0(f), n>>, <<Hi1(f), n>>>>, got,
                BNode(VarOf(LevelIn(f) - n), got[1], got[2]))
=============================================================================
