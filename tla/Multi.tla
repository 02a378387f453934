------------------------------- MODULE Multi -------------------------------
(***************************************************************************)
(* Diagrams with values at their terminals (mtbdd_core.h, mtbdd_class.h,   *)
(* mtbdd.cpp, mtbdd_iter.cpp), in the recursive and the iterative form.    *)
(*                                                                         *)
(* An MTBDD or MTZDD is the function from sets of variables to the values  *)
(* it stands for; equal functions are equal edges.  The two kinds differ   *)
(* in what a missing variable means: any value in an MTBDD, the value zero *)
(* when it is chosen in an MTZDD.                                          *)
(***************************************************************************)
EXTENDS BddOps

Kinds == {"mtbdd", "mtzdd"}
Sets == SUBSET Vars
Zero == 0                          \* T{}, the terminal of index 0

Everywhere(c) == [s \in Sets |-> c]
OnlyEmpty(c) == [s \in Sets |-> IF s = {} THEN c ELSE Zero]
terminal(kind, c) == IF kind = "mtbdd" THEN Everywhere(c) ELSE OnlyEmpty(c)
BrokenMap == Everywhere(-99)

TopLevel(W) == IF W = {} THEN 0
               ELSE CHOOSE n \in {LevelOf(v) : v \in W} : \A w \in W : LevelOf(w) <= n

\* The variables a node of the diagram has.
SupportOf(kind, m) ==
  IF kind = "mtbdd" THEN {v \in Vars : \E s \in Sets : m[s] # m[Flip(s, v)]}
  ELSE UNION {s \in Sets : m[s] # Zero}
MLevel(kind, m) == TopLevel(SupportOf(kind, m))
IsTerminal(kind, m) == SupportOf(kind, m) = {}
Value(m) == m[{}]
MTop(kind, m) == VarOf(MLevel(kind, m))
HighestMap(kind, F) == VarOf(TopLevel(UNION {SupportOf(kind, m) : m \in F}))

\* The child of an operand on side b of variable v, which it may lack.
Side(kind, m, v, b) ==
  IF kind = "mtbdd" THEN [s \in Sets |-> m[IF b = 1 THEN s \cup {v} ELSE s \ {v}]]
  ELSE [s \in Sets |-> IF v \in s THEN Zero ELSE m[IF b = 1 THEN s \cup {v} ELSE s]]
MLo(kind, m) == Side(kind, m, MTop(kind, m), 0)
MHi(kind, m) == Side(kind, m, MTop(kind, m), 1)

\* mtbdd_getnode_raw and mtzdd_getnode_raw.
MNode(kind, v, lo, hi) ==
  IF MLevel(kind, lo) >= LevelOf(v) \/ MLevel(kind, hi) >= LevelOf(v) THEN BrokenMap
  ELSE [s \in Sets |-> IF v \notin s THEN lo[s] ELSE IF kind = "mtbdd" THEN hi[s] ELSE hi[s \ {v}]]

RECURSIVE apply_rec(_, _, _, _), ite_rec(_, _, _, _), mtbdd_from_bdd_rec(_, _, _),
          mtzdd_from_zdd_rec(_, _, _), mtzdd_cofactor0_rec(_, _), mtzdd_cofactor1_rec(_, _),
          mtzdd_to_zdd_rec(_, _), mtzdd_enumerate_rec(_), mtzdd_count_rec(_),
          mtzdd_count_for_terminal_rec(_, _)

-----------------------------------------------------------------------------
\* Pointwise operations.  The functors of operator+, -, *, min and max.
BinOp(op, x, y) ==
  CASE op = "+" -> x + y
    [] op = "-" -> x - y
    [] op = "*" -> x * y
    [] op = "min" -> IF x < y THEN x ELSE y
    [] op = "max" -> IF x < y THEN y ELSE x

apply_rec(kind, op, f, g) ==
  LET v == HighestMap(kind, {f, g})
      on(b) == apply_rec(kind, op, Side(kind, f, v, b), Side(kind, g, v, b))
  IN  IF IsTerminal(kind, f) /\ IsTerminal(kind, g)
      THEN terminal(kind, BinOp(op, Value(f), Value(g)))
      ELSE MNode(kind, v, on(0), on(1))

apply_iter(kind, a, got) ==
  LET op == a[1]  f == a[2]  g == a[3]  v == HighestMap(kind, {f, g})
      on(b) == <<op, Side(kind, f, v, b), Side(kind, g, v, b)>>
  IN  IF IsTerminal(kind, f) /\ IsTerminal(kind, g)
      THEN Answer(terminal(kind, BinOp(op, Value(f), Value(g))))
      ELSE Open({a}, <<on(0), on(1)>>, got, MNode(kind, v, got[1], got[2]))

mtbdd_apply_rec(op, f, g) == apply_rec("mtbdd", op, f, g)
mtzdd_apply_rec(op, f, g) == apply_rec("mtzdd", op, f, g)
mtbdd_apply_iter(a, got) == apply_iter("mtbdd", a, got)
mtzdd_apply_iter(a, got) == apply_iter("mtzdd", a, got)

\* Mutant: a terminal condition decides an MTZDD as it decides an MTBDD.
IteDoneOnTerminal(kind, f, g, h) == g = h \/ IsTerminal(kind, f)

\* If-then-else on a condition that is not zero.  Below a condition that has
\* become a terminal an MTZDD may still lose the variables of its branches.
IteDone(kind, f, g, h) ==
  \/ g = h
  \/ /\ IsTerminal(kind, f)
     /\ \/ kind = "mtbdd"
        \/ Value(f) = Zero
        \/ IsTerminal(kind, g) /\ IsTerminal(kind, h)
IteResult(kind, f, g, h) == IF IsTerminal(kind, f) /\ Value(f) = Zero THEN h ELSE g

ite_rec(kind, f, g, h) ==
  LET v == HighestMap(kind, {f, g, h})
      on(b) == ite_rec(kind, Side(kind, f, v, b), Side(kind, g, v, b), Side(kind, h, v, b))
  IN  IF IteDone(kind, f, g, h) THEN IteResult(kind, f, g, h)
      ELSE MNode(kind, v, on(0), on(1))

ite_iter(kind, a, got) ==
  LET f == a[1]  g == a[2]  h == a[3]  v == HighestMap(kind, {f, g, h})
      on(b) == <<Side(kind, f, v, b), Side(kind, g, v, b), Side(kind, h, v, b)>>
  IN  IF IteDone(kind, f, g, h) THEN Answer(IteResult(kind, f, g, h))
      ELSE Open({a}, <<on(0), on(1)>>, got, MNode(kind, v, got[1], got[2]))

mtbdd_ite_rec(f, g, h) == ite_rec("mtbdd", f, g, h)
mtzdd_ite_rec(f, g, h) == ite_rec("mtzdd", f, g, h)
mtbdd_ite_iter(a, got) == ite_iter("mtbdd", a, got)
mtzdd_ite_iter(a, got) == ite_iter("mtzdd", a, got)

-----------------------------------------------------------------------------
\* From a BDD, whose complement edge exchanges the two terminals: the cache
\* serves a BDD and its negation.
mtbdd_from_bdd_rec(f, zt, ot) ==
  LET fn == Strip(f)  z == IF Comp(f) THEN ot ELSE zt  o == IF Comp(f) THEN zt ELSE ot
  IN  IF Constant(f) THEN Everywhere(IF f = False THEN zt ELSE ot)
      ELSE MNode("mtbdd", Top(fn), mtbdd_from_bdd_rec(Lo0(fn), z, o),
                 mtbdd_from_bdd_rec(Hi1(fn), z, o))

mtbdd_from_bdd_iter(a, got) ==
  LET f == a[1]  fn == Strip(f)
      z == IF Comp(f) THEN a[3] ELSE a[2]  o == IF Comp(f) THEN a[2] ELSE a[3]
  IN  IF Constant(f) THEN Answer(Everywhere(IF f = False THEN a[2] ELSE a[3]))
      ELSE Open({<<fn, z, o>>, <<bddnot(fn), o, z>>}, <<<<Lo0(fn), z, o>>, <<Hi1(fn), z, o>>>>,
                got, MNode("mtbdd", Top(fn), got[1], got[2]))

\* From a ZDD, whose complement edge is that of its lo side only.
mtzdd_from_zdd_rec(f, zt, ot) ==
  IF Terminal(f) THEN OnlyEmpty(IF f = Empty THEN zt ELSE ot)
  ELSE MNode("mtzdd", TopVar(f), mtzdd_from_zdd_rec(Lo(f), zt, ot),
             mtzdd_from_zdd_rec(Hi(f), zt, ot))

mtzdd_from_zdd_iter(a, got) ==
  LET f == a[1]
  IN  IF Terminal(f) THEN Answer(OnlyEmpty(IF f = Empty THEN a[2] ELSE a[3]))
      ELSE Open({a}, <<<<Lo(f), a[2], a[3]>>, <<Hi(f), a[2], a[3]>>>>, got,
                MNode("mtzdd", TopVar(f), got[1], got[2]))

-----------------------------------------------------------------------------
\* MTZDD: cofactors, the sets whose terminal is one of some, and counts.
mtzdd_cofactor0_rec(f, v) ==
  LET w == MTop("mtzdd", f)  lo == MLo("mtzdd", f)  hi == MHi("mtzdd", f)
  IN  IF MLevel("mtzdd", f) < LevelOf(v) THEN f
      ELSE IF w = v THEN lo
      ELSE MNode("mtzdd", w, mtzdd_cofactor0_rec(lo, v), mtzdd_cofactor0_rec(hi, v))

mtzdd_cofactor0_iter(a, got) ==
  LET f == a[1]  v == a[2]  w == MTop("mtzdd", f)
      lo == MLo("mtzdd", f)  hi == MHi("mtzdd", f)
  IN  IF MLevel("mtzdd", f) < LevelOf(v) THEN Answer(f)
      ELSE IF w = v THEN Keep({a}, lo)
      ELSE Open({a}, <<<<lo, v>>, <<hi, v>>>>, got, MNode("mtzdd", w, got[1], got[2]))

mtzdd_cofactor1_rec(f, v) ==
  LET w == MTop("mtzdd", f)  lo == MLo("mtzdd", f)  hi == MHi("mtzdd", f)
  IN  IF MLevel("mtzdd", f) < LevelOf(v) THEN OnlyEmpty(Zero)
      ELSE IF w = v THEN hi
      ELSE MNode("mtzdd", w, mtzdd_cofactor1_rec(lo, v), mtzdd_cofactor1_rec(hi, v))

mtzdd_cofactor1_iter(a, got) ==
  LET f == a[1]  v == a[2]  w == MTop("mtzdd", f)
      lo == MLo("mtzdd", f)  hi == MHi("mtzdd", f)
  IN  IF MLevel("mtzdd", f) < LevelOf(v) THEN Answer(OnlyEmpty(Zero))
      ELSE IF w = v THEN Keep({a}, hi)
      ELSE Open({a}, <<<<lo, v>>, <<hi, v>>>>, got, MNode("mtzdd", w, got[1], got[2]))

\* pred is the set of the values whose terminals are kept.
mtzdd_to_zdd_rec(f, pred) ==
  IF IsTerminal("mtzdd", f) THEN (IF Value(f) \in pred THEN Single ELSE Empty)
  ELSE Node(MTop("mtzdd", f), mtzdd_to_zdd_rec(MLo("mtzdd", f), pred),
            mtzdd_to_zdd_rec(MHi("mtzdd", f), pred))

mtzdd_to_zdd_iter(a, got) ==
  LET f == a[1]  pred == a[2]
  IN  IF IsTerminal("mtzdd", f) THEN Answer(IF Value(f) \in pred THEN Single ELSE Empty)
      ELSE Open({a}, <<<<MLo("mtzdd", f), pred>>, <<MHi("mtzdd", f), pred>>>>, got,
                Node(MTop("mtzdd", f), got[1], got[2]))

\* The pairs of a set and its value in the order of the walk, lo side first;
\* the code appends them to one list as it goes.
WithVar(v, pairs) == [i \in DOMAIN pairs |-> <<pairs[i][1] \cup {v}, pairs[i][2]>>]

mtzdd_enumerate_rec(f) ==
  IF IsTerminal("mtzdd", f) THEN (IF Value(f) = Zero THEN <<>> ELSE <<<<{}, Value(f)>>>>)
  ELSE mtzdd_enumerate_rec(MLo("mtzdd", f))
         \o WithVar(MTop("mtzdd", f), mtzdd_enumerate_rec(MHi("mtzdd", f)))

mtzdd_enumerate_iter(a, got) ==
  LET f == a[1]
  IN  IF IsTerminal("mtzdd", f) THEN Answer(mtzdd_enumerate_rec(f))
      ELSE Relay(<<<<MLo("mtzdd", f)>>, <<MHi("mtzdd", f)>>>>, got,
                 got[1] \o WithVar(MTop("mtzdd", f), got[2]))

mtzdd_count_rec(f) ==
  IF IsTerminal("mtzdd", f) THEN (IF Value(f) = Zero THEN 0 ELSE 1)
  ELSE mtzdd_count_rec(MLo("mtzdd", f)) + mtzdd_count_rec(MHi("mtzdd", f))

mtzdd_count_iter(a, got) ==
  LET f == a[1]
  IN  IF IsTerminal("mtzdd", f) THEN Answer(IF Value(f) = Zero THEN 0 ELSE 1)
      ELSE Open({a}, <<<<MLo("mtzdd", f)>>, <<MHi("mtzdd", f)>>>>, got, got[1] + got[2])

mtzdd_count_for_terminal_rec(f, t) ==
  IF IsTerminal("mtzdd", f) THEN (IF Value(f) = t THEN 1 ELSE 0)
  ELSE mtzdd_count_for_terminal_rec(MLo("mtzdd", f), t)
         + mtzdd_count_for_terminal_rec(MHi("mtzdd", f), t)

mtzdd_count_for_terminal_iter(a, got) ==
  LET f == a[1]  t == a[2]
  IN  IF IsTerminal("mtzdd", f) THEN Answer(IF Value(f) = t THEN 1 ELSE 0)
      ELSE Open({a}, <<<<MLo("mtzdd", f), t>>, <<MHi("mtzdd", f), t>>>>, got, got[1] + got[2])

\* The exact counts are the same walks on big integers.
mtzdd_exact_count_rec(f) == mtzdd_count_rec(f)
mtzdd_exact_count_iter(a, got) == mtzdd_count_iter(a, got)
mtzdd_exact_count_for_terminal_rec(f, t) == mtzdd_count_for_terminal_rec(f, t)
mtzdd_exact_count_for_terminal_iter(a, got) == mtzdd_count_for_terminal_iter(a, got)

-----------------------------------------------------------------------------
\* The value at an assignment given for the variables below size.  An MTZDD
\* looks at every level, for a chosen variable that no node mentions.
TooShort == -99          \* assignment too short: the call throws

RECURSIVE EvaluateBdd(_, _, _), EvaluateZdd(_, _, _, _)
EvaluateBdd(m, size, s) ==
  LET v == MTop("mtbdd", m)
  IN  IF IsTerminal("mtbdd", m) THEN Value(m)
      ELSE IF v >= size THEN TooShort
      ELSE EvaluateBdd(Side("mtbdd", m, v, IF v \in s THEN 1 ELSE 0), size, s)

EvaluateZdd(m, n, size, s) ==
  LET v == VarOf(n)
  IN  IF n = 0 THEN Value(m)
      ELSE IF MLevel("mtzdd", m) = n
      THEN IF v >= size THEN TooShort
           ELSE EvaluateZdd(Side("mtzdd", m, v, IF v \in s THEN 1 ELSE 0), n - 1, size, s)
      ELSE IF v < size /\ v \in s THEN Zero
      ELSE EvaluateZdd(m, n - 1, size, s)
=============================================================================
