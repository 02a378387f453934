------------------------------- MODULE ZddOps -------------------------------
(***************************************************************************)
(* The operations of zdd_ops.cpp beyond those of module Apply: one         *)
(* variable at a time, inclusion, and the algebra of families.  foo is the *)
(* recursive form with its public wrapper; the loops of the iterative form *)
(* are in module ZddLoops, except those of the two shifts.                 *)
(***************************************************************************)
EXTENDS ZddLoops

RECURSIVE bddoffset(_, _), bddonset(_, _), bddonset0(_, _), bddchange(_, _),
          bddissubset(_, _), bddisdisjoint(_, _), bddlshiftz(_, _),
          bddrshiftz(_, _), bdddiv(_, _), bddjoin(_, _), bddproduct(_, _),
          bddmeet(_, _), bdddelta(_, _)

-----------------------------------------------------------------------------
\* One variable.

bddpush(f, v) == Node(v, Empty, f)

bddoffset(f, v) ==
  IF Terminal(f) \/ Level(f) < LevelOf(v) THEN f
  ELSE IF TopVar(f) = v THEN Lo(f)
  ELSE Node(TopVar(f), bddoffset(Lo(f), v), bddoffset(Hi(f), v))

bddonset(f, v) ==
  IF Terminal(f) \/ Level(f) < LevelOf(v) THEN Empty
  ELSE IF TopVar(f) = v THEN Node(v, Empty, Hi(f))
  ELSE Node(TopVar(f), bddonset(Lo(f), v), bddonset(Hi(f), v))

bddonset0(f, v) ==
  IF Terminal(f) \/ Level(f) < LevelOf(v) THEN Empty
  ELSE IF TopVar(f) = v THEN Hi(f)
  ELSE Node(TopVar(f), bddonset0(Lo(f), v), bddonset0(Hi(f), v))

\* A variable above the top goes on top.
bddchange(f, v) ==
  IF f = Empty THEN Empty
  ELSE IF Level(f) < LevelOf(v) THEN Node(v, Empty, f)
  ELSE IF TopVar(f) = v THEN Node(v, Hi(f), Lo(f))
  ELSE Node(TopVar(f), bddchange(Lo(f), v), bddchange(Hi(f), v))

\* Every variable moves up by n levels, the missing ones are created.  The
\* cache serves the edge without its complement bit.
bddlshiftz(f, n) ==
  IF Terminal(f) \/ n = 0 THEN f
  ELSE IF HasEmpty(f) THEN Toggle(bddlshiftz(Plain(f), n))
  ELSE Node(VarOf(Level(f) + n), bddlshiftz(Lo(f), n), bddlshiftz(Hi(f), n))

bdd_lshift_iter(a, got) ==
  LET f == a[1]  n == a[2]
  IN  IF Terminal(f) \/ n = 0 THEN Answer(f)
      ELSE IF HasEmpty(f) THEN Relay(<<<<Plain(f), n>>>>, got, Toggle(got[1]))
      ELSE Open(One(f, n), <<<<Lo(f), n>>, <<Hi(f), n>>>>, got,
                Node(VarOf(Level(f) + n), got[1], got[2]))

\* The node is checked before its children are visited.
bddrshiftz(f, n) ==
  IF Terminal(f) \/ n = 0 THEN f
  ELSE IF Level(f) <= n THEN Thrown
  ELSE IF HasEmpty(f)
  THEN LET r == bddrshiftz(Plain(f), n) IN IF r = Thrown THEN r ELSE Toggle(r)
  ELSE Node(VarOf(Level(f) - n), bddrshiftz(Lo(f), n), bddrshiftz(Hi(f), n))

bdd_rshift_iter(a, got) ==
  LET f == a[1]  n == a[2]
  IN  IF Terminal(f) \/ n = 0 THEN Answer(f)
      ELSE IF Level(f) <= n THEN Answer(Thrown)
      ELSE IF Thrown \in ToSet(got) THEN Answer(Thrown)
      ELSE IF HasEmpty(f) THEN Relay(<<<<Plain(f), n>>>>, got, Toggle(got[1]))
      ELSE Open(One(f, n), <<<<Lo(f), n>>, <<Hi(f), n>>>>, got,
                Node(VarOf(Level(f) - n), got[1], got[2]))

-----------------------------------------------------------------------------
\* Inclusion and disjointness: the hi sides first, and the lo sides only when
\* the hi sides did not decide.

bddissubset(f, g) ==
  CASE f = Empty \/ f = g -> TRUE
    [] f # Empty /\ g = Empty -> FALSE
    [] f = Single /\ g \notin {Empty, Single} -> HasEmpty(g)
    [] ~Terminal(f) /\ g = Single -> FALSE
    [] ~Terminal(f) /\ ~Terminal(g) /\ f # g ->
         CASE Level(f) > Level(g) -> FALSE
           [] Level(f) < Level(g) -> bddissubset(f, Lo(g))
           [] OTHER -> bddissubset(Hi(f), Hi(g)) /\ bddissubset(Lo(f), Lo(g))

bddisdisjoint(f, g) ==
  CASE Empty \in {f, g} -> TRUE
    [] f = g /\ f # Empty -> FALSE
    [] f = Single /\ g \notin {Empty, Single} -> ~HasEmpty(g)
    [] g = Single /\ f \notin {Empty, Single} -> ~HasEmpty(f)
    [] ~Terminal(f) /\ ~Terminal(g) /\ f # g ->
         CASE Level(f) > Level(g) -> bddisdisjoint(Lo(f), g)
           [] Level(f) < Level(g) -> bddisdisjoint(f, Lo(g))
           [] OTHER -> bddisdisjoint(Hi(f), Hi(g)) /\ bddisdisjoint(Lo(f), Lo(g))

-----------------------------------------------------------------------------
\* Quotient and remainder.

\* Mutant: the lo sides are not asked.
DivOfHiOnly(f, g) ==
  IF g = Single THEN f
  ELSE IF Terminal(f) \/ g = Empty \/ Level(g) > Level(f) THEN Empty
  ELSE IF Level(f) > Level(g)
  THEN Node(TopVar(f), bdddiv(Lo(f), g), bdddiv(Hi(f), g))
  ELSE bdddiv(Hi(f), Hi(g))

bdddiv(f, g) ==
  IF g = Single THEN f
  ELSE IF Terminal(f) \/ g = Empty \/ Level(g) > Level(f) THEN Empty
  ELSE IF Level(f) > Level(g)
  THEN Node(TopVar(f), bdddiv(Lo(f), g), bdddiv(Hi(f), g))
  ELSE bdddiv(Hi(f), Hi(g)) \cap (IF Lo(g) = Empty THEN bdddiv(Hi(f), Hi(g))
                                  ELSE bdddiv(Lo(f), Lo(g)))

bddremainder(f, g) ==
  IF f = Empty \/ g = Single \/ f = g THEN Empty
  ELSE f \ bddjoin(g, bdddiv(f, g))

-----------------------------------------------------------------------------
\* Pairwise union, of all pairs and of operands over disjoint variables.

bddjoin(f, g) ==
  LET v == Higher(f, g)
  IN  IF Empty \in {f, g} THEN Empty
      ELSE IF f = Single THEN g
      ELSE IF g = Single THEN f
      ELSE IF Level(f) # Level(g)
      THEN Node(v, bddjoin(Off(f, v), Off(g, v)), bddjoin(Down(f, v), Down(g, v)))
      ELSE Node(v, bddjoin(Lo(f), Lo(g)),
                bddjoin(Lo(f), Hi(g)) \cup bddjoin(Hi(f), Lo(g))
                  \cup bddjoin(Hi(f), Hi(g)))

bddproduct(f, g) ==
  LET v == Higher(f, g)
  IN  IF Empty \in {f, g} THEN Empty
      ELSE IF f = Single THEN g
      ELSE IF g = Single THEN f
      ELSE IF Level(f) = Level(g) THEN Thrown
      ELSE Node(v, bddproduct(Off(f, v), Off(g, v)),
                   bddproduct(Down(f, v), Down(g, v)))

\* Pairwise intersection: what is only in one operand's sets disappears.
bddmeet(f, g) ==
  LET v == Higher(f, g)
  IN  IF Empty \in {f, g} THEN Empty
      ELSE IF Single \in {f, g} THEN Single
      ELSE IF Level(f) # Level(g)
      THEN bddmeet(Off(f, v), Off(g, v)) \cup bddmeet(Down(f, v), Down(g, v))
      ELSE Node(v, bddmeet(Lo(f), Lo(g)) \cup bddmeet(Lo(f), Hi(g))
                     \cup bddmeet(Hi(f), Lo(g)),
                bddmeet(Hi(f), Hi(g)))

\* Pairwise symmetric difference.
bdddelta(f, g) ==
  LET v == Higher(f, g)
  IN  IF Empty \in {f, g} THEN Empty
      ELSE IF f = Single THEN g
      ELSE IF g = Single THEN f
      ELSE IF Level(f) # Level(g)
      THEN Node(v, bdddelta(Off(f, v), Off(g, v)), bdddelta(Down(f, v), Down(g, v)))
      ELSE Node(v, bdddelta(Lo(f), Lo(g)) \cup bdddelta(Hi(f), Hi(g)),
                   bdddelta(Lo(f), Hi(g)) \cup bdddelta(Hi(f), Lo(g)))
=============================================================================
