---------------------------- MODULE ApplyProofs -----------------------------
(***************************************************************************)
(* The binary operations compute what they promise, for every number of    *)
(* variables, nodes, objects, calls and cache slots.                       *)
(***************************************************************************)
EXTENDS Apply, NodeTableProofs

(***************************************************************************)
(* What the cofactors, the terminal cases, the keys and the join of the    *)
(* binary operations mean, in one state.                                   *)
(***************************************************************************)
\* The nodes of the diagrams of the class of the objects, and their edges.
KindNodes ==
  {n \in ReducedNodes :
     \E S \in SUBSET ReducedNodes : n \in S /\ Diagrams(kind, S)}

Ours(e) == OfKind(kind, KindNodes, e)

Base ==
  VarOrderInv /\ StoreInv /\ varcount = VarMax /\ kind \in {"bdd", "zdd"}

LargestKind ==
  \A k, S, e : k = kind /\ Diagrams(k, S) /\ OfKind(k, S, e) => Ours(e)

-----------------------------------------------------------------------------
LEMMA KindNodesMax ==
  ASSUME NEW S, Diagrams(kind, S)
  PROVE  S \subseteq KindNodes
BY DEF KindNodes, Diagrams

LEMMA LargestKindHolds == LargestKind
BY KindNodesMax DEF LargestKind, Ours, OfKind

LEMMA LargestKindNext == LargestKind'
BY LargestKindHolds, PTL

LEMMA KindNodesDiagrams == Diagrams(kind, KindNodes)
<1> SUFFICES ASSUME NEW n \in KindNodes
             PROVE  /\ Ours(nodes[n].lo) /\ Ours(nodes[n].hi)
                    /\ NormalPair(kind, nodes[n].lo, nodes[n].hi)
  BY DEF Diagrams, KindNodes, Ours
<1>1. PICK S \in SUBSET ReducedNodes : n \in S /\ Diagrams(kind, S)
  BY DEF KindNodes
<1>2. QED
  BY <1>1, LargestKindHolds DEF LargestKind, Diagrams

\* What the edges of the class look like.
LEMMA OursFacts ==
  ASSUME Base, NEW e, Ours(e)
  PROVE  /\ e \in Edges /\ e.comp \in {0, 1} /\ e # Null
         /\ Sound(e) /\ Within(Allocated, e) /\ Within(KindNodes, e)
         /\ Level(e) \in Nat
         /\ e.node = 0 => e \in {False, True} /\ Level(e) = 0
         /\ e.node # 0 =>
              /\ nodes[e.node].var \in VarsUsed
              /\ Level(e) = var2level[nodes[e.node].var] /\ Level(e) > 0
              /\ \A b : /\ Ours(ChildOf(kind, e, b))
                        /\ Level(ChildOf(kind, e, b)) < Level(e)
<1>1. kind \in Reducing /\ VarOrderInv /\ StoreInv
  BY DEF Base, Reducing, Kinds
<1>2. Diagrams(kind, KindNodes)
  BY KindNodesDiagrams
<1>3. OfKind(kind, KindNodes, e)
  BY DEF Ours
<1>4. /\ e \in Edges /\ Sound(e) /\ Within(Allocated, e)
      /\ (kind \in {"bdd", "zdd", "qdd"} => e.comp \in {0, 1})
  BY <1>1, <1>2, <1>3, KindGood, EdgeOfKind
<1>5. e.node = 0 => e \in {False, True}
  BY <1>3 DEF OfKind, ConstsOf, Base
<1>6. e # Null
  BY <1>4 DEF Null, Const, Base
<1>7. QED
  BY <1>1, <1>2, <1>3, <1>4, <1>5, <1>6, KindFacts DEF Ours, Base

LEMMA ConstsOurs ==
  ASSUME Base
  PROVE  /\ Ours(False) /\ Ours(True)
         /\ False.node = 0 /\ True.node = 0 /\ False.comp = 0 /\ True.comp = 1
         /\ Level(False) = 0 /\ Level(True) = 0
BY DEF Ours, OfKind, ConstsOf, False, True, Const, Level, Base

LEMMA NotIsOurs ==
  ASSUME Base, NEW e, Ours(e)
  PROVE  /\ Ours(Not(e)) /\ Level(Not(e)) = Level(e) /\ Not(Not(e)) = e
         /\ Not(e).node = e.node /\ Not(e).comp = 1 - e.comp
<1>1. e \in Edges /\ e.comp \in {0, 1}
  BY OursFacts
<1>2. OfKind(kind, KindNodes, Not(e))
  BY NotOfKind DEF Ours, Base
<1>3. Not(e) = [node |-> e.node, comp |-> 1 - e.comp]
  BY <1>1 DEF Not, Edges, Consts
<1>4. e = [node |-> e.node, comp |-> e.comp]
  BY <1>1 DEF Edges, Consts
<1>5. Not(e).comp = 1 - e.comp /\ Not(e).comp \in {0, 1}
  BY <1>1, <1>3
<1>6. Not(Not(e)) = [node |-> e.node, comp |-> 1 - (1 - e.comp)]
  BY <1>3, <1>5 DEF Not
<1>7. Not(Not(e)) = e
  BY <1>1, <1>4, <1>6
<1>8. QED
  BY <1>1, <1>2, <1>5, <1>7, NotFacts DEF Ours

LEMMA PlainIsOurs ==
  ASSUME Base, NEW e, Ours(e)
  PROVE  /\ Ours(Plain(e)) /\ Level(Plain(e)) = Level(e)
         /\ Plain(e).node = e.node
         /\ e.comp = 0 => Plain(e) = e
         /\ e.comp = 1 => Plain(e) = Not(e)
<1>1. e \in Edges /\ e.comp \in {0, 1}
  BY OursFacts
<1>2. /\ e.comp = 0 => Plain(e) = e
      /\ e.comp = 1 => Plain(e) = Not(e)
  BY <1>1 DEF Plain, Not, Edges, Consts
<1>3. QED
  BY <1>1, <1>2, NotIsOurs

-----------------------------------------------------------------------------
(***************************************************************************)
(* Induction over the levels of the edges of the class.                    *)
(***************************************************************************)
LEMMA LowestWrong ==
  ASSUME Base, NEW W, \E e \in W : Ours(e)
  PROVE  \E e \in W : /\ Ours(e)
                      /\ \A d \in W : Ours(d) => Level(e) <= Level(d)
<1>1. PICK T : T = {l \in Nat : \E e \in W : Ours(e) /\ l = Level(e)}
  OBVIOUS
<1>2. T \subseteq Nat /\ T # {}
  BY <1>1, OursFacts
<1>3. PICK l \in T : \A m \in T : l <= m
  BY <1>2, NatMin
<1>4. QED
  BY <1>1, <1>3, OursFacts

LEMMA OursUnfolds ==
  ASSUME Base, NEW e, Ours(e), NEW a \in Assignments
  PROVE  Value(kind, e, a) = Unfolded(kind, e, a)
BY Unfolding, OursFacts DEF Base, StoreInv, ValueUnfolds

\* A diagram of a BDD or ZDD has the values 0 and 1.
LEMMA Bits ==
  ASSUME Base, NEW e, Ours(e), NEW a \in Assignments
  PROVE  Value(kind, e, a) \in {0, 1}
<1> DEFINE Wrong(d) == \E b \in Assignments : Value(kind, d, b) \notin {0, 1}
<1>1. PICK W : W = {d \in Edges : Ours(d) /\ Wrong(d)}
  OBVIOUS
<1> SUFFICES ASSUME \E d \in W : Ours(d) PROVE FALSE
  BY <1>1, OursFacts
<1>2. PICK d \in W : Ours(d) /\ \A x \in W : Ours(x) => Level(d) <= Level(x)
  BY LowestWrong
<1>3. PICK b \in Assignments : Value(kind, d, b) \notin {0, 1}
  BY <1>1, <1>2
<1>4. Value(kind, d, b) = Unfolded(kind, d, b)
  BY <1>2, OursUnfolds
<1>5. CASE d.node = 0
  BY <1>2, <1>3, <1>4, <1>5, OursFacts DEF Unfolded
<1>6. CASE d.node # 0
  <2> DEFINE v == nodes[d.node].var
  <2>1. PICK c : c = ChildOf(kind, d, IF v \in b THEN 1 ELSE 0)
    OBVIOUS
  <2>2. PICK q : q = IF ZeroSuppressed(kind) THEN b \ {v} ELSE b
    OBVIOUS
  <2>3. Ours(c) /\ Level(c) < Level(d) /\ Level(c) \in Nat /\ Level(d) \in Nat
    BY <1>2, <1>6, <2>1, OursFacts
  <2>4. c \in Edges /\ c \notin W /\ q \in Assignments
    BY <1>2, <2>2, <2>3, OursFacts DEF Assignments
  <2>5. Value(kind, c, q) \in {0, 1}
    BY <1>1, <2>3, <2>4
  <2>6. Unfolded(kind, d, b) \in {0, Value(kind, c, q)}
    BY <1>6, <2>1, <2>2 DEF Unfolded
  <2>7. QED
    BY <1>3, <1>4, <2>5, <2>6
<1>7. QED
  BY <1>5, <1>6

\* A complemented BDD is the negation.
LEMMA Negated ==
  ASSUME Base, kind = "bdd", NEW e, Ours(e), NEW a \in Assignments
  PROVE  Value(kind, Not(e), a) = 1 - Value(kind, e, a)
<1> DEFINE Wrong(d) == Value(kind, Not(d), a) # 1 - Value(kind, d, a)
<1>1. PICK W : W = {d \in Edges : Ours(d) /\ Wrong(d)}
  OBVIOUS
<1> SUFFICES ASSUME \E d \in W : Ours(d) PROVE FALSE
  BY <1>1, OursFacts
<1>2. PICK d \in W : Ours(d) /\ \A x \in W : Ours(x) => Level(d) <= Level(x)
  BY LowestWrong
<1>3. ~ ZeroSuppressed(kind)
  BY DEF ZeroSuppressed
<1>4. /\ Ours(Not(d)) /\ Not(d).node = d.node /\ Not(d).comp = 1 - d.comp
      /\ d.comp \in {0, 1}
  BY <1>2, NotIsOurs, OursFacts
<1>5. /\ Value(kind, d, a) = Unfolded(kind, d, a)
      /\ Value(kind, Not(d), a) = Unfolded(kind, Not(d), a)
  BY <1>2, <1>4, OursUnfolds
<1>6. CASE d.node = 0
  BY <1>1, <1>2, <1>3, <1>4, <1>5, <1>6 DEF Unfolded
<1>7. CASE d.node # 0
  <2> DEFINE v == nodes[d.node].var
  <2>1. PICK b \in {0, 1} : b = IF v \in a THEN 1 ELSE 0
    OBVIOUS
  <2>2. PICK c : c = ChildOf(kind, d, b)
    OBVIOUS
  <2>3. Ours(c) /\ Level(c) < Level(d) /\ Level(c) \in Nat /\ Level(d) \in Nat
    BY <1>2, <1>7, <2>2, OursFacts
  <2>4. c \in Edges /\ c \notin W
    BY <1>2, <2>3, OursFacts
  <2>5. Value(kind, Not(c), a) = 1 - Value(kind, c, a)
    BY <1>1, <2>3, <2>4
  <2>6. ChildOf(kind, Not(d), b) = Not(c)
    <3>1. PICK n : n = IF b = 0 THEN nodes[d.node].lo ELSE nodes[d.node].hi
      OBVIOUS
    <3>2. /\ d.comp = 0 => c = n /\ ChildOf(kind, Not(d), b) = Not(n)
          /\ d.comp = 1 => c = Not(n) /\ ChildOf(kind, Not(d), b) = n
      BY <1>4, <2>2, <3>1 DEF ChildOf
    <3>3. Ours(n)
      BY <1>2, <1>7, <3>1, KindNodesDiagrams DEF Ours, OfKind, Diagrams
    <3>4. QED
      BY <1>4, <3>2, <3>3, NotIsOurs
  <2>7. /\ Unfolded(kind, d, a) = Value(kind, c, a)
        /\ Unfolded(kind, Not(d), a) = Value(kind, Not(c), a)
    BY <1>3, <1>4, <1>7, <2>1, <2>2, <2>6 DEF Unfolded
  <2>8. QED
    BY <1>1, <1>2, <1>5, <2>5, <2>7
<1>8. QED
  BY <1>6, <1>7

-----------------------------------------------------------------------------
(***************************************************************************)
(* The cofactors: by a variable at or above its level an edge is taken     *)
(* apart without loss.                                                     *)
(***************************************************************************)
LEMMA CofactorCases ==
  ASSUME Base, NEW v \in VarsUsed, NEW e, Ours(e), Level(e) <= var2level[v]
  PROVE  /\ var2level[v] \in Nat /\ var2level[v] > 0
         /\ \/ /\ e.node # 0 /\ nodes[e.node].var = v /\ Level(e) = var2level[v]
               /\ \A b : Cofactor(e, v, b) = ChildOf(kind, e, b)
            \/ /\ Level(e) < var2level[v] /\ Cofactor(e, v, 0) = e
               /\ kind = "bdd" => \A b : Cofactor(e, v, b) = e
               /\ kind = "zdd" => Cofactor(e, v, 1) = False
<1>1. var2level[v] \in Nat /\ var2level[v] > 0 /\ Level(e) \in Nat
  BY PositiveLevels, OursFacts DEF LevelsPositive, Base
<1>2. CASE e.node # 0 /\ nodes[e.node].var = v
  BY <1>1, <1>2, OursFacts DEF Cofactor
<1>3. CASE ~ (e.node # 0 /\ nodes[e.node].var = v)
  <2>1. Level(e) < var2level[v]
    <3>1. CASE e.node = 0
      BY <1>1, <3>1, OursFacts
    <3>2. CASE e.node # 0
      <4> DEFINE w == nodes[e.node].var
      <4>1. w \in VarsUsed /\ Level(e) = var2level[w] /\ w # v
        BY <1>3, <3>2, OursFacts
      <4>2. level2var[var2level[v]] = v /\ level2var[var2level[w]] = w
        BY <4>1 DEF Base, VarOrderInv, LevelsInverse
      <4>3. QED
        BY <1>1, <4>1, <4>2
    <3>3. QED
      BY <3>1, <3>2
  <2>2. QED
    BY <1>1, <1>3, <2>1 DEF Cofactor
<1>4. QED
  BY <1>2, <1>3

LEMMA CofactorFacts ==
  ASSUME Base, NEW v \in VarsUsed, NEW e, Ours(e), Level(e) <= var2level[v],
         NEW b \in {0, 1}
  PROVE  /\ Ours(Cofactor(e, v, b)) /\ Level(Cofactor(e, v, b)) \in Nat
         /\ Level(Cofactor(e, v, b)) < var2level[v]
         /\ Level(Cofactor(e, v, b)) <= Level(e)
<1>1. Level(e) \in Nat /\ Ours(False) /\ Level(False) = 0
  BY OursFacts, ConstsOurs
<1>2. CASE e.node # 0 /\ Cofactor(e, v, b) = ChildOf(kind, e, b)
           /\ Level(e) = var2level[v]
  <2>1. PICK c : c = ChildOf(kind, e, b)
    OBVIOUS
  <2>2. Ours(c) /\ Level(c) < Level(e) /\ Level(c) \in Nat
    BY <1>2, <2>1, OursFacts
  <2>3. QED
    BY <1>1, <1>2, <2>1, <2>2
<1>3. CASE Cofactor(e, v, b) \in {e, False} /\ Level(e) < var2level[v]
  BY <1>1, <1>3, CofactorCases
<1>4. QED
  BY <1>2, <1>3, CofactorCases DEF Base

\* No variable of a is above v.
NoneAbove(v, a) == \A u \in a : var2level[u] <= var2level[v]

\* What is left to decide once v is.
Rest(v, a) == IF kind = "zdd" THEN a \ {v} ELSE a

Side(v, a) == IF v \in a THEN 1 ELSE 0

\* Shannon's expansion, and for a ZDD the split into the sets with and
\* without v.
LEMMA Expands ==
  ASSUME Base, NEW v \in VarsUsed, NEW e, Ours(e), Level(e) <= var2level[v],
         NEW a \in Assignments
  PROVE  /\ Rest(v, a) \in Assignments
         /\ Value(kind, e, a) =
              IF kind = "zdd" /\ ~ NoneAbove(v, a) THEN 0
              ELSE Value(kind, Cofactor(e, v, Side(v, a)), Rest(v, a))
<1>1. Rest(v, a) \in Assignments
  BY DEF Rest, Assignments
<1>2. /\ Level(e) \in Nat /\ var2level[v] \in Nat
      /\ \A u \in a : var2level[u] \in Nat
      /\ ZeroSuppressed(kind) <=> kind = "zdd"
  BY OursFacts, PositiveLevels
     DEF LevelsPositive, Base, Assignments, ZeroSuppressed
<1>3. Value(kind, e, a) = Unfolded(kind, e, a)
  BY OursUnfolds
<1>4. ASSUME kind = "zdd", ~ NoneAbove(v, a)
      PROVE  Value(kind, e, a) = 0
  <2>1. ~ NoneSkipped(e, a)
    BY <1>2, <1>4 DEF NoneAbove, NoneSkipped
  <2>2. QED
    BY <1>2, <1>3, <1>4, <2>1 DEF Unfolded
<1>5. ASSUME kind = "zdd" => NoneAbove(v, a), e.node # 0,
             nodes[e.node].var = v, Level(e) = var2level[v],
             \A b : Cofactor(e, v, b) = ChildOf(kind, e, b)
      PROVE  Value(kind, e, a) = Value(kind, Cofactor(e, v, Side(v, a)), Rest(v, a))
  <2>1. kind = "zdd" => NoneSkipped(e, a)
    BY <1>5 DEF NoneAbove, NoneSkipped
  <2>2. QED
    BY <1>2, <1>3, <1>5, <2>1 DEF Unfolded, Side, Rest, Base
<1>6. ASSUME kind = "zdd" => NoneAbove(v, a), Level(e) < var2level[v],
             Cofactor(e, v, 0) = e,
             kind = "bdd" => \A b : Cofactor(e, v, b) = e,
             kind = "zdd" => Cofactor(e, v, 1) = False
      PROVE  Value(kind, e, a) = Value(kind, Cofactor(e, v, Side(v, a)), Rest(v, a))
  <2>1. CASE kind = "bdd"
    BY <1>6, <2>1 DEF Rest
  <2>2. CASE kind = "zdd" /\ v \notin a
    BY <1>6, <2>2 DEF Rest, Side
  <2>3. CASE kind = "zdd" /\ v \in a
    <3>1. Value(kind, e, a) = 0
      <4>1. ~ NoneSkipped(e, a)
        BY <1>2, <1>6, <2>3 DEF NoneSkipped
      <4>2. QED
        BY <1>2, <1>3, <2>3, <4>1 DEF Unfolded
    <3>2. Value(kind, False, Rest(v, a)) = 0
      <4>1. /\ Value(kind, False, Rest(v, a)) = Unfolded(kind, False, Rest(v, a))
            /\ False.node = 0 /\ False.comp = 0
        BY <1>1, ConstsOurs, OursUnfolds
      <4>2. QED
        BY <4>1 DEF Unfolded
    <3>3. QED
      BY <1>6, <2>3, <3>1, <3>2 DEF Side
  <2>4. QED
    BY <2>1, <2>2, <2>3 DEF Base
<1>7. QED
  BY <1>1, <1>4, <1>5, <1>6, CofactorCases

-----------------------------------------------------------------------------
\* r is the answer to operation op on f and g.
Right(op, f, g, r) ==
  /\ Ours(f) /\ Ours(g) /\ Ours(r) /\ Level(r) <= MaxLevel(f, g)
  /\ \A a \in Assignments :
       Value(kind, r, a) =
         Algebra!Pointwise(op, Value(kind, f, a), Value(kind, g, a))

LEMMA PointwiseFacts ==
  ASSUME Base, NEW op \in OpsOf(kind)
  PROVE  /\ \A x, y \in {0, 1} : Algebra!Pointwise(op, x, y) \in {0, 1}
         /\ Algebra!Pointwise(op, 0, 0) = 0
         /\ op # "subtract" => \A x, y \in {0, 1} :
              Algebra!Pointwise(op, x, y) = Algebra!Pointwise(op, y, x)
BY DEF OpsOf, Algebra!Pointwise, Base

\* Right answers on the two sides of a variable make a right answer.
LEMMA SidesRight ==
  ASSUME Base, NEW op \in OpsOf(kind), NEW v \in VarsUsed,
         NEW f, NEW g, NEW r, Ours(f), Ours(g), Ours(r),
         Level(f) <= var2level[v], Level(g) <= var2level[v],
         Level(r) <= var2level[v],
         \A b \in {0, 1} : Right(op, Cofactor(f, v, b), Cofactor(g, v, b),
                                 Cofactor(r, v, b)),
         NEW a \in Assignments
  PROVE  Value(kind, r, a) =
           Algebra!Pointwise(op, Value(kind, f, a), Value(kind, g, a))
<1>1. PICK b \in {0, 1} : b = Side(v, a)
  BY DEF Side
<1>2. PICK q \in Assignments : q = Rest(v, a)
  BY Expands
<1>3. \A e \in {f, g, r} : Value(kind, e, a) =
        IF kind = "zdd" /\ ~ NoneAbove(v, a) THEN 0
        ELSE Value(kind, Cofactor(e, v, b), q)
  BY <1>1, <1>2, Expands
<1>4. Value(kind, Cofactor(r, v, b), q) =
        Algebra!Pointwise(op, Value(kind, Cofactor(f, v, b), q),
                              Value(kind, Cofactor(g, v, b), q))
  BY DEF Right
<1>5. QED
  BY <1>3, <1>4, PointwiseFacts

LEMMA ConstValues ==
  ASSUME Base, NEW a \in Assignments
  PROVE  /\ Value(kind, False, a) = 0
         /\ kind = "bdd" => Value(kind, True, a) = 1
<1>1. /\ Value(kind, False, a) = Unfolded(kind, False, a)
      /\ Value(kind, True, a) = Unfolded(kind, True, a)
  BY ConstsOurs, OursUnfolds
<1>2. QED
  BY <1>1, ConstsOurs DEF Unfolded, ZeroSuppressed

LEMMA MaxLevelFacts ==
  ASSUME Base, NEW f, NEW g, Ours(f), Ours(g)
  PROVE  /\ MaxLevel(f, g) \in Nat
         /\ Level(f) <= MaxLevel(f, g) /\ Level(g) <= MaxLevel(f, g)
         /\ MaxLevel(f, g) \in {Level(f), Level(g)}
         /\ MaxLevel(g, f) = MaxLevel(f, g)
BY OursFacts DEF MaxLevel

\* When which answer is given at once.
LEMMA Answers ==
  ASSUME NEW op, NEW f, NEW g, NEW r, r \in Terminal(op, f, g)
  PROVE  /\ op = "and" => \/ r = False /\ (f = False \/ g = False \/ f = Not(g))
                          \/ r = g /\ (f = True \/ f = g)
                          \/ r = f /\ g = True
         /\ op = "xor" => \/ f.node = 0 /\ r = IF f = True THEN Not(g) ELSE g
                          \/ g.node = 0 /\ r = IF g = True THEN Not(f) ELSE f
                          \/ r = False /\ f = g
                          \/ r = True /\ f = Not(g)
         /\ op = "union" => \/ r = g /\ f = False
                            \/ r = f /\ (g = False \/ f = g)
         /\ op = "intersec" => \/ r = False /\ (f = False \/ g = False)
                               \/ r = f /\ f = g
         /\ op = "subtract" => \/ r = False /\ (f = False \/ f = g)
                               \/ r = f /\ g = False
         /\ op = "symdiff" => \/ r = g /\ f = False
                              \/ r = f /\ g = False
                              \/ r = False /\ f = g
<1>1. CASE op = "and"
  BY <1>1 DEF Terminal, Operation, bddand
<1>2. CASE op = "xor"
  BY <1>2 DEF Terminal, Operation, bddxor
<1>3. CASE op = "union"
  BY <1>3 DEF Terminal, Operation, bddunion
<1>4. CASE op = "intersec"
  BY <1>4 DEF Terminal, Operation, bddintersec
<1>5. CASE op = "subtract"
  BY <1>5 DEF Terminal, Operation, bddsubtract, SubtractAnswers
<1>6. CASE op = "symdiff"
  BY <1>6 DEF Terminal, Operation, bddsymdiff
<1>7. QED
  BY <1>1, <1>2, <1>3, <1>4, <1>5, <1>6

\* The answers given at once are right.
LEMMA TerminalRight ==
  ASSUME Base, NEW op \in OpsOf(kind), NEW f, NEW g, Ours(f), Ours(g),
         NEW r \in Terminal(op, f, g)
  PROVE  Right(op, f, g, r)
<1>1. \/ r \in {False, True, f, g}
      \/ kind = "bdd" /\ op = "xor" /\ r \in {Not(f), Not(g)}
  BY Answers DEF OpsOf, Base
<1>2. Ours(r) /\ Level(r) <= MaxLevel(f, g)
  BY <1>1, ConstsOurs, NotIsOurs, MaxLevelFacts
<1>3. ASSUME NEW a \in Assignments
      PROVE  Value(kind, r, a) =
               Algebra!Pointwise(op, Value(kind, f, a), Value(kind, g, a))
  <2>1. PICK x \in {0, 1} : x = Value(kind, f, a)
    BY Bits
  <2>2. PICK y \in {0, 1} : y = Value(kind, g, a)
    BY Bits
  <2>3. /\ f = False => x = 0
        /\ g = False => y = 0
        /\ f = g => x = y
        /\ Value(kind, False, a) = 0
    BY <2>1, <2>2, ConstValues
  <2>4. kind = "bdd" => /\ f = True => x = 1
                        /\ g = True => y = 1
                        /\ f = Not(g) => x = 1 - y
                        /\ Value(kind, True, a) = 1
                        /\ Value(kind, Not(f), a) = 1 - x
                        /\ Value(kind, Not(g), a) = 1 - y
    BY <2>1, <2>2, ConstValues, Negated
  <2>5. CASE op = "and"
    <3>1. /\ kind = "bdd"
          /\ \/ r = False /\ (f = False \/ g = False \/ f = Not(g))
             \/ r = g /\ (f = True \/ f = g)
             \/ r = f /\ g = True
      BY <2>5, Answers DEF OpsOf, Base
    <3>2. QED
      BY <2>1, <2>2, <2>3, <2>4, <2>5, <3>1 DEF Algebra!Pointwise
  <2>6. CASE op = "xor"
    <3>1. kind = "bdd"
      BY <2>6 DEF OpsOf
    <3>2. \/ f.node = 0 /\ r = IF f = True THEN Not(g) ELSE g
          \/ g.node = 0 /\ r = IF g = True THEN Not(f) ELSE f
          \/ r = False /\ f = g
          \/ r = True /\ f = Not(g)
      BY <2>6, Answers
    <3>3. /\ f.node = 0 => f \in {False, True}
          /\ g.node = 0 => g \in {False, True}
      BY OursFacts
    <3>4. CASE f.node = 0 /\ r = IF f = True THEN Not(g) ELSE g
      BY <2>1, <2>2, <2>3, <2>4, <2>6, <3>1, <3>3, <3>4 DEF Algebra!Pointwise
    <3>5. CASE g.node = 0 /\ r = IF g = True THEN Not(f) ELSE f
      BY <2>1, <2>2, <2>3, <2>4, <2>6, <3>1, <3>3, <3>5 DEF Algebra!Pointwise
    <3>6. CASE r = False /\ f = g
      BY <2>1, <2>2, <2>3, <2>6, <3>6 DEF Algebra!Pointwise
    <3>7. CASE r = True /\ f = Not(g)
      BY <2>1, <2>2, <2>4, <2>6, <3>1, <3>7 DEF Algebra!Pointwise
    <3>8. QED
      BY <3>2, <3>4, <3>5, <3>6, <3>7
  <2>7. CASE op \in {"union", "intersec", "subtract", "symdiff"}
    <3>1. \/ op = "union" /\ (\/ r = g /\ f = False
                              \/ r = f /\ (g = False \/ f = g))
          \/ op = "intersec" /\ (\/ r = False /\ (f = False \/ g = False)
                                 \/ r = f /\ f = g)
          \/ op = "subtract" /\ (\/ r = False /\ (f = False \/ f = g)
                                 \/ r = f /\ g = False)
          \/ op = "symdiff" /\ (\/ r = g /\ f = False
                                \/ r = f /\ g = False
                                \/ r = False /\ f = g)
      BY <2>7, Answers
    <3>2. QED
      BY <2>1, <2>2, <2>3, <3>1 DEF Algebra!Pointwise
  <2>8. QED
    BY <2>5, <2>6, <2>7 DEF OpsOf, Base
<1>4. QED
  BY <1>2, <1>3 DEF Right

\* Operands that are both constants are answered at once.
LEMMA ConstsAnswered ==
  ASSUME Base, NEW op \in OpsOf(kind), NEW f, NEW g, Ours(f), Ours(g),
         Terminal(op, f, g) = {}
  PROVE  f.node # 0 \/ g.node # 0
<1> SUFFICES ASSUME f \in {False, True}, g \in {False, True} PROVE FALSE
  BY OursFacts
<1>1. f.node = 0 /\ g.node = 0
  BY ConstsOurs
<1>2. op \in {"and", "xor", "union", "intersec", "subtract", "symdiff"}
  BY DEF OpsOf, Base
<1>3. QED
  BY <1>1, <1>2 DEF Terminal, Operation, bddand, bddxor, bddunion,
         bddintersec, bddsubtract, SubtractAnswers, bddsymdiff

LEMMA PlainValue ==
  ASSUME Base, kind = "bdd", NEW e, Ours(e), NEW a \in Assignments
  PROVE  Value(kind, Plain(e), a) =
           IF e.comp = 1 THEN 1 - Value(kind, e, a) ELSE Value(kind, e, a)
BY PlainIsOurs, OursFacts, Negated

(***************************************************************************)
(* The key an operation goes on with, and what becomes of its answer.      *)
(***************************************************************************)
LEMMA KeyRight ==
  ASSUME Base, NEW op \in OpsOf(kind), NEW f0, NEW g0, Ours(f0), Ours(g0),
         Terminal(op, f0, g0) = {}, NEW o, o = Operation(op, f0, g0)
  PROVE  /\ Ours(o.key[1]) /\ Ours(o.key[2])
         /\ o.key[1].node # 0 \/ o.key[2].node # 0
         /\ \A r : Right(op, o.key[1], o.key[2], r) =>
                     Right(op, f0, g0, IF o.flip THEN Not(r) ELSE r)
<1>1. f0.node # 0 \/ g0.node # 0
  BY ConstsAnswered
<1>2. CASE op # "xor"
  <2>1. /\ o.flip = FALSE
        /\ \/ o.key[1] = f0 /\ o.key[2] = g0
           \/ o.key[1] = g0 /\ o.key[2] = f0 /\ op # "subtract"
    BY <1>2 DEF Operation, OpsOf, Base, bddand, bddunion,
         bddintersec, bddsubtract, SubtractAnswers, bddsymdiff, Ascending
  <2>2. CASE o.key[1] = f0 /\ o.key[2] = g0
    BY <1>1, <2>1, <2>2
  <2>3. CASE o.key[1] = g0 /\ o.key[2] = f0 /\ op # "subtract"
    <3> SUFFICES ASSUME NEW r, Right(op, g0, f0, r)
                 PROVE  Right(op, f0, g0, r)
      BY <1>1, <2>1, <2>3
    <3>1. ASSUME NEW a \in Assignments
          PROVE  Value(kind, r, a) =
                   Algebra!Pointwise(op, Value(kind, f0, a), Value(kind, g0, a))
      BY <2>3, Bits, PointwiseFacts DEF Right
    <3>2. QED
      BY <3>1, MaxLevelFacts DEF Right
  <2>4. QED
    BY <2>1, <2>2, <2>3
<1>3. CASE op = "xor"
  <2>1. PICK pf, pg : pf = Plain(f0) /\ pg = Plain(g0)
    OBVIOUS
  <2>2. /\ o.flip = (f0.comp # g0.comp)
        /\ \/ o.key[1] = pf /\ o.key[2] = pg
           \/ o.key[1] = pg /\ o.key[2] = pf
    BY <1>3, <2>1 DEF Operation, bddxor, Ascending
  <2>3. /\ Ours(pf) /\ Ours(pg) /\ kind = "bdd"
        /\ Level(pf) = Level(f0) /\ Level(pg) = Level(g0)
        /\ pf.node = f0.node /\ pg.node = g0.node
        /\ f0.comp \in {0, 1} /\ g0.comp \in {0, 1}
    BY <1>3, <2>1, PlainIsOurs, OursFacts DEF OpsOf
  <2>4. ASSUME NEW r, Right(op, o.key[1], o.key[2], r)
        PROVE  Right(op, f0, g0, IF o.flip THEN Not(r) ELSE r)
    <3>1. Ours(r) /\ Level(r) <= MaxLevel(f0, g0)
      BY <2>2, <2>3, <2>4, MaxLevelFacts DEF Right, MaxLevel
    <3>2. ASSUME NEW a \in Assignments
          PROVE  Value(kind, IF o.flip THEN Not(r) ELSE r, a) =
                   Algebra!Pointwise(op, Value(kind, f0, a), Value(kind, g0, a))
      <4>1. PICK x \in {0, 1} : x = Value(kind, f0, a)
        BY Bits
      <4>2. PICK y \in {0, 1} : y = Value(kind, g0, a)
        BY Bits
      <4>3. /\ Value(kind, pf, a) = IF f0.comp = 1 THEN 1 - x ELSE x
            /\ Value(kind, pg, a) = IF g0.comp = 1 THEN 1 - y ELSE y
        BY <2>1, <2>3, <4>1, <4>2, PlainValue
      <4>4. \/ Value(kind, r, a) = Algebra!Pointwise(op, Value(kind, pf, a),
                                                         Value(kind, pg, a))
            \/ Value(kind, r, a) = Algebra!Pointwise(op, Value(kind, pg, a),
                                                         Value(kind, pf, a))
        BY <2>2, <2>4 DEF Right
      <4>5. Value(kind, Not(r), a) = 1 - Value(kind, r, a)
        BY <2>3, <3>1, Negated
      <4>6. PICK z : z = Value(kind, r, a)
        OBVIOUS
      <4>7. z = (IF (IF f0.comp = 1 THEN 1 - x ELSE x)
                    # (IF g0.comp = 1 THEN 1 - y ELSE y) THEN 1 ELSE 0)
        BY <1>3, <4>3, <4>4, <4>6 DEF Algebra!Pointwise
      <4>8. (IF f0.comp # g0.comp THEN 1 - z ELSE z) = (IF x # y THEN 1 ELSE 0)
        BY <2>3, <4>7
      <4>9. QED
        BY <1>3, <2>2, <4>1, <4>2, <4>5, <4>6, <4>8 DEF Algebra!Pointwise
    <3>3. QED
      BY <3>1, <3>2, NotIsOurs DEF Right
  <2>5. QED
    BY <1>1, <2>2, <2>3, <2>4
<1>4. QED
  BY <1>2, <1>3

LEMMA TopFacts ==
  ASSUME Base, NEW f, NEW g, Ours(f), Ours(g), f.node # 0 \/ g.node # 0
  PROVE  /\ TopVar(f, g) \in VarsUsed /\ MaxLevel(f, g) = var2level[TopVar(f, g)]
         /\ Level(f) <= var2level[TopVar(f, g)]
         /\ Level(g) <= var2level[TopVar(f, g)]
<1>1. PICK e : e = IF Level(f) >= Level(g) THEN f ELSE g
  OBVIOUS
<1>2. Ours(e) /\ Level(e) = MaxLevel(f, g) /\ TopVar(f, g) = nodes[e.node].var
  BY <1>1 DEF TopVar, MaxLevel
<1>3. Level(f) <= Level(e) /\ Level(g) <= Level(e)
  BY <1>2, MaxLevelFacts
<1>4. e.node # 0
  BY <1>1, OursFacts
<1>5. QED
  BY <1>2, <1>3, <1>4, OursFacts

(***************************************************************************)
(* A frame that is opened for a pair knows all it needs to answer it: the  *)
(* side it does not recurse into is answered, and an answer to its own     *)
(* pair answers the pair it was opened for.                                *)
(***************************************************************************)
FrameFacts(op, f0, g0, fr) ==
  /\ fr.phase \in {"lo", "pass", "keepHi"} /\ fr.lo = Null
  /\ fr.flip \in BOOLEAN
  /\ Ours(fr.f) /\ Ours(fr.g) /\ fr.var \in VarsUsed
  /\ MaxLevel(fr.f, fr.g) = var2level[fr.var]
  /\ Level(fr.f) <= var2level[fr.var] /\ Level(fr.g) <= var2level[fr.var]
  /\ fr.fhi = Cofactor(fr.f, fr.var, 1) /\ fr.ghi = Cofactor(fr.g, fr.var, 1)
  /\ fr.phase = "pass" => kind = "zdd" /\ Right(op, fr.fhi, fr.ghi, False)
  /\ fr.phase = "keepHi" => Right(op, fr.fhi, fr.ghi, fr.fhi)
  /\ \A r : Right(op, fr.f, fr.g, r) =>
              Right(op, f0, g0, IF fr.flip THEN Not(r) ELSE r)
  /\ fr.phase = "pass" => fr.flip = FALSE

LEMMA OpenedFacts ==
  ASSUME Base, NEW op \in OpsOf(kind), NEW f0, NEW g0, Ours(f0), Ours(g0),
         Terminal(op, f0, g0) = {}, NEW fr, fr = Opened(op, f0, g0)
  PROVE  FrameFacts(op, f0, g0, fr)
<1>1. PICK o : o = Operation(op, f0, g0)
  OBVIOUS
<1>2. PICK f, g : f = o.key[1] /\ g = o.key[2]
  OBVIOUS
<1>3. PICK v : v = TopVar(f, g)
  OBVIOUS
<1>4. /\ Ours(f) /\ Ours(g) /\ (f.node # 0 \/ g.node # 0)
      /\ \A r : Right(op, f, g, r) =>
                  Right(op, f0, g0, IF o.flip THEN Not(r) ELSE r)
  BY <1>1, <1>2, KeyRight
<1>5. /\ v \in VarsUsed /\ MaxLevel(f, g) = var2level[v]
      /\ Level(f) <= var2level[v] /\ Level(g) <= var2level[v]
  BY <1>3, <1>4, TopFacts
<1>6. /\ fr.phase = (IF o.shape = "both" THEN "lo" ELSE o.shape)
      /\ fr.f = f /\ fr.g = g /\ fr.var = v /\ fr.flip = o.flip /\ fr.lo = Null
      /\ fr.fhi = Cofactor(f, v, 1) /\ fr.ghi = Cofactor(g, v, 1)
  BY <1>1, <1>2, <1>3 DEF Opened
<1>7. /\ Ours(fr.fhi) /\ Ours(fr.ghi) /\ Level(fr.fhi) \in Nat
      /\ Level(fr.ghi) \in Nat /\ Level(f) \in Nat /\ Level(g) \in Nat
      /\ kind = "zdd" =>
           /\ Level(f) < Level(g) => fr.fhi = False
           /\ Level(g) < Level(f) => fr.ghi = False
  <2>1. Ours(fr.fhi) /\ Ours(fr.ghi)
    BY <1>4, <1>5, <1>6, CofactorFacts
  <2>2. Level(f) \in Nat /\ Level(g) \in Nat /\ var2level[v] \in Nat
    BY <1>4, <1>5, OursFacts, MaxLevelFacts
  <2>3. Level(fr.fhi) \in Nat /\ Level(fr.ghi) \in Nat
    BY <2>1, OursFacts
  <2>4. kind = "zdd" /\ Level(f) < Level(g) => fr.fhi = False
    BY <1>4, <1>5, <1>6, <2>2, CofactorCases
  <2>5. kind = "zdd" /\ Level(g) < Level(f) => fr.ghi = False
    BY <1>4, <1>5, <1>6, <2>2, CofactorCases
  <2>6. QED
    BY <2>1, <2>2, <2>3, <2>4, <2>5
<1>8. CASE op \in {"and", "xor", "union", "symdiff"}
  <2>1. o.shape = "both" /\ o.flip \in BOOLEAN
    BY <1>1, <1>8 DEF Operation, bddand, bddxor, bddunion, bddsymdiff
  <2>2. QED
    BY <1>4, <1>5, <1>6, <2>1 DEF FrameFacts
<1>9. CASE op = "intersec"
  <2>1. /\ kind = "zdd" /\ o.flip = FALSE /\ o.shape \in {"both", "pass"}
        /\ o.shape = "pass" => Level(f) # Level(g)
    BY <1>1, <1>2, <1>9 DEF Operation, bddintersec, Ascending, OpsOf, Base
  <2>2. ASSUME o.shape = "pass"
        PROVE  Right(op, fr.fhi, fr.ghi, False)
    <3>1. fr.fhi = False \/ fr.ghi = False
      BY <1>7, <2>1, <2>2
    <3>2. ASSUME NEW a \in Assignments
          PROVE  Value(kind, False, a) =
                   Algebra!Pointwise(op, Value(kind, fr.fhi, a),
                                         Value(kind, fr.ghi, a))
      BY <1>9, <3>1, ConstValues DEF Algebra!Pointwise
    <3>3. QED
      BY <1>7, <3>2, ConstsOurs, MaxLevelFacts DEF Right
  <2>3. QED
    BY <1>4, <1>5, <1>6, <2>1, <2>2 DEF FrameFacts
<1>10. CASE op = "subtract"
  <2>1. /\ kind = "zdd" /\ o.flip = FALSE
        /\ o.shape \in {"both", "pass", "keepHi"}
        /\ o.shape = "pass" => Level(f) < Level(g)
        /\ o.shape = "keepHi" => Level(g) < Level(f)
    <3>1. /\ o.flip = FALSE /\ o.shape = SubtractShape(<<f, g>>)
          /\ kind = "zdd"
      BY <1>1, <1>2, <1>10 DEF Operation, bddsubtract, OpsOf, Base
    <3>2. QED
      BY <1>7, <3>1 DEF SubtractShape
  <2>2. ASSUME o.shape = "pass"
        PROVE  Right(op, fr.fhi, fr.ghi, False)
    <3>1. fr.fhi = False
      BY <1>7, <2>1, <2>2
    <3>2. ASSUME NEW a \in Assignments
          PROVE  Value(kind, False, a) =
                   Algebra!Pointwise(op, Value(kind, fr.fhi, a),
                                         Value(kind, fr.ghi, a))
      BY <1>10, <3>1, ConstValues DEF Algebra!Pointwise
    <3>3. QED
      BY <1>7, <3>2, ConstsOurs, MaxLevelFacts DEF Right
  <2>3. ASSUME o.shape = "keepHi"
        PROVE  Right(op, fr.fhi, fr.ghi, fr.fhi)
    <3>1. fr.ghi = False
      BY <1>7, <2>1, <2>3
    <3>2. ASSUME NEW a \in Assignments
          PROVE  Value(kind, fr.fhi, a) =
                   Algebra!Pointwise(op, Value(kind, fr.fhi, a),
                                         Value(kind, fr.ghi, a))
      BY <1>7, <1>10, <3>1, ConstValues, Bits DEF Algebra!Pointwise
    <3>3. QED
      BY <1>7, <3>2, MaxLevelFacts DEF Right
  <2>4. QED
    BY <1>4, <1>5, <1>6, <2>1, <2>2, <2>3 DEF FrameFacts
<1>11. QED
  BY <1>8, <1>9, <1>10 DEF OpsOf, Base

-----------------------------------------------------------------------------
(***************************************************************************)
(* The operations, the recursion and the bracket, step by step.            *)
(***************************************************************************)
\* A step that leaves the order alone and keeps the nodes of A.
StepKeeps(A) ==
  /\ Base /\ Base' /\ UNCHANGED <<orderVars, kind>>
  /\ A \subseteq Allocated /\ SelfContained(A) /\ Keeps(A)

\* The same, said so that it can be primed.
RightIs ==
  \A k, op, f, g, r : k = kind =>
    (Right(op, f, g, r) <=>
       /\ Ours(f) /\ Ours(g) /\ Ours(r) /\ Level(r) <= MaxLevel(f, g)
       /\ \A a \in Assignments :
            Value(k, r, a) =
              Algebra!Pointwise(op, Value(k, f, a), Value(k, g, a)))

LEMMA RightDef == RightIs
BY DEF RightIs, Right

LEMMA RightDefNext == RightIs'
BY RightDef, PTL

LEMMA OursKept ==
  ASSUME NEW A, StepKeeps(A), NEW e, Ours(e), Within(A, e)
  PROVE  Ours(e)'
<1>1. PICK k \in Reducing : k = kind
  BY DEF StepKeeps, Base, Reducing, Kinds
<1>2. /\ VarOrderInv /\ StoreInv /\ Diagrams(k, KindNodes)
      /\ OfKind(k, KindNodes, e) /\ SelfContained(A) /\ Keeps(A) /\ k = kind'
  BY <1>1, KindNodesDiagrams DEF Ours, StepKeeps, Base
<1>3. PICK S : S = KindNodes
  OBVIOUS
<1>4. PICK full \in BOOLEAN : full = FALSE
  OBVIOUS
<1>5. PICK S2 : /\ Diagrams(k, S2)'
                /\ \A x : OfKind(k, S, x) /\ Within(A, x) => OfKind(k, S2, x)
  BY <1>2, <1>3, <1>4, DiagramsKept
<1>6. OfKind(k, S2, e)
  BY <1>2, <1>3, <1>5
<1>7. OfKind(k, S2, e)'
  BY <1>6 DEF OfKind
<1>8. QED
  BY <1>2, <1>5, <1>7, LargestKindNext DEF LargestKind

LEMMA EdgeKept ==
  ASSUME NEW A, StepKeeps(A), NEW e, Ours(e), Within(A, e)
  PROVE  /\ Level(e)' = Level(e)
         /\ \A v, b : Cofactor(e, v, b)' = Cofactor(e, v, b)
<1>1. e.node # 0 => nodes'[e.node] = nodes[e.node]
  BY DEF StepKeeps, Keeps, Within
<1>2. var2level' = var2level /\ kind' = kind
  BY DEF StepKeeps, orderVars
<1>3. Level(e)' = Level(e)
  BY <1>1, <1>2 DEF Level
<1>4. ASSUME NEW v, NEW b
      PROVE  Cofactor(e, v, b)' = Cofactor(e, v, b)
  <2>1. CASE e.node = 0
    BY <1>2, <2>1 DEF Cofactor
  <2>2. CASE e.node # 0
    BY <1>1, <1>2, <2>2 DEF Cofactor, ChildOf
  <2>3. QED
    BY <2>1, <2>2
<1>5. QED
  BY <1>3, <1>4

LEMMA EdgeValueKept ==
  ASSUME NEW A, StepKeeps(A), NEW k, k = kind, NEW e, Ours(e), Within(A, e),
         NEW a \in Assignments
  PROVE  Value(k, e, a)' = Value(k, e, a)
<1>1. PICK B : B = A \cap ReducedNodes
  OBVIOUS
<1>2. B \in SUBSET ReducedNodes /\ SelfContained(B)
  <2>1. SelfContained(ReducedNodes) /\ SelfContained(A)
    BY ReducedClosed DEF StepKeeps, Base
  <2>2. QED
    BY <1>1, <2>1 DEF SelfContained, Within
<1>3. \A n \in B : nodes'[n] = nodes[n]
  BY <1>1 DEF StepKeeps, Keeps
<1>4. Within(B, e)
  <2>1. Within(KindNodes, e)
    BY OursFacts DEF StepKeeps
  <2>2. QED
    BY <1>1, <2>1 DEF Within, KindNodes
<1>5. /\ VarOrderInv /\ StoreInv /\ VarOrderInv' /\ StoreInv'
      /\ VarsUsed \subseteq VarsUsed'
      /\ var2level' = var2level
  BY DEF StepKeeps, Base, orderVars, VarsUsed
<1>6. QED
  BY <1>2, <1>3, <1>4, <1>5, ValueKept

\* An answer stays right.
LEMMA RightKept ==
  ASSUME NEW A, StepKeeps(A), NEW op, NEW f, NEW g, NEW r, Right(op, f, g, r),
         Within(A, f), Within(A, g), Within(A, r)
  PROVE  Right(op, f, g, r)'
<1>1. PICK k : k = kind /\ k = kind'
  BY DEF StepKeeps
<1>2. Ours(f) /\ Ours(g) /\ Ours(r)
  BY DEF Right
<1>3. Ours(f)' /\ Ours(g)' /\ Ours(r)'
  BY <1>2, OursKept
<1>4. (Level(r) <= MaxLevel(f, g))'
  <2>1. Level(f)' = Level(f) /\ Level(g)' = Level(g) /\ Level(r)' = Level(r)
    BY <1>2, EdgeKept
  <2>2. QED
    BY <2>1 DEF Right, MaxLevel
<1>5. Assignments' = Assignments
  BY DEF StepKeeps, orderVars, Assignments, VarsUsed
<1>6. \A a \in Assignments :
        /\ Value(k, f, a)' = Value(k, f, a)
        /\ Value(k, g, a)' = Value(k, g, a)
        /\ Value(k, r, a)' = Value(k, r, a)
  BY <1>1, <1>2, EdgeValueKept
<1>7. \A a \in Assignments' :
        Value(k, r, a)' =
          Algebra!Pointwise(op, Value(k, f, a)', Value(k, g, a)')
  BY <1>1, <1>5, <1>6, RightDef DEF RightIs
<1>8. QED
  BY <1>1, <1>3, <1>4, <1>7, RightDefNext DEF RightIs

-----------------------------------------------------------------------------
(***************************************************************************)
(* Steps that keep every node: all but the collections.                    *)
(***************************************************************************)
LEMMA AllKept ==
  ASSUME StepKeeps(Allocated)
  PROVE  /\ \A e : Ours(e) => Ours(e)' /\ Level(e)' = Level(e)
         /\ \A e, v, b : Ours(e) => Cofactor(e, v, b)' = Cofactor(e, v, b)
         /\ \A op, f, g, r : Right(op, f, g, r) => Right(op, f, g, r)'
<1>1. PICK A : A = Allocated
  OBVIOUS
<1>2. StepKeeps(A)
  BY <1>1
<1>3. \A e : Ours(e) => Within(A, e)
  BY <1>1, OursFacts DEF StepKeeps
<1>4. \A e : Ours(e) => Ours(e)' /\ Level(e)' = Level(e)
  BY <1>2, <1>3, OursKept, EdgeKept
<1>5. \A e, v, b : Ours(e) => Cofactor(e, v, b)' = Cofactor(e, v, b)
  BY <1>2, <1>3, EdgeKept
<1>6. \A op, f, g, r : Right(op, f, g, r) => Right(op, f, g, r)'
  BY <1>2, <1>3, RightKept DEF Right
<1>7. QED
  BY <1>4, <1>5, <1>6

LEMMA OperationKept ==
  ASSUME StepKeeps(Allocated), NEW op \in OpsOf(kind),
         NEW f, NEW g, Ours(f), Ours(g)
  PROVE  Operation(op, f, g)' = Operation(op, f, g)
<1>1. Level(f)' = Level(f) /\ Level(g)' = Level(g)
  BY AllKept
<1>2. op \in {"and", "xor", "union", "intersec", "subtract", "symdiff"}
  BY DEF OpsOf
<1>3. CASE op = "and"
  BY <1>3 DEF Operation, bddand
<1>4. CASE op = "xor"
  BY <1>4 DEF Operation, bddxor
<1>5. CASE op = "union"
  BY <1>5 DEF Operation, bddunion
<1>6. CASE op = "intersec"
  BY <1>1, <1>6 DEF Operation, bddintersec
<1>7. CASE op = "subtract"
  <2>1. SubtractShape(<<f, g>>)' = SubtractShape(<<f, g>>)
    BY <1>1 DEF SubtractShape
  <2>2. QED
    BY <1>7, <2>1 DEF Operation, bddsubtract
<1>8. CASE op = "symdiff"
  BY <1>8 DEF Operation, bddsymdiff
<1>9. QED
  BY <1>2, <1>3, <1>4, <1>5, <1>6, <1>7, <1>8

LEMMA OpenedKept ==
  ASSUME StepKeeps(Allocated), NEW op \in OpsOf(kind),
         NEW f0, NEW g0, Ours(f0), Ours(g0), Terminal(op, f0, g0) = {}
  PROVE  /\ Terminal(op, f0, g0)' = {}
         /\ Opened(op, f0, g0)' = Opened(op, f0, g0)
<1>1. PICK o : o = Operation(op, f0, g0) /\ o = Operation(op, f0, g0)'
  BY OperationKept
<1>2. Terminal(op, f0, g0)' = {}
  BY <1>1 DEF Terminal
<1>3. PICK f, g : f = o.key[1] /\ g = o.key[2]
  OBVIOUS
<1>4. Ours(f) /\ Ours(g) /\ (f.node # 0 \/ g.node # 0)
  BY <1>1, <1>3, KeyRight DEF StepKeeps
<1>5. PICK v : v = TopVar(f, g)
  OBVIOUS
<1>6. v = TopVar(f, g)'
  <2>1. Level(f)' = Level(f) /\ Level(g)' = Level(g)
    BY <1>4, AllKept
  <2>2. PICK e : e = IF Level(f) >= Level(g) THEN f ELSE g
    OBVIOUS
  <2>3. Ours(e) /\ e.node # 0
    BY <1>4, <2>2, OursFacts DEF StepKeeps
  <2>4. nodes'[e.node] = nodes[e.node]
    BY <2>3, OursFacts DEF StepKeeps, Keeps, Within
  <2>5. QED
    BY <1>5, <2>1, <2>2, <2>4 DEF TopVar
<1>7. /\ Cofactor(f, v, 1)' = Cofactor(f, v, 1)
      /\ Cofactor(g, v, 1)' = Cofactor(g, v, 1)
  BY <1>4, AllKept
<1>8. PICK fhi, ghi : fhi = Cofactor(f, v, 1) /\ ghi = Cofactor(g, v, 1)
  OBVIOUS
<1> DEFINE rec == [phase |-> IF o.shape = "both" THEN "lo" ELSE o.shape,
                   f |-> f, g |-> g, var |-> v, flip |-> o.flip,
                   fhi |-> fhi, ghi |-> ghi, lo |-> Null]
<1>9. Opened(op, f0, g0) = rec
  BY <1>1, <1>3, <1>5, <1>8 DEF Opened
<1>10. Opened(op, f0, g0)' = rec
  BY <1>1, <1>3, <1>6, <1>7, <1>8 DEF Opened
<1>11. QED
  BY <1>2, <1>9, <1>10

-----------------------------------------------------------------------------
(***************************************************************************)
(* The stack.  Every frame works on a pair of operands, the lowest on the  *)
(* operands of the call, the others on the pair of cofactors the frame     *)
(* below them waits for.                                                   *)
(***************************************************************************)
LoPair(o) == <<Cofactor(o.f, o.var, 0), Cofactor(o.g, o.var, 0)>>
HiPair(o) == <<o.fhi, o.ghi>>

OursPair(q) == Ours(q[1]) /\ Ours(q[2])

OpenedFor(op, q, o) ==
  OursPair(q) /\ Terminal(op, q[1], q[2]) = {} /\ o = Opened(op, q[1], q[2])

\* A frame that waits, while the hi side is worked on.
WithLo(o, lo) == [o EXCEPT !.phase = "hi", !.lo = lo]

\* Frame fr, opened for the pair q, waits for an answer to the pair q2.
AsksLo(op, fr, q, q2) == OpenedFor(op, q, fr) /\ q2 = LoPair(fr)

AsksHi(op, fr, q, q2) ==
  \E o, lo : /\ OpenedFor(op, q, o) /\ o.phase = "lo"
             /\ fr = WithLo(o, lo) /\ q2 = HiPair(o)
             /\ Right(op, LoPair(o)[1], LoPair(o)[2], lo)

Asks(op, fr, q, q2) == AsksLo(op, fr, q, q2) \/ AsksHi(op, fr, q, q2)

\* A call of op on f and g has stack s and last result x; p[i] is the pair
\* frame i works on, and the last pair of p the one that was answered last.
StackFor(op, f, g, s, x, p) ==
  /\ p[1] = <<f, g>>
  /\ \A i \in 1..(Len(s) + 1) : OursPair(p[i])
  /\ \A i \in 1..Len(s) :
       \/ Asks(op, s[i], p[i], p[i + 1])
       \/ i = Len(s) /\ s[i] = Enter(p[i][1], p[i][2])
  /\ (s = <<>> \/ s[Len(s)].phase # "enter") =>
       Right(op, p[Len(s) + 1][1], p[Len(s) + 1][2], x)
  /\ x = Null \/ Ours(x)

LEMMA AsksKept ==
  ASSUME StepKeeps(Allocated), NEW op \in OpsOf(kind), NEW fr, NEW q, NEW q2,
         Asks(op, fr, q, q2)
  PROVE  Asks(op, fr, q, q2)'
<1>1. ASSUME NEW o, OpenedFor(op, q, o)
      PROVE  OpenedFor(op, q, o)' /\ LoPair(o)' = LoPair(o)
  <2>1. Ours(q[1]) /\ Ours(q[2]) /\ Terminal(op, q[1], q[2]) = {}
        /\ o = Opened(op, q[1], q[2])
    BY <1>1 DEF OpenedFor, OursPair
  <2>2. OpenedFor(op, q, o)'
    BY <2>1, AllKept, OpenedKept DEF OpenedFor, OursPair
  <2>3. Ours(o.f) /\ Ours(o.g)
    BY <2>1, OpenedFacts DEF FrameFacts, StepKeeps
  <2>4. QED
    BY <2>2, <2>3, AllKept DEF LoPair
<1>2. CASE AsksLo(op, fr, q, q2)
  BY <1>1, <1>2 DEF AsksLo, Asks
<1>3. CASE AsksHi(op, fr, q, q2)
  <2>1. PICK o, lo : /\ OpenedFor(op, q, o) /\ o.phase = "lo"
                     /\ fr = WithLo(o, lo) /\ q2 = HiPair(o)
                     /\ Right(op, LoPair(o)[1], LoPair(o)[2], lo)
    BY <1>3 DEF AsksHi
  <2>2. PICK c : c = LoPair(o) /\ c = LoPair(o)'
    BY <1>1, <2>1
  <2>3. Right(op, c[1], c[2], lo)'
    BY <2>1, <2>2, AllKept
  <2>4. OpenedFor(op, q, o)'
    BY <1>1, <2>1
  <2>5. Right(op, LoPair(o)[1], LoPair(o)[2], lo)'
    BY <2>2, <2>3
  <2>6. AsksHi(op, fr, q, q2)'
    BY <2>1, <2>4, <2>5 DEF AsksHi, HiPair, WithLo
  <2>7. QED
    BY <2>6 DEF Asks
<1>4. QED
  BY <1>2, <1>3 DEF Asks

LEMMA StackKept ==
  ASSUME StepKeeps(Allocated), NEW op \in OpsOf(kind), NEW f, NEW g,
         NEW s, NEW x, NEW p, StackFor(op, f, g, s, x, p)
  PROVE  StackFor(op, f, g, s, x, p)'
<1>1. \A i \in 1..(Len(s) + 1) : OursPair(p[i])'
  BY AllKept DEF OursPair, StackFor
<1>2. \A i \in 1..Len(s) :
        \/ Asks(op, s[i], p[i], p[i + 1])'
        \/ i = Len(s) /\ s[i] = Enter(p[i][1], p[i][2])
  BY AsksKept DEF StackFor
<1>3. (s = <<>> \/ s[Len(s)].phase # "enter") =>
        Right(op, p[Len(s) + 1][1], p[Len(s) + 1][2], x)'
  BY AllKept DEF StackFor
<1>4. x = Null \/ Ours(x)'
  BY AllKept DEF StackFor
<1>5. p[1] = <<f, g>>
  BY DEF StackFor
<1>6. QED
  BY <1>1, <1>2, <1>3, <1>4, <1>5 DEF StackFor, Enter, Null, Const

\* What the frame that waits knows.
LEMMA AsksFacts ==
  ASSUME Base, NEW op \in OpsOf(kind), NEW fr, NEW q, NEW q2,
         Asks(op, fr, q, q2)
  PROVE  /\ fr.phase \in {"lo", "hi", "pass", "keepHi"}
         /\ OursPair(q) /\ OursPair(q2)
         /\ q2 = IF fr.phase = "hi" THEN HiPair(fr) ELSE LoPair(fr)
         /\ fr.phase = "hi" => Right(op, LoPair(fr)[1], LoPair(fr)[2], fr.lo)
         /\ fr.phase # "hi" => fr.lo = Null
         /\ fr.phase = "lo" => OpenedFor(op, q, fr)
         /\ Ours(fr.f) /\ Ours(fr.g) /\ fr.var \in VarsUsed
         /\ MaxLevel(fr.f, fr.g) = var2level[fr.var]
         /\ Level(fr.f) <= var2level[fr.var]
         /\ Level(fr.g) <= var2level[fr.var]
         /\ fr.fhi = Cofactor(fr.f, fr.var, 1)
         /\ fr.ghi = Cofactor(fr.g, fr.var, 1)
         /\ fr.phase = "pass" => /\ kind = "zdd" /\ fr.flip = FALSE
                                 /\ Right(op, fr.fhi, fr.ghi, False)
         /\ fr.phase = "keepHi" => Right(op, fr.fhi, fr.ghi, fr.fhi)
         /\ \A r : Right(op, fr.f, fr.g, r) =>
                     Right(op, q[1], q[2], IF fr.flip THEN Not(r) ELSE r)
<1>1. PICK o : /\ OpenedFor(op, q, o)
               /\ \/ fr = o /\ q2 = LoPair(o)
                  \/ /\ q2 = HiPair(o) /\ o.phase = "lo"
                     /\ \E lo : /\ fr = WithLo(o, lo)
                                /\ Right(op, LoPair(o)[1], LoPair(o)[2], lo)
  BY DEF Asks, AsksLo, AsksHi
<1>2. OursPair(q) /\ FrameFacts(op, q[1], q[2], o) /\ o = Opened(op, q[1], q[2])
  BY <1>1, OpenedFacts DEF OpenedFor, OursPair
<1>3. OursPair(LoPair(o)) /\ OursPair(HiPair(o))
  <2>1. /\ Ours(Cofactor(o.f, o.var, 0)) /\ Ours(Cofactor(o.g, o.var, 0))
        /\ Ours(Cofactor(o.f, o.var, 1)) /\ Ours(Cofactor(o.g, o.var, 1))
    BY <1>2, CofactorFacts DEF FrameFacts
  <2>2. QED
    BY <1>2, <2>1 DEF OursPair, LoPair, HiPair, FrameFacts
<1>4. CASE fr = o /\ q2 = LoPair(o)
  BY <1>1, <1>2, <1>3, <1>4 DEF FrameFacts
<1>5. CASE q2 = HiPair(o) /\ o.phase = "lo"
           /\ \E lo : /\ fr = WithLo(o, lo)
                      /\ Right(op, LoPair(o)[1], LoPair(o)[2], lo)
  <2>1. PICK lo : /\ fr = WithLo(o, lo)
                  /\ Right(op, LoPair(o)[1], LoPair(o)[2], lo)
    BY <1>5
  <2>2. /\ fr.phase = "hi" /\ fr.lo = lo /\ fr.f = o.f /\ fr.g = o.g
        /\ fr.var = o.var /\ fr.flip = o.flip /\ fr.fhi = o.fhi /\ fr.ghi = o.ghi
    BY <1>2, <2>1 DEF WithLo, Opened
  <2>3. LoPair(fr) = LoPair(o) /\ HiPair(fr) = HiPair(o)
    BY <2>2 DEF LoPair, HiPair
  <2>4. QED
    BY <1>2, <1>3, <1>5, <2>1, <2>2, <2>3 DEF FrameFacts
<1>6. QED
  BY <1>1, <1>4, <1>5

\* The top of the stack works on its pair.
LEMMA TopAsks ==
  ASSUME Base, NEW op \in OpsOf(kind), NEW f, NEW g, NEW S, NEW s \in Seq(S),
         NEW x, NEW p, StackFor(op, f, g, s, x, p), s # <<>>
  PROVE  /\ Last(s) = s[Len(s)] /\ Len(s) \in Nat /\ Len(s) > 0
         /\ OursPair(p[Len(s)]) /\ OursPair(p[Len(s) + 1])
         /\ IF s[Len(s)].phase = "enter"
            THEN s[Len(s)] = Enter(p[Len(s)][1], p[Len(s)][2])
            ELSE /\ Asks(op, s[Len(s)], p[Len(s)], p[Len(s) + 1])
                 /\ Right(op, p[Len(s) + 1][1], p[Len(s) + 1][2], x)
<1>1. Last(s) = s[Len(s)] /\ Len(s) \in Nat /\ Len(s) > 0
  BY DEF Last
<1>2. \/ Asks(op, s[Len(s)], p[Len(s)], p[Len(s) + 1])
      \/ s[Len(s)] = Enter(p[Len(s)][1], p[Len(s)][2])
  BY <1>1 DEF StackFor
<1>3. OursPair(p[Len(s)]) /\ OursPair(p[Len(s) + 1])
  BY <1>1 DEF StackFor
<1>4. \A q : Enter(q[1], q[2]).phase = "enter"
  BY DEF Enter
<1>5. QED
  BY <1>1, <1>2, <1>3, <1>4, AsksFacts DEF StackFor

(***************************************************************************)
(* A frame that is answered goes, a frame that asks gets another on top.   *)
(***************************************************************************)
Pushed(p, n, q2) == [i \in 1..(n + 2) |-> IF i <= n THEN p[i] ELSE q2]

PopFits ==
  \A op, f, g, S, x, p, r : \A s \in Seq(S) :
    s # <<>> /\ StackFor(op, f, g, s, x, p)
    /\ Right(op, p[Len(s)][1], p[Len(s)][2], r)
    => StackFor(op, f, g, Front(s), r, p)

PushFits ==
  \A op, f, g, S, x, p, fr, q2 : \A s \in Seq(S) :
    s # <<>> /\ StackFor(op, f, g, s, x, p)
    /\ Asks(op, fr, p[Len(s)], q2) /\ OursPair(q2)
    => StackFor(op, f, g, Append(Append(Front(s), fr), Enter(q2[1], q2[2])),
                x, Pushed(p, Len(s), q2))

LEMMA PopDoesFit == PopFits
<1> SUFFICES ASSUME NEW op, NEW f, NEW g, NEW S, NEW x, NEW p, NEW r,
                    NEW s \in Seq(S), s # <<>>, StackFor(op, f, g, s, x, p),
                    Right(op, p[Len(s)][1], p[Len(s)][2], r)
             PROVE  StackFor(op, f, g, Front(s), r, p)
  BY DEF PopFits
<1>1. PICK n \in Nat : n = Len(s) - 1
  OBVIOUS
<1>2. /\ Len(Front(s)) = n /\ Len(s) = n + 1
      /\ \A i \in 1..n : Front(s)[i] = s[i]
  BY <1>1 DEF Front
<1>3. Ours(r)
  BY DEF Right
<1>4. \A i \in 1..n : Asks(op, s[i], p[i], p[i + 1])
  BY <1>2 DEF StackFor
<1>5. p[1] = <<f, g>> /\ \A i \in 1..(n + 1) : OursPair(p[i])
  BY <1>2 DEF StackFor
<1>6. QED
  BY <1>2, <1>3, <1>4, <1>5 DEF StackFor

LEMMA PushDoesFit == PushFits
<1> SUFFICES ASSUME NEW op, NEW f, NEW g, NEW S, NEW x, NEW p, NEW fr, NEW q2,
                    NEW s \in Seq(S), s # <<>>, StackFor(op, f, g, s, x, p),
                    Asks(op, fr, p[Len(s)], q2), OursPair(q2)
             PROVE  StackFor(op, f, g,
                             Append(Append(Front(s), fr), Enter(q2[1], q2[2])),
                             x, Pushed(p, Len(s), q2))
  BY DEF PushFits
<1>1. PICK n \in Nat \ {0} : n = Len(s)
  OBVIOUS
<1>2. PICK e : e = Enter(q2[1], q2[2])
  OBVIOUS
<1>3. PICK t : t = Append(Append(Front(s), fr), e)
  OBVIOUS
<1>4. /\ Len(t) = n + 1 /\ t[n] = fr /\ t[n + 1] = e
      /\ \A i \in 1..(n - 1) : t[i] = s[i]
  <2>1. PICK T : T = S \cup {fr, e}
    OBVIOUS
  <2>2. Front(s) \in Seq(T) /\ Len(Front(s)) = n - 1
        /\ \A i \in 1..(n - 1) : Front(s)[i] = s[i]
    BY <1>1, <2>1 DEF Front
  <2>3. PICK u : u = Front(s)
    OBVIOUS
  <2>4. /\ Append(u, fr) \in Seq(T) /\ Len(Append(u, fr)) = n
        /\ Append(u, fr)[n] = fr
        /\ \A i \in 1..(n - 1) : Append(u, fr)[i] = s[i]
    BY <1>1, <2>1, <2>2, <2>3
  <2>5. QED
    BY <1>1, <1>3, <2>1, <2>3, <2>4
<1>5. PICK p2 : p2 = Pushed(p, n, q2)
  OBVIOUS
<1>6. /\ \A i \in 1..n : p2[i] = p[i]
      /\ p2[n + 1] = q2 /\ p2[n + 2] = q2
  BY <1>5 DEF Pushed
<1>7. p2[1] = <<f, g>> /\ \A i \in 1..(n + 2) : OursPair(p2[i])
  BY <1>1, <1>6 DEF StackFor
<1>8. \A i \in 1..(n - 1) : Asks(op, t[i], p2[i], p2[i + 1])
  BY <1>1, <1>4, <1>6 DEF StackFor
<1>9. Asks(op, t[n], p2[n], p2[n + 1])
  BY <1>1, <1>4, <1>6
<1>10. t[n + 1] = Enter(p2[n + 1][1], p2[n + 1][2])
  BY <1>2, <1>4, <1>6
<1>11. t[n + 1].phase = "enter" /\ t # <<>>
  BY <1>2, <1>4 DEF Enter
<1>12. \A i \in 1..(n + 1) : \/ Asks(op, t[i], p2[i], p2[i + 1])
                             \/ i = n + 1 /\ t[i] = Enter(p2[i][1], p2[i][2])
  BY <1>8, <1>9, <1>10
<1>13. x = Null \/ Ours(x)
  BY DEF StackFor
<1>14. StackFor(op, f, g, t, x, p2)
  BY <1>4, <1>7, <1>11, <1>12, <1>13 DEF StackFor
<1>15. QED
  BY <1>1, <1>2, <1>3, <1>5, <1>14

LEMMA StackFits == PopFits' /\ PushFits'
BY PopDoesFit, PushDoesFit, PTL

-----------------------------------------------------------------------------
(***************************************************************************)
(* The node that joins two right answers is a right answer.                *)
(***************************************************************************)
SidesFit ==
  Base =>
    \A op, v, f, g, r, f0, g0, r0, f1, g1, r1 :
      /\ op \in OpsOf(kind) /\ v \in VarsUsed /\ Ours(f) /\ Ours(g) /\ Ours(r)
      /\ MaxLevel(f, g) = var2level[v] /\ Level(r) <= var2level[v]
      /\ f0 = Cofactor(f, v, 0) /\ g0 = Cofactor(g, v, 0) /\ r0 = Cofactor(r, v, 0)
      /\ f1 = Cofactor(f, v, 1) /\ g1 = Cofactor(g, v, 1) /\ r1 = Cofactor(r, v, 1)
      /\ Right(op, f0, g0, r0) /\ Right(op, f1, g1, r1)
      => Right(op, f, g, r)

LEMMA SidesDoFit == SidesFit
<1> SUFFICES ASSUME Base, NEW op \in OpsOf(kind), NEW v \in VarsUsed,
                    NEW f, NEW g, NEW r, Ours(f), Ours(g), Ours(r),
                    MaxLevel(f, g) = var2level[v], Level(r) <= var2level[v],
                    Right(op, Cofactor(f, v, 0), Cofactor(g, v, 0), Cofactor(r, v, 0)),
                    Right(op, Cofactor(f, v, 1), Cofactor(g, v, 1), Cofactor(r, v, 1))
             PROVE  Right(op, f, g, r)
  BY DEF SidesFit
<1>1. Level(f) <= var2level[v] /\ Level(g) <= var2level[v]
  BY MaxLevelFacts
<1>2. \A b \in {0, 1} : Right(op, Cofactor(f, v, b), Cofactor(g, v, b),
                              Cofactor(r, v, b))
  OBVIOUS
<1>3. \A a \in Assignments :
        Value(kind, r, a) =
          Algebra!Pointwise(op, Value(kind, f, a), Value(kind, g, a))
  BY <1>1, <1>2, SidesRight
<1>4. QED
  BY <1>3 DEF Right

LEMMA SidesFitNext == SidesFit'
BY SidesDoFit, PTL

LEMMA BaseKept ==
  ASSUME Base, UNCHANGED <<orderVars, kind>>, StoreInv'
  PROVE  Base'
BY DEF Base, orderVars, VarOrderInv, VarOrderTypeOK, LevelsInverse, VarsUsed

\* What getnode returns has the two edges given for cofactors.
LEMMA MadeCofactors ==
  ASSUME Base, Base', UNCHANGED <<orderVars, kind>>, NEW v \in VarsUsed,
         NEW lo, NEW hi, Ours(lo), Ours(hi),
         Level(lo) < var2level[v], Level(hi) < var2level[v],
         StepKeeps(Allocated), NEW r, Make(kind, v, lo, hi, r)
  PROVE  /\ Cofactor(r, v, 0)' = lo /\ Cofactor(r, v, 1)' = hi
         /\ Level(r)' <= var2level[v]
<1>1. /\ lo \in Edges /\ hi \in Edges /\ lo.comp \in {0, 1}
      /\ Not(Not(lo)) = lo /\ Not(Not(hi)) = hi
      /\ Level(lo) \in Nat /\ var2level[v] \in Nat
  BY OursFacts, NotIsOurs, PositiveLevels DEF LevelsPositive, Base
<1>2. CASE MakeRedundant(kind, lo, hi, r)
  <2>1. r = lo /\ (IF kind = "bdd" THEN hi = lo ELSE hi = False)
    BY <1>2 DEF MakeRedundant, Redundant, Base
  <2>2. Cofactor(lo, v, 0) = lo /\ Cofactor(lo, v, 1) = hi
    BY <1>1, <2>1, CofactorCases DEF Base
  <2>3. QED
    BY <1>1, <2>1, <2>2, AllKept
<1>3. ASSUME NEW n \in Slots, r = Ref(kind, lo, n), nodes'[n].var = v,
             nodes'[n].lo = NormalLo(kind, lo),
             nodes'[n].hi = NormalHi(kind, lo, hi)
      PROVE  /\ Cofactor(r, v, 0)' = lo /\ Cofactor(r, v, 1)' = hi
             /\ Level(r)' <= var2level[v]
  <2>1. n # 0 /\ r.node = n /\ kind' = kind /\ var2level' = var2level
    BY <1>3 DEF Slots, Ref, orderVars
  <2>2. \A b : Cofactor(r, v, b)' = ChildOf(kind, r, b)'
    BY <1>3, <2>1 DEF Cofactor
  <2>3. CASE lo.comp = 1
    <3>1. r.comp = 1 /\ nodes'[n].lo = Not(lo)
          /\ nodes'[n].hi = IF kind = "bdd" THEN Not(hi) ELSE hi
      BY <1>3, <2>3 DEF Ref, NormalLo, NormalHi, Flips, Base
    <3>2. ChildOf(kind, r, 0)' = lo /\ ChildOf(kind, r, 1)' = hi
      BY <1>1, <2>1, <3>1 DEF ChildOf, Base
    <3>3. QED
      BY <1>1, <1>3, <2>1, <2>2, <3>2 DEF Level
  <2>4. CASE lo.comp = 0
    <3>1. r.comp = 0 /\ nodes'[n].lo = lo /\ nodes'[n].hi = hi
      BY <1>3, <2>4 DEF Ref, NormalLo, NormalHi, Flips
    <3>2. ChildOf(kind, r, 0)' = lo /\ ChildOf(kind, r, 1)' = hi
      BY <2>1, <3>1 DEF ChildOf
    <3>3. QED
      BY <1>1, <1>3, <2>1, <2>2, <3>2 DEF Level
  <2>5. QED
    BY <1>1, <2>3, <2>4
<1>4. CASE MakeFound(kind, v, lo, hi, r)
  <2>1. PICK n \in Existing(kind, v, lo, hi) : r = Ref(kind, lo, n)
    BY <1>4 DEF MakeFound
  <2>2. /\ n \in table /\ nodes[n].var = v /\ nodes[n].lo = NormalLo(kind, lo)
        /\ nodes[n].hi = NormalHi(kind, lo, hi)
    BY <2>1 DEF Existing, Lookup, Base
  <2>3. n \in Slots
    BY <2>2, NodeTableAssumption
       DEF Base, StoreInv, NodeTableTypeOK, Allocated, Slots
  <2>4. nodes' = nodes
    BY <1>4 DEF MakeFound, tableVars
  <2>5. QED
    BY <1>3, <2>1, <2>2, <2>3, <2>4
<1>5. CASE MakeNew(kind, v, lo, hi, r)
  <2>1. PICK n \in Slots :
          /\ nodes' = [nodes EXCEPT ![n] = NewRec(kind, v, lo, hi)]
          /\ r = Ref(kind, lo, n)
    BY <1>5 DEF MakeNew
  <2>2. nodes'[n] = NewRec(kind, v, lo, hi)
    BY <2>1 DEF Base, StoreInv, NodeTableTypeOK
  <2>3. QED
    BY <1>3, <2>1, <2>2 DEF NewRec
<1>6. QED
  BY <1>2, <1>4, <1>5 DEF Make

LEMMA JoinRight ==
  ASSUME Base, UNCHANGED <<orderVars, kind>>, NEW op \in OpsOf(kind),
         NEW v \in VarsUsed, NEW f, NEW g, Ours(f), Ours(g),
         MaxLevel(f, g) = var2level[v],
         NEW lo, NEW hi, NEW r, Make(kind, v, lo, hi, r),
         Right(op, Cofactor(f, v, 0), Cofactor(g, v, 0), lo),
         Right(op, Cofactor(f, v, 1), Cofactor(g, v, 1), hi)
  PROVE  StepKeeps(Allocated) /\ Right(op, f, g, r)'
<1>1. PICK k \in Reducing : k = kind /\ k # "unreduced" /\ k \in Kinds
  BY DEF Base, Reducing, Kinds
<1>2. Level(f) <= var2level[v] /\ Level(g) <= var2level[v]
  BY MaxLevelFacts
<1>3. PICK f0, g0, f1, g1 :
        /\ f0 = Cofactor(f, v, 0) /\ g0 = Cofactor(g, v, 0)
        /\ f1 = Cofactor(f, v, 1) /\ g1 = Cofactor(g, v, 1)
  OBVIOUS
<1>4. /\ Level(f0) < var2level[v] /\ Level(g0) < var2level[v]
      /\ Level(f1) < var2level[v] /\ Level(g1) < var2level[v]
      /\ Ours(f0) /\ Ours(g0) /\ Ours(f1) /\ Ours(g1)
  BY <1>2, <1>3, CofactorFacts
<1>5. Ours(lo) /\ Ours(hi)
  BY DEF Right
<1>6. Level(lo) < var2level[v] /\ Level(hi) < var2level[v]
  <2>1. Level(lo) \in Nat /\ Level(hi) \in Nat /\ var2level[v] \in Nat
    BY <1>5, OursFacts, PositiveLevels DEF LevelsPositive, Base
  <2>2. MaxLevel(f0, g0) < var2level[v] /\ MaxLevel(f1, g1) < var2level[v]
    BY <1>4 DEF MaxLevel
  <2>3. /\ Level(lo) <= MaxLevel(f0, g0) /\ Level(hi) <= MaxLevel(f1, g1)
        /\ MaxLevel(f0, g0) \in Nat /\ MaxLevel(f1, g1) \in Nat
    BY <1>3, <1>4, MaxLevelFacts DEF Right
  <2>4. QED
    BY <2>1, <2>2, <2>3
<1>7. Accepts(k, v, lo, hi)
  BY <1>1, <1>5, <1>6, OursFacts DEF Accepts, Base
<1>8. /\ Sound(lo) /\ Sound(hi) /\ IsReduced(lo) /\ IsReduced(hi)
  BY <1>1, <1>5, KindNodesDiagrams, KindGood DEF Ours
<1>9. StoreInv' /\ Keeps(Allocated)
  BY <1>1, <1>7, <1>8, MakeKeeps DEF Base, VarOrderInv
<1>10. Base'
  BY <1>9, BaseKept
<1>11. StepKeeps(Allocated)
  BY <1>9, <1>10, AllSelfContained DEF StepKeeps, Base, StoreInv
<1>12. Ours(r)'
  <2>1. PICK S : S = KindNodes
    OBVIOUS
  <2>2. PICK full \in BOOLEAN : full = FALSE
    OBVIOUS
  <2>3. Diagrams(k, S) /\ OfKind(k, S, lo) /\ OfKind(k, S, hi)
    BY <1>1, <1>5, <2>1, KindNodesDiagrams DEF Ours
  <2>4. PICK S2 : Diagrams(k, S2)' /\ OfKind(k, S2, r)
    BY <1>1, <1>7, <2>2, <2>3, MakeJoins DEF Base
  <2>5. OfKind(k, S2, r)'
    BY <2>4 DEF OfKind
  <2>6. QED
    BY <1>1, <2>4, <2>5, LargestKindNext DEF LargestKind
<1>13. /\ Cofactor(r, v, 0)' = lo /\ Cofactor(r, v, 1)' = hi
       /\ Level(r)' <= var2level[v]
  BY <1>5, <1>6, <1>10, <1>11, MadeCofactors
<1>14. /\ Cofactor(f, v, 0)' = f0 /\ Cofactor(g, v, 0)' = g0
       /\ Cofactor(f, v, 1)' = f1 /\ Cofactor(g, v, 1)' = g1
       /\ Ours(f)' /\ Ours(g)' /\ MaxLevel(f, g)' = var2level[v]
  <2>1. Level(f)' = Level(f) /\ Level(g)' = Level(g)
    BY <1>11, AllKept
  <2>2. MaxLevel(f, g)' = MaxLevel(f, g)
    BY <2>1 DEF MaxLevel
  <2>3. QED
    BY <1>3, <1>11, <2>2, AllKept
<1>15. Right(op, f0, g0, lo)' /\ Right(op, f1, g1, hi)'
  BY <1>3, <1>11, AllKept
<1>16. op \in OpsOf(kind') /\ v \in VarsUsed' /\ var2level'[v] = var2level[v]
  BY DEF orderVars, VarsUsed
<1>17. Right(op, f, g, r)'
  BY <1>10, <1>12, <1>13, <1>14, <1>15, <1>16, SidesFitNext DEF SidesFit
<1>18. QED
  BY <1>11, <1>17

\* Where nothing with v can be in the result, the answer for the sets
\* without v is the answer.
LEMMA PassRight ==
  ASSUME Base, kind = "zdd", NEW op \in OpsOf(kind),
         NEW v \in VarsUsed, NEW f, NEW g, Ours(f), Ours(g),
         MaxLevel(f, g) = var2level[v], NEW r,
         Right(op, Cofactor(f, v, 0), Cofactor(g, v, 0), r),
         Right(op, Cofactor(f, v, 1), Cofactor(g, v, 1), False)
  PROVE  Right(op, f, g, r)
<1>1. PICK f0, g0 : f0 = Cofactor(f, v, 0) /\ g0 = Cofactor(g, v, 0)
  OBVIOUS
<1>2. Level(f) <= var2level[v] /\ Level(g) <= var2level[v]
  BY MaxLevelFacts
<1>3. /\ Level(f0) < var2level[v] /\ Level(g0) < var2level[v]
      /\ Ours(f0) /\ Ours(g0) /\ Ours(r)
  BY <1>1, <1>2, CofactorFacts DEF Right
<1>4. Level(r) < var2level[v]
  <2>1. Level(r) \in Nat /\ var2level[v] \in Nat
    BY <1>3, OursFacts, PositiveLevels DEF LevelsPositive, Base
  <2>2. MaxLevel(f0, g0) < var2level[v] /\ MaxLevel(f0, g0) \in Nat
    BY <1>3, MaxLevelFacts DEF MaxLevel
  <2>3. Level(r) <= MaxLevel(f0, g0)
    BY <1>1 DEF Right
  <2>4. QED
    BY <2>1, <2>2, <2>3
<1>5. Level(r) \in Nat /\ var2level[v] \in Nat
  BY <1>3, OursFacts, PositiveLevels DEF LevelsPositive, Base
<1>6. Cofactor(r, v, 0) = r /\ Cofactor(r, v, 1) = False
  BY <1>3, <1>4, <1>5, CofactorCases
<1>7. QED
  BY <1>3, <1>4, <1>5, <1>6, SidesDoFit DEF SidesFit

-----------------------------------------------------------------------------
(***************************************************************************)
(* The inductive invariant: every object refers to a diagram of its class, *)
(* every entry of the cache is a right answer, and the stack fits the call *)
(* in progress.                                                            *)
(***************************************************************************)
RootsOK ==
  /\ root \in [Handles -> Edges]
  /\ \A h \in Handles : \A e : e = root[h] => Ours(e)

CacheOK ==
  \A c \in cache : c.op \in OpsOf(kind) /\ Right(c.op, c.f, c.g, c.result)

CallOK ==
  IF Idle THEN frames = <<>> /\ result = Null
  ELSE /\ call.op \in OpsOf(kind)
       /\ call.f \in Handles /\ call.g \in Handles /\ call.dest \in Handles

\* s is the stack and x the last result of a call of op on f and g.
InCall(op, f, g, s, x) ==
  /\ ~ Idle /\ op = call.op /\ f = root[call.f] /\ g = root[call.g]
  /\ s = frames /\ x = result

RunOK ==
  \A op, f, g, s, x : InCall(op, f, g, s, x) =>
    \E S, p : s \in Seq(S) /\ StackFor(op, f, g, s, x, p)

ApplyInv == Base /\ RootsOK /\ CacheOK /\ CallOK /\ RunOK

-----------------------------------------------------------------------------
LEMMA SameTableKeeps ==
  ASSUME Base, UNCHANGED <<orderVars, tableVars, kind>>
  PROVE  StepKeeps(Allocated)
<1>1. StoreInv' /\ Keeps(Allocated)
  BY TableUnchanged DEF Base
<1>2. Base'
  BY <1>1, BaseKept
<1>3. QED
  BY <1>1, <1>2, AllSelfContained DEF StepKeeps, Base, StoreInv

LEMMA RootsKept ==
  ASSUME RootsOK, StepKeeps(Allocated), root' = root
  PROVE  RootsOK'
<1>1. \A h \in Handles : \A e : e = root[h] => Ours(e)'
  BY AllKept DEF RootsOK
<1>2. QED
  BY <1>1 DEF RootsOK

LEMMA CacheKept ==
  ASSUME CacheOK, StepKeeps(Allocated), UNCHANGED cache
  PROVE  CacheOK'
<1>1. \A c \in cache : Right(c.op, c.f, c.g, c.result)'
  BY AllKept DEF CacheOK
<1>2. kind' = kind
  BY DEF StepKeeps
<1>3. QED
  BY <1>1, <1>2 DEF CacheOK

LEMMA CacheWritten ==
  ASSUME CacheOK, StepKeeps(Allocated), NEW op \in OpsOf(kind),
         NEW f, NEW g, NEW r, Right(op, f, g, r)',
         cache' \in Written(op, <<f, g>>, r)
  PROVE  CacheOK'
<1>1. PICK new : new = [op |-> op, f |-> f, g |-> g, result |-> r]
  OBVIOUS
<1>2. \A c \in cache' : c \in cache \/ c = new
  BY <1>1 DEF Written
<1>3. kind' = kind
  BY DEF StepKeeps
<1>4. \A c \in cache : /\ Right(c.op, c.f, c.g, c.result)'
                       /\ c.op \in OpsOf(kind)
  BY AllKept DEF CacheOK
<1>5. /\ new.op = op /\ new.f = f /\ new.g = g /\ new.result = r
  BY <1>1
<1>6. ASSUME NEW c \in cache'
      PROVE  c.op \in OpsOf(kind) /\ Right(c.op, c.f, c.g, c.result)'
  <2>1. CASE c \in cache
    BY <1>4, <2>1
  <2>2. CASE c = new
    BY <1>5, <2>2
  <2>3. QED
    BY <1>2, <2>1, <2>2
<1>7. QED
  BY <1>3, <1>6 DEF CacheOK

\* The call and its operands stay: the stack has to fit them.
LEMMA RunGoesOn ==
  ASSUME UNCHANGED <<root, call>>, NEW op, NEW f, NEW g, NEW s, NEW x,
         InCall(op, f, g, s, x), NEW S, NEW p,
         frames' \in Seq(S),
         NEW s2, s2 = frames', NEW x2, x2 = result',
         StackFor(op, f, g, s2, x2, p)'
  PROVE  RunOK'
<1> SUFFICES ASSUME NEW op1, NEW f1, NEW g1, NEW s1, NEW x1,
                    InCall(op1, f1, g1, s1, x1)'
             PROVE  s1 \in Seq(S) /\ StackFor(op1, f1, g1, s1, x1, p)'
  BY DEF RunOK
<1>1. op1 = op /\ f1 = f /\ g1 = g /\ s1 = s2 /\ x1 = x2
  BY DEF InCall
<1>2. QED
  BY <1>1

(***************************************************************************)
(* Every step keeps the nodes the objects refer to.                        *)
(***************************************************************************)
StepSafe == \E A : StepKeeps(A) /\ \A h \in Handles : Within(A, root[h])

RootsHeld == \A h \in Handles : \A e : e = root[h] => Ours(e)'

LEMMA RootsStay == RootsOK /\ StepSafe => RootsHeld
BY OursKept DEF RootsOK, StepSafe, RootsHeld

LEMMA KeepingIsSafe == RootsOK /\ StepKeeps(Allocated) => StepSafe
<1> SUFFICES ASSUME RootsOK, StepKeeps(Allocated) PROVE StepSafe
  OBVIOUS
<1>1. \A h \in Handles : Within(Allocated, root[h])
  BY OursFacts DEF RootsOK, StepKeeps
<1>2. PICK A : A = Allocated
  OBVIOUS
<1>3. StepKeeps(A) /\ \A h \in Handles : Within(A, root[h])
  BY <1>1, <1>2
<1>4. QED
  BY <1>3 DEF StepSafe

\* What a step inside a call finds, and what it has to show.
Step(op, f, g, S, s, x, p, n, fr, q) ==
  /\ ApplyInv /\ InCall(op, f, g, s, x) /\ op \in OpsOf(kind)
  /\ s \in Seq(S) /\ s # <<>> /\ StackFor(op, f, g, s, x, p)
  /\ n = Len(s) /\ fr = Top /\ fr = s[n] /\ q = p[n]
  /\ OursPair(q)
  /\ fr.phase = "enter" => fr = Enter(q[1], q[2])
  /\ fr.phase # "enter" => /\ Asks(op, fr, q, p[n + 1])
                           /\ Right(op, p[n + 1][1], p[n + 1][2], x)
  /\ UNCHANGED <<orderVars, kind, root, call>>

LEMMA StepBegins ==
  ASSUME ApplyInv, Running, UnchangedByStep
  PROVE  \E op, f, g, S, s, x, p, n, fr, q : Step(op, f, g, S, s, x, p, n, fr, q)
<1>1. PICK op, f, g, s, x : InCall(op, f, g, s, x)
  BY DEF InCall, Running
<1>2. PICK S, p : s \in Seq(S) /\ StackFor(op, f, g, s, x, p)
  BY <1>1 DEF ApplyInv, RunOK
<1>3. s # <<>> /\ op \in OpsOf(kind)
  BY <1>1 DEF InCall, Running, ApplyInv, CallOK
<1>4. PICK n, fr, q : n = Len(s) /\ fr = s[n] /\ q = p[n]
  OBVIOUS
<1>5. /\ Last(s) = fr /\ OursPair(q)
      /\ fr.phase = "enter" => fr = Enter(q[1], q[2])
      /\ fr.phase # "enter" => /\ Asks(op, fr, q, p[n + 1])
                               /\ Right(op, p[n + 1][1], p[n + 1][2], x)
  BY <1>2, <1>3, <1>4, TopAsks DEF ApplyInv
<1>6. fr = Top
  BY <1>1, <1>5 DEF Top, InCall
<1>7. UNCHANGED <<orderVars, kind, root, call>>
  BY DEF UnchangedByStep
<1>8. Step(op, f, g, S, s, x, p, n, fr, q)
  BY <1>1, <1>2, <1>3, <1>4, <1>5, <1>6, <1>7 DEF Step
<1>9. QED
  BY <1>8

\* A step that keeps the nodes and the call leaves roots and call in order.
LEMMA StepFrame ==
  ASSUME NEW op, NEW f, NEW g, NEW S, NEW s, NEW x, NEW p, NEW n, NEW fr, NEW q,
         Step(op, f, g, S, s, x, p, n, fr, q), StepKeeps(Allocated)
  PROVE  Base' /\ RootsOK' /\ CallOK' /\ StackFor(op, f, g, s, x, p)'
<1>1. Base' /\ RootsOK'
  BY RootsKept DEF Step, ApplyInv, StepKeeps
<1>2. CallOK'
  BY DEF Step, ApplyInv, CallOK, InCall, Idle
<1>3. StackFor(op, f, g, s, x, p)'
  BY StackKept DEF Step
<1>4. QED
  BY <1>1, <1>2, <1>3

LEMMA PopStep ==
  ASSUME NEW op, NEW f, NEW g, NEW S, NEW s, NEW x, NEW p, NEW n, NEW fr, NEW q,
         Step(op, f, g, S, s, x, p, n, fr, q), StepKeeps(Allocated),
         NEW r, Pop(r), Right(op, q[1], q[2], r)', CacheOK'
  PROVE  ApplyInv'
<1>1. /\ Base' /\ RootsOK' /\ CallOK' /\ StackFor(op, f, g, s, x, p)'
  BY StepFrame
<1>2. PICK s2 : s2 = Front(s)
  OBVIOUS
<1>3. StackFor(op, f, g, s2, r, p)'
  BY <1>1, <1>2, StackFits DEF PopFits, Step
<1>4. s2 = frames' /\ r = result'
  BY <1>2 DEF Pop, Step, InCall
<1>5. frames' \in Seq(S)
  BY <1>2, <1>4 DEF Step, Front
<1>6. RunOK'
  BY <1>3, <1>4, <1>5, RunGoesOn DEF Step
<1>7. QED
  BY <1>1, <1>6 DEF ApplyInv

LEMMA PushStep ==
  ASSUME NEW op, NEW f, NEW g, NEW S, NEW s, NEW x, NEW p, NEW n, NEW fr, NEW q,
         Step(op, f, g, S, s, x, p, n, fr, q), StepKeeps(Allocated),
         NEW fr2, NEW q2, Push(fr2, Enter(q2[1], q2[2])),
         Asks(op, fr2, q, q2), CacheOK'
  PROVE  ApplyInv'
<1>1. /\ Base' /\ RootsOK' /\ CallOK' /\ StackFor(op, f, g, s, x, p)'
  BY StepFrame
<1>2. OursPair(q2)
  BY AsksFacts DEF Step, ApplyInv
<1>3. Asks(op, fr2, q, q2)' /\ OursPair(q2)'
  BY <1>2, AsksKept, AllKept DEF OursPair, Step
<1>4. PICK s2 : s2 = Append(Append(Front(s), fr2), Enter(q2[1], q2[2]))
  OBVIOUS
<1>5. PICK p2 : p2 = Pushed(p, n, q2)
  OBVIOUS
<1>6. StackFor(op, f, g, s2, x, p2)'
  BY <1>1, <1>3, <1>4, <1>5, StackFits DEF PushFits, Step
<1>7. s2 = frames' /\ x = result'
  BY <1>4 DEF Push, Step, InCall
<1>8. PICK T : frames' \in Seq(T)
  <2>1. PICK u, e : u = Front(s) /\ e = Enter(q2[1], q2[2])
    OBVIOUS
  <2>2. PICK T : T = S \cup {fr2, e}
    OBVIOUS
  <2>3. u \in Seq(T)
    BY <2>1, <2>2 DEF Front, Step
  <2>4. Append(u, fr2) \in Seq(T) /\ e \in T
    BY <2>2, <2>3
  <2>5. frames' = Append(Append(u, fr2), e)
    BY <1>4, <1>7, <2>1
  <2>6. QED
    BY <2>4, <2>5
<1>9. RunOK'
  BY <1>6, <1>7, <1>8, RunGoesOn DEF Step
<1>10. QED
  BY <1>1, <1>9 DEF ApplyInv

-----------------------------------------------------------------------------
(***************************************************************************)
(* The steps of an operation.                                              *)
(***************************************************************************)
LEMMA EnterTerminalInv == ApplyInv /\ EnterTerminal => ApplyInv' /\ StepSafe
<1> SUFFICES ASSUME ApplyInv, EnterTerminal PROVE ApplyInv' /\ StepSafe
  OBVIOUS
<1>1. /\ Running /\ UnchangedByStep /\ Top.phase = "enter"
      /\ UNCHANGED <<tableVars, cache>>
  BY DEF EnterTerminal, Entering
<1>2. PICK op, f, g, S, s, x, p, n, fr, q : Step(op, f, g, S, s, x, p, n, fr, q)
  BY <1>1, StepBegins
<1>3. fr.f = q[1] /\ fr.g = q[2] /\ op \in OpsOf(kind) /\ Ours(q[1]) /\ Ours(q[2])
  BY <1>1, <1>2 DEF Step, Enter, OursPair
<1>4. PICK r \in Terminal(op, q[1], q[2]) : Pop(r)
  BY <1>2, <1>3 DEF EnterTerminal, Step, InCall
<1>5. StepKeeps(Allocated)
  BY <1>1, SameTableKeeps DEF ApplyInv, UnchangedByStep
<1>6. Right(op, q[1], q[2], r)'
  BY <1>3, <1>4, <1>5, TerminalRight, AllKept DEF ApplyInv
<1>7. CacheOK'
  BY <1>1, <1>5, CacheKept DEF ApplyInv
<1>8. QED
  BY <1>2, <1>4, <1>5, <1>6, <1>7, PopStep,
     KeepingIsSafe DEF ApplyInv

LEMMA EnterCachedInv == ApplyInv /\ EnterCached => ApplyInv' /\ StepSafe
<1> SUFFICES ASSUME ApplyInv, EnterCached PROVE ApplyInv' /\ StepSafe
  OBVIOUS
<1>1. /\ Running /\ UnchangedByStep /\ Top.phase = "enter"
      /\ UNCHANGED <<tableVars, cache>>
  BY DEF EnterCached, Entering
<1>2. PICK op, f, g, S, s, x, p, n, fr, q : Step(op, f, g, S, s, x, p, n, fr, q)
  BY <1>1, StepBegins
<1>3. fr.f = q[1] /\ fr.g = q[2] /\ op \in OpsOf(kind) /\ Ours(q[1]) /\ Ours(q[2])
  BY <1>1, <1>2 DEF Step, Enter, OursPair
<1>4. PICK o : o = Operation(op, q[1], q[2])
  OBVIOUS
<1>5. Terminal(op, q[1], q[2]) = {}
  BY <1>2, <1>3 DEF EnterCached, Step, InCall
<1>6. PICK c \in Cached(op, o.key) : Pop(IF o.flip THEN Not(c.result) ELSE c.result)
  BY <1>2, <1>3, <1>4 DEF EnterCached, Step, InCall
<1>7. PICK r : r = IF o.flip THEN Not(c.result) ELSE c.result
  OBVIOUS
<1>8. Right(op, o.key[1], o.key[2], c.result)
  BY <1>6 DEF Cached, ApplyInv, CacheOK
<1>9. Right(op, q[1], q[2], r)
  BY <1>3, <1>4, <1>5, <1>7, <1>8, KeyRight DEF ApplyInv
<1>10. StepKeeps(Allocated)
  BY <1>1, SameTableKeeps DEF ApplyInv, UnchangedByStep
<1>11. Right(op, q[1], q[2], r)' /\ Pop(r)
  BY <1>6, <1>7, <1>9, <1>10, AllKept
<1>12. CacheOK'
  BY <1>1, <1>10, CacheKept DEF ApplyInv
<1>13. QED
  BY <1>2, <1>10, <1>11, <1>12, PopStep,
     KeepingIsSafe DEF ApplyInv

LEMMA EnterOpenInv == ApplyInv /\ EnterOpen => ApplyInv' /\ StepSafe
<1> SUFFICES ASSUME ApplyInv, EnterOpen PROVE ApplyInv' /\ StepSafe
  OBVIOUS
<1>1. /\ Running /\ UnchangedByStep /\ Top.phase = "enter"
      /\ UNCHANGED <<tableVars, cache>>
  BY DEF EnterOpen, Entering
<1>2. PICK op, f, g, S, s, x, p, n, fr, q : Step(op, f, g, S, s, x, p, n, fr, q)
  BY <1>1, StepBegins
<1>3. fr.f = q[1] /\ fr.g = q[2] /\ op \in OpsOf(kind) /\ OursPair(q)
  BY <1>1, <1>2 DEF Step, Enter
<1>4. PICK o : o = Opened(op, q[1], q[2])
  OBVIOUS
<1>5. Terminal(op, q[1], q[2]) = {} /\ Push(o, LoSide(o))
  BY <1>2, <1>3, <1>4 DEF EnterOpen, Step, InCall
<1>6. PICK q2 : q2 = LoPair(o)
  OBVIOUS
<1>7. Push(o, Enter(q2[1], q2[2]))
  BY <1>5, <1>6 DEF LoSide, LoPair
<1>8. Asks(op, o, q, q2)
  BY <1>3, <1>4, <1>5, <1>6 DEF Asks, AsksLo, OpenedFor
<1>9. StepKeeps(Allocated)
  BY <1>1, SameTableKeeps DEF ApplyInv, UnchangedByStep
<1>10. CacheOK'
  BY <1>1, <1>9, CacheKept DEF ApplyInv
<1>11. QED
  BY <1>2, <1>7, <1>8, <1>9, <1>10, PushStep,
     KeepingIsSafe DEF ApplyInv

LEMMA GotLoInv == ApplyInv /\ GotLo => ApplyInv' /\ StepSafe
<1> SUFFICES ASSUME ApplyInv, GotLo PROVE ApplyInv' /\ StepSafe
  OBVIOUS
<1>1. /\ Running /\ UnchangedByStep /\ Top.phase = "lo"
      /\ UNCHANGED <<tableVars, cache>>
  BY DEF GotLo
<1>2. PICK op, f, g, S, s, x, p, n, fr, q : Step(op, f, g, S, s, x, p, n, fr, q)
  BY <1>1, StepBegins
<1>3. fr = Top /\ x = result /\ op \in OpsOf(kind) /\ Asks(op, fr, q, p[n + 1])
      /\ Right(op, p[n + 1][1], p[n + 1][2], x)
  BY <1>1, <1>2 DEF Step, InCall
<1>4. OpenedFor(op, q, fr) /\ p[n + 1] = LoPair(fr)
  BY <1>1, <1>3, AsksFacts DEF ApplyInv
<1>5. PICK fr2, q2 : fr2 = WithLo(fr, x) /\ q2 = HiPair(fr)
  OBVIOUS
<1>6. Asks(op, fr2, q, q2)
  BY <1>1, <1>3, <1>4, <1>5 DEF Asks, AsksHi
<1>7. Push(fr2, Enter(q2[1], q2[2]))
  BY <1>3, <1>5 DEF GotLo, WithLo, HiPair
<1>8. StepKeeps(Allocated)
  BY <1>1, SameTableKeeps DEF ApplyInv, UnchangedByStep
<1>9. CacheOK'
  BY <1>1, <1>8, CacheKept DEF ApplyInv
<1>10. QED
  BY <1>2, <1>6, <1>7, <1>8, <1>9, PushStep,
     KeepingIsSafe DEF ApplyInv

LEMMA GotPassInv == ApplyInv /\ GotPass => ApplyInv' /\ StepSafe
<1> SUFFICES ASSUME ApplyInv, GotPass PROVE ApplyInv' /\ StepSafe
  OBVIOUS
<1>1. /\ Running /\ UnchangedByStep /\ Top.phase = "pass" /\ UNCHANGED tableVars
  BY DEF GotPass
<1>2. PICK op, f, g, S, s, x, p, n, fr, q : Step(op, f, g, S, s, x, p, n, fr, q)
  BY <1>1, StepBegins
<1>3. fr = Top /\ x = result /\ op \in OpsOf(kind) /\ Asks(op, fr, q, p[n + 1])
      /\ Right(op, p[n + 1][1], p[n + 1][2], x) /\ op = call.op
  BY <1>1, <1>2 DEF Step, InCall
<1>4. /\ p[n + 1] = LoPair(fr) /\ kind = "zdd" /\ fr.flip = FALSE
      /\ Right(op, fr.fhi, fr.ghi, False)
      /\ fr.fhi = Cofactor(fr.f, fr.var, 1) /\ fr.ghi = Cofactor(fr.g, fr.var, 1)
      /\ Ours(fr.f) /\ Ours(fr.g) /\ fr.var \in VarsUsed
      /\ MaxLevel(fr.f, fr.g) = var2level[fr.var]
  BY <1>1, <1>3, AsksFacts DEF ApplyInv
<1>5. Right(op, fr.f, fr.g, x)
  BY <1>3, <1>4, PassRight DEF ApplyInv, LoPair
<1>6. Right(op, q[1], q[2], x)
  BY <1>1, <1>3, <1>4, <1>5, AsksFacts DEF ApplyInv
<1>7. StepKeeps(Allocated)
  BY <1>1, SameTableKeeps DEF ApplyInv, UnchangedByStep
<1>8. Right(op, fr.f, fr.g, x)' /\ Right(op, q[1], q[2], x)'
  BY <1>5, <1>6, <1>7, AllKept
<1>9. cache' \in Written(op, <<fr.f, fr.g>>, x) /\ Pop(x)
  BY <1>3 DEF GotPass
<1>10. CacheOK'
  BY <1>3, <1>7, <1>8, <1>9, CacheWritten DEF ApplyInv
<1>11. QED
  BY <1>2, <1>7, <1>8, <1>9, <1>10, PopStep,
     KeepingIsSafe DEF ApplyInv

\* An answer to the pair of a frame answers the pair it was opened for,
\* in the state after its node is made as well.
FlipFits ==
  Base => \A op, fr, q, q2, r : \A t :
    op \in OpsOf(kind) /\ Asks(op, fr, q, q2) /\ Right(op, fr.f, fr.g, r)
    /\ t = (IF fr.flip THEN Not(r) ELSE r)
    => Right(op, q[1], q[2], t)

LEMMA FlipDoesFit == FlipFits
<1> SUFFICES ASSUME Base, NEW op, NEW fr, NEW q, NEW q2, NEW r, NEW t,
                    op \in OpsOf(kind), Asks(op, fr, q, q2),
                    Right(op, fr.f, fr.g, r),
                    t = IF fr.flip THEN Not(r) ELSE r
             PROVE  Right(op, q[1], q[2], t)
  BY DEF FlipFits
<1>1. QED
  BY AsksFacts

LEMMA FlipFitsNext == FlipFits'
BY FlipDoesFit, PTL

LEMMA JoinInv == ApplyInv /\ Join => ApplyInv' /\ StepSafe
<1> SUFFICES ASSUME ApplyInv, Join PROVE ApplyInv' /\ StepSafe
  OBVIOUS
<1>1. /\ Running /\ UnchangedByStep /\ Top.phase \in {"hi", "keepHi"}
  BY DEF Join, Joining
<1>2. PICK op, f, g, S, s, x, p, n, fr, q : Step(op, f, g, S, s, x, p, n, fr, q)
  BY <1>1, StepBegins
<1>3. fr = Top /\ x = result /\ op \in OpsOf(kind) /\ Asks(op, fr, q, p[n + 1])
      /\ Right(op, p[n + 1][1], p[n + 1][2], x) /\ op = call.op
  BY <1>1, <1>2 DEF Step, InCall
<1>4. PICK lo, hi : lo = JoinLo /\ hi = JoinHi
  OBVIOUS
<1>5. PICK r, t : /\ t = IF fr.flip THEN Not(r) ELSE r
                  /\ Make(kind, fr.var, lo, hi, r)
                  /\ cache' \in Written(op, <<fr.f, fr.g>>, r)
                  /\ Pop(t)
  BY <1>3, <1>4 DEF Join
<1>6. /\ fr.fhi = Cofactor(fr.f, fr.var, 1) /\ fr.ghi = Cofactor(fr.g, fr.var, 1)
      /\ Ours(fr.f) /\ Ours(fr.g) /\ fr.var \in VarsUsed
      /\ MaxLevel(fr.f, fr.g) = var2level[fr.var]
      /\ fr.phase = "hi" => /\ p[n + 1] = HiPair(fr)
                            /\ Right(op, LoPair(fr)[1], LoPair(fr)[2], fr.lo)
      /\ fr.phase = "keepHi" => /\ p[n + 1] = LoPair(fr)
                                /\ Right(op, fr.fhi, fr.ghi, fr.fhi)
  BY <1>1, <1>3, AsksFacts DEF ApplyInv
<1>7. /\ Right(op, Cofactor(fr.f, fr.var, 0), Cofactor(fr.g, fr.var, 0), lo)
      /\ Right(op, Cofactor(fr.f, fr.var, 1), Cofactor(fr.g, fr.var, 1), hi)
  <2>1. CASE fr.phase = "hi"
    BY <1>3, <1>4, <1>6, <2>1 DEF JoinLo, JoinHi, LoPair, HiPair
  <2>2. CASE fr.phase = "keepHi"
    BY <1>3, <1>4, <1>6, <2>2 DEF JoinLo, JoinHi, LoPair
  <2>3. QED
    BY <1>1, <1>3, <2>1, <2>2
<1>8. StepKeeps(Allocated) /\ Right(op, fr.f, fr.g, r)'
  <2>1. PICK v, f1, g1 : v = fr.var /\ f1 = fr.f /\ g1 = fr.g
    OBVIOUS
  <2>2. /\ Ours(f1) /\ Ours(g1) /\ v \in VarsUsed
        /\ MaxLevel(f1, g1) = var2level[v] /\ Make(kind, v, lo, hi, r)
        /\ Right(op, Cofactor(f1, v, 0), Cofactor(g1, v, 0), lo)
        /\ Right(op, Cofactor(f1, v, 1), Cofactor(g1, v, 1), hi)
    BY <1>5, <1>6, <1>7, <2>1
  <2>3. Base /\ UNCHANGED <<orderVars, kind>>
    BY DEF ApplyInv, Join, UnchangedByStep
  <2>4. StepKeeps(Allocated) /\ Right(op, f1, g1, r)'
    BY <1>3, <2>2, <2>3, JoinRight
  <2>5. QED
    BY <2>1, <2>4
<1>9. CacheOK'
  BY <1>3, <1>5, <1>8, CacheWritten DEF ApplyInv
<1>10. Right(op, q[1], q[2], t)'
  <2>1. Asks(op, fr, q, p[n + 1])' /\ op \in OpsOf(kind') /\ Base'
    BY <1>3, <1>8, AsksKept DEF StepKeeps
  <2>2. PICK q2 : q2 = p[n + 1]
    OBVIOUS
  <2>3. Asks(op, fr, q, q2)'
    BY <2>1, <2>2
  <2>4. QED
    BY <1>5, <1>8, <2>1, <2>3, FlipFitsNext DEF FlipFits, Not
<1>11. QED
  BY <1>2, <1>5, <1>8, <1>9, <1>10, PopStep,
     KeepingIsSafe DEF ApplyInv

-----------------------------------------------------------------------------
(***************************************************************************)
(* Collections: what the objects refer to stays.                           *)
(***************************************************************************)
LEMMA SweepSafe ==
  ASSUME Base, RootsOK, UNCHANGED <<orderVars, kind>>, Sweep(Live)
  PROVE  StepSafe
<1>1. PICK R : R = {root[h].node : h \in Handles}
  OBVIOUS
<1>2. PICK A : A = Live
  OBVIOUS
<1>3. A = Reach(R)
  BY <1>1, <1>2 DEF Live
<1>4. \A h \in Handles : Within(Allocated, root[h])
  BY OursFacts DEF RootsOK
<1>5. R \cap (1..used) \subseteq Allocated
  BY <1>1, <1>4 DEF Within
<1>6. /\ A \in SUBSET Allocated /\ SelfContained(A)
      /\ R \cap (1..used) \subseteq A
  BY <1>3, <1>5, ReachFacts DEF Base, StoreInv
<1>7. \A h \in Handles : Within(A, root[h])
  BY <1>1, <1>4, <1>6 DEF Within, Allocated
<1>8. StoreInv' /\ Keeps(A)
  BY <1>2, <1>6, SweepKeeps DEF Base
<1>9. StepKeeps(A)
  BY <1>6, <1>8, BaseKept DEF StepKeeps
<1>10. QED
  BY <1>7, <1>9 DEF StepSafe

LEMMA BddgcSafe ==
  ASSUME Base, RootsOK, CacheOK, UNCHANGED <<orderVars, kind>>, Bddgc
  PROVE  StepSafe /\ CacheOK'
<1>1. CASE Collect
  BY <1>1, SweepSafe DEF Collect, CacheOK
<1>2. CASE UNCHANGED <<tableVars, cache>>
  BY <1>2, SameTableKeeps, KeepingIsSafe, CacheKept
<1>3. QED
  BY <1>1, <1>2 DEF Bddgc

LEMMA RootsAfter ==
  ASSUME RootsOK, StepSafe, root' = root
  PROVE  Base' /\ RootsOK'
<1>1. RootsHeld
  BY RootsStay
<1>2. RootsOK'
  BY <1>1 DEF RootsOK, RootsHeld
<1>3. QED
  BY <1>2 DEF StepSafe, StepKeeps

-----------------------------------------------------------------------------
(***************************************************************************)
(* The beginning, the second attempt and the end of a call.                *)
(***************************************************************************)
StartFits ==
  \A op, f, g, r, t :
    /\ Right(op, f, g, r) => \E p : StackFor(op, f, g, <<>>, r, p)
    /\ Ours(f) /\ Ours(g) /\ t = Enter(f, g) =>
         \E p : StackFor(op, f, g, <<t>>, Null, p)

LEMMA StartDoesFit == StartFits
<1>1. ASSUME NEW op, NEW f, NEW g, NEW r, Right(op, f, g, r)
      PROVE  \E p : StackFor(op, f, g, <<>>, r, p)
  <2>1. PICK p : p = [i \in 1..1 |-> <<f, g>>]
    OBVIOUS
  <2>2. p[1] = <<f, g>> /\ OursPair(p[1]) /\ Ours(r)
    BY <1>1, <2>1 DEF OursPair, Right
  <2>3. StackFor(op, f, g, <<>>, r, p)
    BY <1>1, <2>2 DEF StackFor
  <2>4. QED
    BY <2>3
<1>2. ASSUME NEW op, NEW f, NEW g, Ours(f), Ours(g), NEW t, t = Enter(f, g)
      PROVE  \E p : StackFor(op, f, g, <<t>>, Null, p)
  <2>1. PICK p : p = [i \in 1..2 |-> <<f, g>>]
    OBVIOUS
  <2>2. p[1] = <<f, g>> /\ p[2] = <<f, g>> /\ OursPair(p[1]) /\ OursPair(p[2])
    BY <1>2, <2>1 DEF OursPair
  <2>3. t.phase = "enter" /\ t = Enter(p[1][1], p[1][2])
    BY <1>2, <2>2 DEF Enter
  <2>4. StackFor(op, f, g, <<t>>, Null, p)
    BY <2>2, <2>3 DEF StackFor
  <2>5. QED
    BY <2>4
<1>3. QED
  BY <1>1, <1>2 DEF StartFits

LEMMA StartFitsNext == StartFits'
BY StartDoesFit, PTL

LEMMA RunStarts ==
  ASSUME NEW op, NEW f, NEW g, NEW r, call'.op = op,
         root'[call'.f] = f, root'[call'.g] = g, result' = r,
         \/ frames' = <<>> /\ Right(op, f, g, r)'
         \/ frames' = <<Enter(f, g)>> /\ r = Null /\ Ours(f)' /\ Ours(g)'
  PROVE  RunOK'
<1>1. PICK s : s = frames'
  OBVIOUS
<1>2. PICK S : s \in Seq(S)
  <2>1. CASE s = <<>>
    <3>1. s \in Seq({})
      BY <2>1
    <3>2. QED
      BY <3>1
  <2>2. CASE s = <<Enter(f, g)>>
    <3>1. s \in Seq({Enter(f, g)})
      BY <2>2
    <3>2. QED
      BY <3>1
  <2>3. QED
    BY <1>1, <2>1, <2>2
<1>3. PICK p : StackFor(op, f, g, s, r, p)'
  <2>1. CASE frames' = <<>> /\ Right(op, f, g, r)'
    BY <1>1, <2>1, StartFitsNext DEF StartFits
  <2>2. CASE frames' = <<Enter(f, g)>> /\ r = Null /\ Ours(f)' /\ Ours(g)'
    <3>1. PICK t : t = Enter(f, g)
      OBVIOUS
    <3>2. t = Enter(f, g)'
      BY <3>1 DEF Enter
    <3>3. s = <<t>> /\ r = Null'
      BY <1>1, <2>2, <3>1 DEF Null, Const
    <3>4. QED
      BY <2>2, <3>2, <3>3, StartFitsNext DEF StartFits
  <2>3. QED
    BY <2>1, <2>2
<1> SUFFICES ASSUME NEW op1, NEW f1, NEW g1, NEW s1, NEW x1,
                    InCall(op1, f1, g1, s1, x1)'
             PROVE  s1 \in Seq(S) /\ StackFor(op1, f1, g1, s1, x1, p)'
  BY DEF RunOK
<1>4. op1 = op /\ f1 = f /\ g1 = g /\ s1 = s /\ x1 = r
  BY <1>1 DEF InCall
<1>5. QED
  BY <1>2, <1>3, <1>4

LEMMA BeginCallInv ==
  ASSUME ApplyInv, NEW op \in OpsOf(kind), NEW mode \in Modes,
         NEW f \in Handles, NEW g \in Handles, BeginCall(op, mode, f, g, f)
  PROVE  ApplyInv' /\ StepSafe
<1>1. PICK f0, g0 : f0 = root[f] /\ g0 = root[g]
  OBVIOUS
<1>2. Ours(f0) /\ Ours(g0)
  BY <1>1 DEF ApplyInv, RootsOK
<1>3. UNCHANGED <<orderVars, kind, root>>
  BY DEF BeginCall
<1>4. /\ call'.op = op /\ call'.f = f /\ call'.g = g /\ call'.dest = f
  BY DEF BeginCall
<1>5. ~ Idle' /\ CallOK'
  <2>1. op # "none"
    BY DEF OpsOf
  <2>2. ~ Idle'
    BY <1>4, <2>1 DEF Idle, NoCall
  <2>3. QED
    BY <1>3, <1>4, <2>2 DEF CallOK
<1>6. CASE result' \in Terminal(op, root[f], root[g]) /\ frames' = <<>>
           /\ UNCHANGED <<tableVars, cache>>
  <2>1. PICK r : r = result'
    OBVIOUS
  <2>2. StepKeeps(Allocated)
    BY <1>3, <1>6, SameTableKeeps DEF ApplyInv
  <2>3. Right(op, f0, g0, r)'
    BY <1>1, <1>2, <1>6, <2>1, <2>2, TerminalRight, AllKept DEF ApplyInv
  <2>4. CacheOK' /\ StepSafe
    BY <1>6, <2>2, CacheKept, KeepingIsSafe DEF ApplyInv
  <2>5. RunOK'
    BY <1>1, <1>3, <1>4, <1>6, <2>1, <2>3, RunStarts
  <2>6. QED
    BY <1>3, <1>5, <2>4, <2>5, RootsAfter DEF ApplyInv
<1>7. CASE frames' = <<Enter(root[f], root[g])>> /\ result' = Null
           /\ IF ShouldGc THEN Bddgc ELSE UNCHANGED <<tableVars, cache>>
  <2>1. Bddgc
    BY <1>7 DEF Bddgc
  <2>2. StepSafe /\ CacheOK'
    BY <1>3, <2>1, BddgcSafe DEF ApplyInv
  <2>3. Ours(f0)' /\ Ours(g0)'
    BY <1>1, <2>2, RootsStay DEF ApplyInv, RootsHeld
  <2>4. RunOK'
    BY <1>1, <1>3, <1>4, <1>7, <2>3, RunStarts
  <2>5. QED
    BY <1>3, <1>5, <2>2, <2>4, RootsAfter DEF ApplyInv
<1>8. QED
  BY <1>6, <1>7 DEF BeginCall

LEMMA RetryInv == ApplyInv /\ Retry => ApplyInv' /\ StepSafe
<1> SUFFICES ASSUME ApplyInv, Retry PROVE ApplyInv' /\ StepSafe
  OBVIOUS
<1>1. /\ UNCHANGED <<orderVars, kind, root, call>> /\ Bddgc /\ ~ Idle
  BY DEF Retry, Overflow, NoRoom, Joining, Running
<1>2. PICK op, f0, g0 : op = call.op /\ f0 = root[call.f] /\ g0 = root[call.g]
  OBVIOUS
<1>3. call.f \in Handles /\ call.g \in Handles
  BY <1>1 DEF ApplyInv, CallOK
<1>4. StepSafe /\ CacheOK'
  BY <1>1, BddgcSafe DEF ApplyInv
<1>5. Ours(f0)' /\ Ours(g0)'
  BY <1>2, <1>3, <1>4, RootsStay DEF ApplyInv, RootsHeld
<1>6. frames' = <<Enter(f0, g0)>> /\ result' = Null
  BY <1>2 DEF Retry
<1>7. RunOK'
  BY <1>1, <1>2, <1>5, <1>6, RunStarts
<1>8. CallOK'
  BY <1>1 DEF ApplyInv, CallOK, Idle
<1>9. QED
  BY <1>1, <1>4, <1>7, <1>8, RootsAfter DEF ApplyInv

\* A stack that is empty has the answer.
LEMMA FinishedRight ==
  ASSUME ApplyInv, ~ Idle, frames = <<>>
  PROVE  Right(call.op, root[call.f], root[call.g], result)
<1>1. PICK op, f, g, s, x : InCall(op, f, g, s, x)
  BY DEF InCall
<1>2. PICK p : StackFor(op, f, g, <<>>, x, p)
  BY <1>1 DEF ApplyInv, RunOK, InCall
<1>3. Right(op, f, g, x)
  BY <1>2 DEF StackFor
<1>4. QED
  BY <1>1, <1>3 DEF InCall

LEMMA FinishInv == ApplyInv /\ Finish => ApplyInv' /\ StepSafe
<1> SUFFICES ASSUME ApplyInv, Finish PROVE ApplyInv' /\ StepSafe
  OBVIOUS
<1>1. UNCHANGED <<orderVars, tableVars, kind, cache, frames>>
  BY DEF Finish
<1>2. StepKeeps(Allocated)
  BY <1>1, SameTableKeeps DEF ApplyInv
<1>3. CacheOK' /\ StepSafe /\ Base'
  BY <1>1, <1>2, CacheKept, KeepingIsSafe DEF ApplyInv, StepKeeps
<1>4. Idle' /\ CallOK' /\ RunOK'
  BY <1>1 DEF Finish, Idle, CallOK, RunOK, InCall, NoCall
<1>5. RootsOK'
  <2>1. PICK x : x = result
    OBVIOUS
  <2>2. Ours(x)
    BY <2>1, FinishedRight DEF Finish, Right
  <2>3. x \in Edges /\ Ours(x)'
    BY <1>2, <2>2, OursFacts, AllKept DEF ApplyInv
  <2>4. root' = [root EXCEPT ![call.dest] = x]
    BY <2>1 DEF Finish
  <2>5. \A h \in Handles : \A e : e = root[h] => Ours(e)'
    BY <1>2, AllKept DEF ApplyInv, RootsOK
  <2>6. root' \in [Handles -> Edges]
        /\ \A h \in Handles : root'[h] = root[h] \/ root'[h] = x
    BY <2>3, <2>4 DEF ApplyInv, RootsOK
  <2>7. \A h \in Handles : \A e : e = root'[h] => Ours(e)'
    BY <2>3, <2>5, <2>6
  <2>8. QED
    BY <2>6, <2>7 DEF RootsOK
<1>6. QED
  BY <1>3, <1>4, <1>5 DEF ApplyInv

LEMMA GiveUpInv == ApplyInv /\ GiveUp => ApplyInv' /\ StepSafe
<1> SUFFICES ASSUME ApplyInv, GiveUp PROVE ApplyInv' /\ StepSafe
  OBVIOUS
<1>1. UNCHANGED <<orderVars, tableVars, kind, root, cache>>
  BY DEF GiveUp
<1>2. StepKeeps(Allocated)
  BY <1>1, SameTableKeeps DEF ApplyInv
<1>3. CacheOK' /\ RootsOK' /\ StepSafe /\ Base'
  BY <1>1, <1>2, CacheKept, RootsKept, KeepingIsSafe DEF ApplyInv, StepKeeps
<1>4. Idle' /\ CallOK' /\ RunOK'
  BY DEF GiveUp, Idle, CallOK, RunOK, InCall, NoCall
<1>5. QED
  BY <1>3, <1>4 DEF ApplyInv

LEMMA GcInv == ApplyInv /\ Gc => ApplyInv' /\ StepSafe
<1> SUFFICES ASSUME ApplyInv, Gc PROVE ApplyInv' /\ StepSafe
  OBVIOUS
<1>1. /\ UNCHANGED <<orderVars, kind, root, callVars>> /\ Bddgc /\ Idle
  BY DEF Gc, Bddgc
<1>2. StepSafe /\ CacheOK'
  BY <1>1, BddgcSafe DEF ApplyInv
<1>3. Idle' /\ CallOK' /\ RunOK'
  BY <1>1 DEF ApplyInv, Idle, CallOK, RunOK, InCall, NoCall, callVars
<1>4. QED
  BY <1>1, <1>2, <1>3, RootsAfter DEF ApplyInv

LEMMA ForgetInv ==
  ASSUME ApplyInv, NEW h \in Handles, Forget(h)
  PROVE  ApplyInv' /\ StepSafe
<1>1. UNCHANGED <<orderVars, tableVars, kind, cache, callVars>> /\ Idle
  BY DEF Forget
<1>2. StepKeeps(Allocated)
  BY <1>1, SameTableKeeps DEF ApplyInv
<1>3. CacheOK' /\ StepSafe /\ Base'
  BY <1>1, <1>2, CacheKept, KeepingIsSafe DEF ApplyInv, StepKeeps
<1>4. Idle' /\ CallOK' /\ RunOK'
  BY <1>1 DEF ApplyInv, Idle, CallOK, RunOK, InCall, NoCall, callVars
<1>5. RootsOK'
  <2>1. PICK x : x = False
    OBVIOUS
  <2>2. x \in Edges /\ Ours(x)'
    BY <1>2, <2>1, ConstsOurs, OursFacts, AllKept DEF ApplyInv
  <2>3. \A d \in Handles : \A e : e = root[d] => Ours(e)'
    BY <1>2, AllKept DEF ApplyInv, RootsOK
  <2>4. root' \in [Handles -> Edges]
        /\ \A d \in Handles : root'[d] = root[d] \/ root'[d] = x
    BY <2>1, <2>2 DEF ApplyInv, RootsOK, Forget
  <2>5. \A d \in Handles : \A e : e = root'[d] => Ours(e)'
    BY <2>2, <2>3, <2>4
  <2>6. QED
    BY <2>4, <2>5 DEF RootsOK
<1>6. QED
  BY <1>3, <1>4, <1>5 DEF ApplyInv

LEMMA InitInv == Init => ApplyInv
<1> SUFFICES ASSUME Init PROVE ApplyInv
  OBVIOUS
<1>1. WellFormed /\ CallInit
  BY DEF Init
<1>2. Base
  BY <1>1 DEF WellFormed, Base, VarOrderInv
<1>3. RootsOK
  <2>1. PICK S \in SUBSET ReducedNodes :
          Diagrams(kind, S) /\ \A h \in Handles : OfKind(kind, S, root[h])
    BY <1>1 DEF WellFormed
  <2>2. \A h \in Handles : Ours(root[h])
    BY <2>1, LargestKindHolds DEF LargestKind
  <2>3. QED
    BY <1>1, <2>2 DEF WellFormed, RootsOK
<1>4. CacheOK /\ CallOK /\ RunOK
  BY <1>1 DEF CallInit, CacheOK, CallOK, RunOK, InCall, Idle
<1>5. QED
  BY <1>2, <1>3, <1>4 DEF ApplyInv

LEMMA StutterInv == ApplyInv /\ UNCHANGED vars => ApplyInv' /\ StepSafe
<1> SUFFICES ASSUME ApplyInv, UNCHANGED vars PROVE ApplyInv' /\ StepSafe
  OBVIOUS
<1>1. UNCHANGED <<orderVars, tableVars, kind, root, cache, call, frames, result>>
  BY DEF vars, callVars
<1>2. StepKeeps(Allocated)
  BY <1>1, SameTableKeeps DEF ApplyInv
<1>3. CacheOK' /\ RootsOK' /\ StepSafe /\ Base'
  BY <1>1, <1>2, CacheKept, RootsKept, KeepingIsSafe DEF ApplyInv, StepKeeps
<1>4. CallOK' /\ (Idle <=> Idle')
  BY <1>1, <1>2 DEF ApplyInv, CallOK, Idle, StepKeeps
<1>5. RunOK'
  <2> SUFFICES ASSUME NEW op, NEW f, NEW g, NEW s, NEW x, InCall(op, f, g, s, x)'
               PROVE  \E S, p : s \in Seq(S) /\ StackFor(op, f, g, s, x, p)'
    BY DEF RunOK
  <2>1. InCall(op, f, g, s, x)
    BY <1>1, <1>4 DEF InCall
  <2>2. PICK S, p : s \in Seq(S) /\ StackFor(op, f, g, s, x, p)
    BY <2>1 DEF ApplyInv, RunOK
  <2>3. op \in OpsOf(kind)
    BY <2>1 DEF InCall, ApplyInv, CallOK
  <2>4. QED
    BY <1>2, <2>2, <2>3, StackKept
<1>6. QED
  BY <1>3, <1>4, <1>5 DEF ApplyInv

LEMMA NextInv == ApplyInv /\ [Next]_vars => ApplyInv' /\ StepSafe
<1> SUFFICES ASSUME ApplyInv, [Next]_vars PROVE ApplyInv' /\ StepSafe
  OBVIOUS
<1>1. CASE \E op \in OpsOf(kind), mode \in Modes, f, g \in Handles :
             BeginCall(op, mode, f, g, f)
  BY <1>1, BeginCallInv
<1>2. CASE OpStep
  BY <1>2, EnterTerminalInv, EnterCachedInv, EnterOpenInv, GotLoInv,
     GotPassInv, JoinInv, RetryInv, GiveUpInv, FinishInv DEF OpStep
<1>3. CASE Gc
  BY <1>3, GcInv
<1>4. CASE \E h \in Handles : Forget(h)
  BY <1>4, ForgetInv
<1>5. CASE UNCHANGED vars
  BY <1>5, StutterInv
<1>6. QED
  BY <1>1, <1>2, <1>3, <1>4, <1>5 DEF Next

(***************************************************************************)
(* The inductive invariant holds throughout.                               *)
(***************************************************************************)
THEOREM ApplyInvariance == Spec => []ApplyInv
<1>1. ApplyInv /\ [Next]_vars => ApplyInv'
  BY NextInv
<1>2. QED
  BY InitInv, <1>1, PTL DEF Spec

-----------------------------------------------------------------------------
LEMMA InvWellFormed == ApplyInv => WellFormed
<1> SUFFICES ASSUME ApplyInv PROVE WellFormed
  OBVIOUS
<1>1. PICK S : S = KindNodes
  OBVIOUS
<1>2. S \in SUBSET ReducedNodes /\ Diagrams(kind, S)
  BY <1>1, KindNodesDiagrams DEF KindNodes
<1>3. \A h \in Handles : OfKind(kind, S, root[h])
  BY <1>1 DEF ApplyInv, RootsOK, Ours
<1>4. QED
  BY <1>2, <1>3 DEF WellFormed, ApplyInv, Base, VarOrderInv, RootsOK

(***************************************************************************)
(* The operations leave the store well formed and the objects in the       *)
(* normal form of their class, whatever they write to the table and        *)
(* whatever a collection takes from it.                                    *)
(***************************************************************************)
THEOREM AlwaysWellFormed == Spec => []WellFormed
BY ApplyInvariance, InvWellFormed, PTL

LEMMA RightMeans ==
  ASSUME Base, NEW op, NEW f, NEW g, NEW r, Right(op, f, g, r)
  PROVE  Meaning(r) = Algebra!Combined(op, Meaning(f), Meaning(g))
<1>1. Assignments = SUBSET (1..VarMax)
  BY DEF Base, Assignments, VarsUsed
<1>2. PICK F, G : F = Meaning(f) /\ G = Meaning(g)
  OBVIOUS
<1>3. \A a \in Assignments : F[a] = Value(kind, f, a) /\ G[a] = Value(kind, g, a)
  BY <1>2 DEF Meaning
<1>4. Meaning(r) = [a \in Assignments |-> Algebra!Pointwise(op, F[a], G[a])]
  BY <1>3 DEF Meaning, Right
<1>5. QED
  BY <1>1, <1>2, <1>4 DEF Algebra!Combined

LEMMA InvCacheRight == ApplyInv => CacheRight
<1> SUFFICES ASSUME ApplyInv, NEW c \in cache
             PROVE  /\ Sound(c.f) /\ Sound(c.g) /\ Sound(c.result)
                    /\ Meaning(c.result) =
                         Algebra!Combined(c.op, Meaning(c.f), Meaning(c.g))
  BY DEF CacheRight
<1>1. PICK op, f, g, r : op = c.op /\ f = c.f /\ g = c.g /\ r = c.result
  OBVIOUS
<1>2. Base /\ Right(op, f, g, r)
  BY <1>1 DEF ApplyInv, CacheOK
<1>3. Sound(f) /\ Sound(g) /\ Sound(r)
  BY <1>2, OursFacts DEF Right
<1>4. QED
  BY <1>1, <1>2, <1>3, RightMeans

(***************************************************************************)
(* An entry of the operation cache is the right answer for its key as long *)
(* as it can be read.                                                      *)
(***************************************************************************)
THEOREM CacheAlwaysRight == Spec => []CacheRight
BY ApplyInvariance, InvCacheRight, PTL

LEMMA NullSound == Sound(Null)
BY NodeTableAssumption DEF Sound, Null, Const, Edges, Consts

LEMMA InvFramesRight == ApplyInv => FramesRight
<1> SUFFICES ASSUME ApplyInv PROVE FramesRight
  OBVIOUS
<1>1. Base
  BY DEF ApplyInv
<1>2. CASE Idle
  <2>1. result = Null /\ frames = <<>>
    BY <1>2 DEF ApplyInv, CallOK
  <2>2. ToSet(frames) = {}
    BY <2>1 DEF ToSet
  <2>3. QED
    BY <2>1, <2>2, NullSound DEF FramesRight
<1>3. CASE ~ Idle
  <2>1. PICK op, f, g, s, x : InCall(op, f, g, s, x)
    BY <1>3 DEF InCall
  <2>2. PICK S, p : s \in Seq(S) /\ StackFor(op, f, g, s, x, p)
    BY <2>1 DEF ApplyInv, RunOK
  <2>3. op = call.op /\ s = frames /\ x = result /\ op \in OpsOf(kind)
    BY <1>3, <2>1 DEF InCall, ApplyInv, CallOK
  <2>4. Sound(x)
    BY <1>1, <2>2, NullSound, OursFacts DEF StackFor
  <2>5. ASSUME NEW fr \in ToSet(frames)
        PROVE  /\ \A e \in FrameEdges(fr) : Sound(e)
               /\ fr.phase = "hi" => LoRight(fr)
    <3>1. PICK i \in 1..Len(s) : fr = s[i]
      BY <2>2, <2>3 DEF ToSet
    <3>2. PICK q, q2 : q = p[i] /\ q2 = p[i + 1]
      OBVIOUS
    <3>3. OursPair(q) /\ (Asks(op, fr, q, q2) \/ fr = Enter(q[1], q[2]))
      BY <2>2, <3>1, <3>2 DEF StackFor
    <3>4. CASE Asks(op, fr, q, q2)
      <4>1. /\ fr.phase \in {"lo", "hi", "pass", "keepHi"}
            /\ Ours(fr.f) /\ Ours(fr.g)
            /\ fr.fhi = Cofactor(fr.f, fr.var, 1)
            /\ fr.ghi = Cofactor(fr.g, fr.var, 1)
            /\ fr.var \in VarsUsed /\ Level(fr.f) <= var2level[fr.var]
            /\ Level(fr.g) <= var2level[fr.var]
            /\ fr.phase = "hi" => Right(op, LoPair(fr)[1], LoPair(fr)[2], fr.lo)
            /\ fr.phase # "hi" => fr.lo = Null
        BY <1>1, <2>3, <3>4, AsksFacts
      <4>2. Ours(fr.fhi) /\ Ours(fr.ghi)
        BY <1>1, <4>1, CofactorFacts
      <4>3. fr.lo = Null \/ Ours(fr.lo)
        BY <4>1 DEF Right
      <4>4. \A e \in FrameEdges(fr) : Sound(e)
        BY <1>1, <4>1, <4>2, <4>3, NullSound, OursFacts DEF FrameEdges
      <4>5. fr.phase = "hi" => LoRight(fr)
        BY <1>1, <2>3, <4>1, RightMeans DEF LoRight, LoSide, LoPair, Enter
      <4>6. QED
        BY <4>4, <4>5
    <3>5. CASE fr = Enter(q[1], q[2])
      <4>1. fr.phase = "enter" /\ fr.f = q[1] /\ fr.g = q[2]
        BY <3>5 DEF Enter
      <4>2. \A e \in FrameEdges(fr) : Sound(e)
        BY <1>1, <3>3, <4>1, OursFacts DEF FrameEdges, OursPair
      <4>3. QED
        BY <4>1, <4>2
    <3>6. QED
      BY <3>3, <3>4, <3>5
  <2>6. QED
    BY <2>3, <2>4, <2>5 DEF FramesRight
<1>4. QED
  BY <1>2, <1>3

(***************************************************************************)
(* What only the frames hold is right for as long as it is needed.         *)
(***************************************************************************)
THEOREM FramesAlwaysRight == Spec => []FramesRight
BY ApplyInvariance, InvFramesRight, PTL
-----------------------------------------------------------------------------
(***************************************************************************)
(* The refinement: what the objects hold and the call in progress, as the  *)
(* abstract specification sees them.                                       *)
(***************************************************************************)
Values == [h \in Handles |-> Meaning(root[h])]

Pending == IF Idle THEN NoCall
           ELSE [op |-> call.op, f |-> call.f, g |-> call.g,
                 dest |-> call.dest]

\* The same, said so that it can be primed.
MeaningIs ==
  \A k, e : k = kind => Meaning(e) = [a \in Assignments |-> Value(k, e, a)]

LEMMA MeaningDef == MeaningIs
BY DEF MeaningIs, Meaning

LEMMA MeaningDefNext == MeaningIs'
BY MeaningDef, PTL

ValuesIs ==
  \A v : v = Values =>
    /\ v = [h \in Handles |-> v[h]]
    /\ \A h \in Handles : \A e : e = root[h] => v[h] = Meaning(e)

LEMMA ValuesDef == ValuesIs
BY DEF ValuesIs, Values

LEMMA ValuesDefNext == ValuesIs'
BY ValuesDef, PTL

\* The constant 0, as a function.
ZeroIs == Base => Meaning(False) = [p \in SUBSET (1..VarMax) |-> 0]

LEMMA ZeroDef == ZeroIs
BY ConstValues DEF ZeroIs, Meaning, Base, Assignments, VarsUsed

LEMMA ZeroDefNext == ZeroIs'
BY ZeroDef, PTL

LEMMA MeaningKept ==
  ASSUME NEW A, StepKeeps(A), NEW e, Ours(e), Within(A, e)
  PROVE  Meaning(e)' = Meaning(e)
<1>1. PICK k : k = kind /\ k = kind'
  BY DEF StepKeeps
<1>2. Assignments' = Assignments
  BY DEF StepKeeps, orderVars, Assignments, VarsUsed
<1>3. \A a \in Assignments : Value(k, e, a)' = Value(k, e, a)
  BY <1>1, EdgeValueKept
<1>4. Meaning(e) = [a \in Assignments |-> Value(k, e, a)]
  BY <1>1, MeaningDef DEF MeaningIs
<1>5. Meaning(e)' = [a \in Assignments' |-> Value(k, e, a)']
  BY <1>1, MeaningDefNext DEF MeaningIs
<1>6. QED
  BY <1>2, <1>3, <1>4, <1>5

\* What an object held means the same after every step.
LEMMA OldMeaning ==
  ASSUME RootsOK, StepSafe, NEW v, v = Values, NEW h \in Handles,
         NEW e, e = root[h]
  PROVE  Meaning(e)' = v[h]
<1>1. PICK A : StepKeeps(A) /\ \A x \in Handles : Within(A, root[x])
  BY DEF StepSafe
<1>2. Ours(e) /\ Within(A, e)
  BY <1>1 DEF RootsOK
<1>3. QED
  BY <1>1, <1>2, MeaningKept, ValuesDef DEF ValuesIs

LEMMA ValuesKept ==
  ASSUME RootsOK, StepSafe, root' = root
  PROVE  Values' = Values
<1>1. PICK v, w : v = Values /\ w = Values'
  OBVIOUS
<1>2. ASSUME NEW h \in Handles
      PROVE  w[h] = v[h]
  <2>1. PICK e : e = root[h]
    OBVIOUS
  <2>2. w[h] = Meaning(e)'
    BY <1>1, <2>1, ValuesDefNext DEF ValuesIs
  <2>3. QED
    BY <1>1, <2>1, <2>2, OldMeaning
<1>3. v = [h \in Handles |-> v[h]] /\ w = [h \in Handles |-> w[h]]
  BY <1>1, ValuesDef, ValuesDefNext DEF ValuesIs
<1>4. QED
  BY <1>1, <1>2, <1>3

\* One object is assigned an edge.
LEMMA ValuesAssigned ==
  ASSUME RootsOK, StepSafe, NEW d \in Handles, NEW x,
         root' = [root EXCEPT ![d] = x],
         NEW m, Meaning(x)' = m
  PROVE  Values' = [Values EXCEPT ![d] = m]
<1>1. PICK v, w : v = Values /\ w = Values'
  OBVIOUS
<1>2. v = [h \in Handles |-> v[h]] /\ w = [h \in Handles |-> w[h]]
  BY <1>1, ValuesDef, ValuesDefNext DEF ValuesIs
<1>3. x = root'[d]
  BY DEF RootsOK
<1>4. w[d] = m
  BY <1>1, <1>3, ValuesDefNext DEF ValuesIs
<1>5. ASSUME NEW h \in Handles, h # d
      PROVE  w[h] = v[h]
  <2>1. PICK e : e = root[h]
    OBVIOUS
  <2>2. e = root'[h]
    BY <1>5, <2>1 DEF RootsOK
  <2>3. w[h] = Meaning(e)'
    BY <1>1, <2>2, ValuesDefNext DEF ValuesIs
  <2>4. QED
    BY <1>1, <2>1, <2>3, OldMeaning
<1>6. w = [v EXCEPT ![d] = m]
  BY <1>2, <1>4, <1>5
<1>7. QED
  BY <1>1, <1>6

-----------------------------------------------------------------------------
\* The abstract steps, in these terms.
LEMMA AlgebraInit ==
  ASSUME Values \in [Handles -> [SUBSET (1..VarMax) -> {0, 1}]],
         Pending = NoCall
  PROVE  Algebra!SetAlgebraInit
BY DEF Algebra!SetAlgebraInit, Algebra!NoCall, NoCall, Values, Pending

LEMMA AlgebraStutter ==
  ASSUME Values' = Values, Pending' = Pending
  PROVE  UNCHANGED <<[h \in Handles |-> Meaning(root[h])],
                     IF Idle THEN NoCall
                     ELSE [op |-> call.op, f |-> call.f, g |-> call.g,
                           dest |-> call.dest]>>
BY DEF Values, Pending

LEMMA AlgebraRequest ==
  ASSUME Pending = NoCall, Pending' \in Algebra!Calls, Values' = Values
  PROVE  Algebra!SetAlgebraNext
BY DEF Algebra!SetAlgebraNext, Algebra!Request, Algebra!NoCall, NoCall,
       Values, Pending

LEMMA AlgebraAnswer ==
  ASSUME Pending # NoCall, Pending' = NoCall,
         Values' = [Values EXCEPT ![Pending.dest] =
                      Algebra!Combined(Pending.op, Values[Pending.f],
                                       Values[Pending.g])]
  PROVE  Algebra!SetAlgebraNext
BY DEF Algebra!SetAlgebraNext, Algebra!Answer, Algebra!Answered,
       Algebra!NoCall, NoCall, Values, Pending

LEMMA AlgebraRefuse ==
  ASSUME Pending # NoCall, Pending' = NoCall, Values' = Values
  PROVE  Algebra!SetAlgebraNext
BY DEF Algebra!SetAlgebraNext, Algebra!Refuse, Algebra!NoCall, NoCall,
       Values, Pending

LEMMA AlgebraClear ==
  ASSUME NEW h \in Handles, Pending = NoCall, Pending' = Pending,
         Values' = [Values EXCEPT ![h] = [p \in SUBSET (1..VarMax) |-> 0]]
  PROVE  Algebra!SetAlgebraNext
BY DEF Algebra!SetAlgebraNext, Algebra!Clear, Algebra!NoCall, NoCall,
       Values, Pending

-----------------------------------------------------------------------------
LEMMA PendingFacts ==
  ASSUME ApplyInv
  PROVE  /\ Idle <=> Pending = NoCall
         /\ ~ Idle => /\ Pending.op = call.op /\ Pending.dest = call.dest
                     /\ Pending.f = call.f /\ Pending.g = call.g
<1>1. ASSUME ~ Idle
      PROVE  Pending # NoCall
  <2>1. Pending.op = call.op /\ call.op # "none"
    BY <1>1 DEF Pending, ApplyInv, CallOK, OpsOf
  <2>2. QED
    BY <2>1 DEF NoCall
<1>2. QED
  BY <1>1 DEF Pending

LEMMA PendingKept == UNCHANGED call => Pending' = Pending
BY DEF Pending, Idle

LEMMA InitMaps == Init => Algebra!SetAlgebraInit
<1> SUFFICES ASSUME Init PROVE Algebra!SetAlgebraInit
  OBVIOUS
<1>1. ApplyInv /\ Idle
  BY InitInv DEF Init, CallInit, Idle
<1>2. Assignments = SUBSET (1..VarMax)
  BY <1>1 DEF ApplyInv, Base, Assignments, VarsUsed
<1>3. ASSUME NEW h \in Handles
      PROVE  Meaning(root[h]) \in [SUBSET (1..VarMax) -> {0, 1}]
  <2>1. PICK e : e = root[h] /\ Ours(e)
    BY <1>1 DEF ApplyInv, RootsOK
  <2>2. \A a \in Assignments : Value(kind, e, a) \in {0, 1}
    BY <1>1, <2>1, Bits DEF ApplyInv
  <2>3. QED
    BY <1>2, <2>1, <2>2 DEF Meaning
<1>4. Values \in [Handles -> [SUBSET (1..VarMax) -> {0, 1}]]
  BY <1>3 DEF Values
<1>5. QED
  BY <1>1, <1>4, PendingFacts, AlgebraInit

LEMMA BeginCallMaps ==
  ASSUME ApplyInv, NEW op \in OpsOf(kind), NEW mode \in Modes,
         NEW f \in Handles, NEW g \in Handles, BeginCall(op, mode, f, g, f)
  PROVE  Algebra!SetAlgebraNext
<1>1. ApplyInv' /\ StepSafe
  BY BeginCallInv
<1>2. /\ call'.op = op /\ call'.f = f /\ call'.g = g /\ call'.dest = f
      /\ root' = root /\ Idle
  BY DEF BeginCall
<1>3. ~ Idle'
  BY <1>2 DEF Idle, NoCall, OpsOf
<1>4. Pending' = [op |-> op, f |-> f, g |-> g, dest |-> f]
  BY <1>2, <1>3 DEF Pending
<1>5. op \in Algebra!Ops
  BY DEF OpsOf, Algebra!Ops
<1>6. Pending' \in Algebra!Calls
  BY <1>4, <1>5 DEF Algebra!Calls
<1>7. Values' = Values
  BY <1>1, <1>2, ValuesKept DEF ApplyInv
<1>8. QED
  BY <1>2, <1>6, <1>7, PendingFacts, AlgebraRequest

LEMMA FinishMaps == ApplyInv /\ Finish => Algebra!SetAlgebraNext
<1> SUFFICES ASSUME ApplyInv, Finish PROVE Algebra!SetAlgebraNext
  OBVIOUS
<1>1. StepSafe /\ ApplyInv'
  BY FinishInv
<1>2. /\ ~ Idle /\ Idle' /\ frames = <<>>
      /\ UNCHANGED <<orderVars, tableVars, kind>>
  BY DEF Finish, Idle
<1>3. PICK op, f, g, d, x :
        /\ op = call.op /\ f = call.f /\ g = call.g /\ d = call.dest
        /\ x = result
  OBVIOUS
<1>4. f \in Handles /\ g \in Handles /\ d \in Handles
  BY <1>2, <1>3 DEF ApplyInv, CallOK
<1>5. PICK v, f0, g0 : v = Values /\ f0 = root[f] /\ g0 = root[g]
  OBVIOUS
<1>6. Right(op, f0, g0, x)
  BY <1>2, <1>3, <1>5, FinishedRight
<1>7. Meaning(x) = Algebra!Combined(op, v[f], v[g])
  <2>1. Meaning(x) = Algebra!Combined(op, Meaning(f0), Meaning(g0))
    BY <1>6, RightMeans DEF ApplyInv
  <2>2. Meaning(f0) = v[f] /\ Meaning(g0) = v[g]
    BY <1>4, <1>5, ValuesDef DEF ValuesIs
  <2>3. QED
    BY <2>1, <2>2
<1>8. Meaning(x)' = Meaning(x)
  <2>1. StepKeeps(Allocated)
    BY <1>2, SameTableKeeps DEF ApplyInv
  <2>2. Ours(x)
    BY <1>6 DEF Right
  <2>3. PICK A : A = Allocated
    OBVIOUS
  <2>4. Within(A, x)
    BY <2>2, <2>3, OursFacts DEF ApplyInv
  <2>5. QED
    BY <2>1, <2>2, <2>3, <2>4, MeaningKept
<1>9. root' = [root EXCEPT ![d] = x]
  BY <1>3 DEF Finish
<1>10. PICK m : m = Algebra!Combined(op, v[f], v[g])
  OBVIOUS
<1>11. Values' = [Values EXCEPT ![d] = m]
  BY <1>1, <1>4, <1>7, <1>8, <1>9, <1>10, ValuesAssigned DEF ApplyInv
<1>12. /\ Pending # NoCall /\ Pending' = NoCall
       /\ Pending.op = op /\ Pending.f = f /\ Pending.g = g
       /\ Pending.dest = d
  BY <1>1, <1>2, <1>3, PendingFacts DEF Pending
<1>13. QED
  BY <1>5, <1>10, <1>11, <1>12, AlgebraAnswer

LEMMA GiveUpMaps == ApplyInv /\ GiveUp => Algebra!SetAlgebraNext
<1> SUFFICES ASSUME ApplyInv, GiveUp PROVE Algebra!SetAlgebraNext
  OBVIOUS
<1>1. Values' = Values
  BY GiveUpInv, ValuesKept DEF ApplyInv, GiveUp
<1>2. ~ Idle /\ Idle'
  BY DEF GiveUp, Overflow, NoRoom, Joining, Running, Idle
<1>3. Pending # NoCall /\ Pending' = NoCall
  BY <1>2, PendingFacts DEF Pending
<1>4. QED
  BY <1>1, <1>3, AlgebraRefuse

LEMMA ForgetMaps ==
  ASSUME ApplyInv, NEW h \in Handles, Forget(h)
  PROVE  Algebra!SetAlgebraNext
<1>1. StepSafe /\ ApplyInv'
  BY ForgetInv
<1>2. PICK x, m : x = False /\ m = [p \in SUBSET (1..VarMax) |-> 0]
  OBVIOUS
<1>3. Meaning(x)' = m
  BY <1>1, <1>2, ZeroDefNext DEF ZeroIs, ApplyInv
<1>4. root' = [root EXCEPT ![h] = x]
  BY <1>2 DEF Forget
<1>5. Values' = [Values EXCEPT ![h] = m]
  BY <1>1, <1>3, <1>4, ValuesAssigned DEF ApplyInv
<1>6. Pending = NoCall /\ Pending' = Pending
  BY PendingFacts, PendingKept DEF Forget, callVars
<1>7. QED
  BY <1>2, <1>5, <1>6, AlgebraClear

\* The steps inside a call, and a collection between calls, are not seen.
Hidden ==
  \/ EnterTerminal \/ EnterCached \/ EnterOpen \/ GotLo \/ GotPass \/ Join
  \/ Retry \/ Gc \/ UNCHANGED vars

LEMMA HiddenMaps ==
  ASSUME ApplyInv, Hidden, StepSafe
  PROVE  Values' = Values /\ Pending' = Pending
<1>1. UNCHANGED <<root, call>>
  BY DEF Hidden, EnterTerminal, EnterCached, EnterOpen, GotLo, GotPass, Join,
         Retry, Gc, UnchangedByStep, vars, callVars
<1>2. QED
  BY <1>1, ValuesKept, PendingKept DEF ApplyInv

LEMMA StepMaps ==
  ASSUME ApplyInv, [Next]_vars
  PROVE  \/ Algebra!SetAlgebraNext
         \/ Values' = Values /\ Pending' = Pending
<1>1. CASE \E op \in OpsOf(kind), mode \in Modes, f, g \in Handles :
             BeginCall(op, mode, f, g, f)
  BY <1>1, BeginCallMaps
<1>2. CASE Finish
  BY <1>2, FinishMaps
<1>3. CASE GiveUp
  BY <1>3, GiveUpMaps
<1>4. CASE \E h \in Handles : Forget(h)
  BY <1>4, ForgetMaps
<1>5. CASE Hidden
  BY <1>5, HiddenMaps, NextInv
<1>6. QED
  BY <1>1, <1>2, <1>3, <1>4, <1>5 DEF Next, OpStep, Hidden

(***************************************************************************)
(* The operations implement their promise: every call is answered with the *)
(* function or family asked for, or refused, and no step changes what      *)
(* another object holds.                                                   *)
(***************************************************************************)
THEOREM PromiseKept == Spec => KeepsPromise
<1>1. ApplyInv /\ [Next]_vars =>
        [Algebra!SetAlgebraNext]_<<
          [h \in Handles |-> Meaning(root[h])],
          IF Idle THEN NoCall
          ELSE [op |-> call.op, f |-> call.f, g |-> call.g,
                dest |-> call.dest]>>
  BY StepMaps, AlgebraStutter
<1>2. QED
  BY InitMaps, <1>1, ApplyInvariance, PTL
     DEF Spec, KeepsPromise, Algebra!SetAlgebraSpec
-----------------------------------------------------------------------------
(***************************************************************************)
(* The depth of the stack: a frame works on a lower pair than the frame    *)
(* below it.                                                               *)
(***************************************************************************)
PairLevel(q) == MaxLevel(q[1], q[2])

LEMMA KeyLevel ==
  ASSUME Base, NEW op \in OpsOf(kind), NEW f, NEW g, Ours(f), Ours(g),
         NEW o, o = Operation(op, f, g)
  PROVE  MaxLevel(o.key[1], o.key[2]) = MaxLevel(f, g)
<1>1. /\ Level(Plain(f)) = Level(f) /\ Level(Plain(g)) = Level(g)
      /\ Level(f) \in Nat /\ Level(g) \in Nat
  BY PlainIsOurs, OursFacts
<1>2. o.key \in {<<f, g>>, Ascending(f, g), Ascending(Plain(f), Plain(g))}
  BY DEF Operation, bddand, bddxor, bddunion, bddintersec, bddsubtract,
         bddsymdiff, OpsOf, Base
<1>3. o.key \in {<<f, g>>, <<g, f>>, <<Plain(f), Plain(g)>>,
                 <<Plain(g), Plain(f)>>}
  BY <1>2 DEF Ascending
<1>4. QED
  BY <1>1, <1>3 DEF MaxLevel

LEMMA AsksLower ==
  ASSUME Base, NEW op \in OpsOf(kind), NEW fr, NEW q, NEW q2,
         Asks(op, fr, q, q2)
  PROVE  PairLevel(q) \in Nat /\ PairLevel(q2) \in Nat
         /\ PairLevel(q2) < PairLevel(q)
<1>1. /\ OursPair(q) /\ OursPair(q2) /\ Ours(fr.f) /\ Ours(fr.g)
      /\ fr.var \in VarsUsed
      /\ MaxLevel(fr.f, fr.g) = var2level[fr.var]
      /\ Level(fr.f) <= var2level[fr.var] /\ Level(fr.g) <= var2level[fr.var]
      /\ q2 = IF fr.phase = "hi" THEN HiPair(fr) ELSE LoPair(fr)
      /\ fr.fhi = Cofactor(fr.f, fr.var, 1)
      /\ fr.ghi = Cofactor(fr.g, fr.var, 1)
  BY AsksFacts
<1>2. \A b \in {0, 1} :
        /\ Level(Cofactor(fr.f, fr.var, b)) < var2level[fr.var]
        /\ Level(Cofactor(fr.g, fr.var, b)) < var2level[fr.var]
  BY <1>1, CofactorFacts
<1>3. Level(q2[1]) < var2level[fr.var] /\ Level(q2[2]) < var2level[fr.var]
  BY <1>1, <1>2 DEF HiPair, LoPair
<1>4. MaxLevel(fr.f, fr.g) = PairLevel(q)
  <2>1. PICK o : OpenedFor(op, q, o) /\ fr.f = o.f /\ fr.g = o.g
    <3>1. CASE AsksLo(op, fr, q, q2)
      BY <3>1 DEF AsksLo
    <3>2. CASE AsksHi(op, fr, q, q2)
      <4>1. PICK o, lo : OpenedFor(op, q, o) /\ fr = WithLo(o, lo)
        BY <3>2 DEF AsksHi
      <4>2. fr.f = o.f /\ fr.g = o.g
        BY <4>1 DEF WithLo, OpenedFor, Opened
      <4>3. QED
        BY <4>1, <4>2
    <3>3. QED
      BY <3>1, <3>2 DEF Asks
  <2>2. PICK k : k = Operation(op, q[1], q[2])
    OBVIOUS
  <2>3. fr.f = k.key[1] /\ fr.g = k.key[2]
    BY <2>1, <2>2 DEF OpenedFor, Opened
  <2>4. QED
    BY <1>1, <2>2, <2>3, KeyLevel DEF OursPair, PairLevel
<1>5. PairLevel(q) \in Nat /\ PairLevel(q2) \in Nat
      /\ PairLevel(q2) \in {Level(q2[1]), Level(q2[2])}
  BY <1>1, MaxLevelFacts DEF OursPair, PairLevel
<1>6. QED
  BY <1>1, <1>3, <1>4, <1>5

LEMMA StackDepth ==
  ASSUME Base, NEW op \in OpsOf(kind), NEW f, NEW g, NEW S, NEW s \in Seq(S),
         NEW x, NEW p, StackFor(op, f, g, s, x, p)
  PROVE  Len(s) <= MaxLevel(f, g) + 1
<1>1. PICK n : n = Len(s) /\ n \in Nat
  OBVIOUS
<1>2. /\ PairLevel(p[1]) = MaxLevel(f, g)
      /\ \A i \in 1..(n + 1) : PairLevel(p[i]) \in Nat
  BY <1>1, MaxLevelFacts DEF StackFor, PairLevel, OursPair
<1>3. ASSUME NEW i \in 1..n, i < n
      PROVE  PairLevel(p[i + 1]) < PairLevel(p[i])
  <2>1. Asks(op, s[i], p[i], p[i + 1])
    BY <1>1, <1>3 DEF StackFor
  <2>2. QED
    BY <2>1, AsksLower
<1>4. PICK T : T = {i \in 1..n : PairLevel(p[i]) + i > PairLevel(p[1]) + 1}
  OBVIOUS
<1>5. T = {}
  <2> SUFFICES ASSUME T # {} PROVE FALSE
    OBVIOUS
  <2>1. PICK m \in T : \A i \in T : m <= i
    <3>1. T \subseteq Nat
      BY <1>1, <1>4
    <3>2. QED
      BY <3>1, NatMin
  <2>2. m \in 1..n /\ PairLevel(p[m]) + m > PairLevel(p[1]) + 1
    BY <1>4
  <2>3. m # 1
    BY <1>1, <1>2, <2>2
  <2>4. PICK l \in 1..n : l + 1 = m
    BY <1>1, <2>2, <2>3
  <2>5. l \notin T
    BY <1>1, <2>1, <2>4
  <2>6. PairLevel(p[l]) + l <= PairLevel(p[1]) + 1
    BY <1>1, <1>2, <1>4, <2>4, <2>5
  <2>7. PairLevel(p[m]) < PairLevel(p[l])
    BY <1>1, <1>3, <2>2, <2>4
  <2>8. PairLevel(p[m]) \in Nat /\ PairLevel(p[l]) \in Nat
        /\ PairLevel(p[1]) \in Nat
    BY <1>1, <1>2, <2>2, <2>4
  <2>9. QED
    BY <1>1, <2>2, <2>4, <2>6, <2>7, <2>8
<1>6. CASE n = 0
  BY <1>1, <1>2, <1>6
<1>7. CASE n # 0
  <2>1. n \in 1..n /\ n \notin T
    BY <1>1, <1>5, <1>7
  <2>2. PairLevel(p[n]) \in Nat /\ PairLevel(p[1]) \in Nat
    BY <1>1, <1>2, <2>1
  <2>3. PairLevel(p[n]) + n <= PairLevel(p[1]) + 1
    BY <1>1, <1>4, <2>1, <2>2
  <2>4. QED
    BY <1>1, <1>2, <2>2, <2>3
<1>8. QED
  BY <1>6, <1>7

LEMMA InvStackBounded == ApplyInv => StackBounded
<1> SUFFICES ASSUME ApplyInv, ~ Idle
             PROVE  Len(frames) <= MaxLevel(root[call.f], root[call.g]) + 1
  BY DEF StackBounded
<1>1. PICK op, f, g, s, x : InCall(op, f, g, s, x)
  BY DEF InCall
<1>2. PICK S, p : s \in Seq(S) /\ StackFor(op, f, g, s, x, p)
  BY <1>1 DEF ApplyInv, RunOK
<1>3. op \in OpsOf(kind)
  BY <1>1 DEF InCall, ApplyInv, CallOK
<1>4. Len(s) <= MaxLevel(f, g) + 1
  BY <1>2, <1>3, StackDepth DEF ApplyInv
<1>5. QED
  BY <1>1, <1>4 DEF InCall

(***************************************************************************)
(* The stack, and so the recursion, is never deeper than the operands of   *)
(* the call have levels, plus one frame for the constants.                 *)
(***************************************************************************)
THEOREM StackAlwaysBounded == Spec => []StackBounded
BY ApplyInvariance, InvStackBounded, PTL

\* A call that may recurse was asked to, or has operands within the limit.
DepthInv ==
  ~ Idle =>
    /\ outcome = "none"
    /\ \A f, g : f = root[call.f] /\ g = root[call.g] /\ call.rec =>
         \/ call.mode = "recursive"
         \/ call.mode = "auto" /\ MaxLevel(f, g) <= RecurLimit

LEMMA LevelsStay ==
  ASSUME ApplyInv, StepSafe, NEW h \in Handles, NEW d \in Handles,
         NEW f, f = root[h], NEW g, g = root[d]
  PROVE  MaxLevel(f, g)' = MaxLevel(f, g)
<1>1. PICK A : StepKeeps(A) /\ \A c \in Handles : Within(A, root[c])
  BY DEF StepSafe
<1>2. Ours(f) /\ Ours(g) /\ Within(A, f) /\ Within(A, g)
  BY <1>1 DEF ApplyInv, RootsOK
<1>3. Level(f)' = Level(f) /\ Level(g)' = Level(g)
  BY <1>1, <1>2, EdgeKept
<1>4. QED
  BY <1>3 DEF MaxLevel

LEMMA DepthKept ==
  ASSUME ApplyInv, StepSafe, DepthInv, UNCHANGED <<root, call, outcome>>
  PROVE  DepthInv'
<1> SUFFICES ASSUME ~ Idle', NEW f, NEW g, f = root'[call'.f],
                    g = root'[call'.g]
             PROVE  /\ outcome' = "none"
                    /\ call'.rec =>
                         \/ call'.mode = "recursive"
                         \/ call'.mode = "auto" /\ MaxLevel(f, g)' <= RecurLimit
  BY DEF DepthInv
<1>1. ~ Idle /\ f = root[call.f] /\ g = root[call.g]
  BY DEF Idle
<1>2. call.f \in Handles /\ call.g \in Handles
  BY <1>1 DEF ApplyInv, CallOK
<1>3. MaxLevel(f, g)' = MaxLevel(f, g)
  BY <1>1, <1>2, LevelsStay
<1>4. QED
  BY <1>1, <1>3 DEF DepthInv

LEMMA DepthBegins ==
  ASSUME ApplyInv, NEW op \in OpsOf(kind), NEW mode \in Modes,
         NEW f \in Handles, NEW g \in Handles, BeginCall(op, mode, f, g, f)
  PROVE  DepthInv'
<1>1. PICK f0, g0 : f0 = root[f] /\ g0 = root[g]
  OBVIOUS
<1>2. /\ call'.f = f /\ call'.g = g /\ call'.mode = mode
      /\ call'.rec = Recursive(mode, f0, g0)
      /\ outcome' = "none" /\ root' = root
  BY <1>1 DEF BeginCall
<1>3. MaxLevel(f0, g0)' = MaxLevel(f0, g0)
  BY <1>1, BeginCallInv, LevelsStay
<1>4. call'.rec => \/ mode = "recursive"
                   \/ mode = "auto" /\ MaxLevel(f0, g0)' <= RecurLimit
  BY <1>2, <1>3 DEF Recursive
<1>5. QED
  BY <1>1, <1>2, <1>4 DEF DepthInv

LEMMA DepthNext == ApplyInv /\ DepthInv /\ [Next]_vars => DepthInv'
<1> SUFFICES ASSUME ApplyInv, DepthInv, [Next]_vars PROVE DepthInv'
  OBVIOUS
<1>1. CASE \E op \in OpsOf(kind), mode \in Modes, f, g \in Handles :
             BeginCall(op, mode, f, g, f)
  BY <1>1, DepthBegins
<1>2. CASE UNCHANGED <<root, call, outcome>>
  BY <1>2, NextInv, DepthKept
<1>3. CASE Idle'
  BY <1>3 DEF DepthInv
<1>4. CASE OpStep
  BY <1>2, <1>3, <1>4
     DEF OpStep, EnterTerminal, EnterCached, EnterOpen, GotLo, GotPass, Join,
         Retry, GiveUp, Finish, UnchangedByStep, Idle
<1>5. CASE Gc \/ \E h \in Handles : Forget(h)
  BY <1>3, <1>5 DEF Gc, Forget, Idle, callVars
<1>6. CASE UNCHANGED vars
  BY <1>2, <1>6 DEF vars, callVars
<1>7. QED
  BY <1>1, <1>4, <1>5, <1>6 DEF Next

\* A call that is at the limit of the guard has operands that reach to it.
LEMMA AtLimit ==
  ASSUME ApplyInv, DepthInv, ~ Idle, call.rec, Len(frames) > RecurLimit
  PROVE  LET level == MaxLevel(root[call.f], root[call.g])
         IN  \/ call.mode = "recursive" /\ level >= RecurLimit
             \/ call.mode = "auto" /\ level = RecurLimit
<1>1. PICK f, g : f = root[call.f] /\ g = root[call.g]
  OBVIOUS
<1>2. Len(frames) <= MaxLevel(f, g) + 1
  BY <1>1, InvStackBounded DEF StackBounded
<1>3. MaxLevel(f, g) \in Nat
  <2>1. Ours(f) /\ Ours(g)
    BY <1>1 DEF ApplyInv, RootsOK, CallOK
  <2>2. QED
    BY <2>1, MaxLevelFacts DEF ApplyInv
<1>4. Len(frames) \in Nat
  <2>1. PICK op, s, x : InCall(op, f, g, s, x)
    BY <1>1 DEF InCall
  <2>2. PICK S : s \in Seq(S)
    BY <2>1 DEF ApplyInv, RunOK
  <2>3. Len(s) \in Nat
    BY <2>2
  <2>4. s = frames
    BY <2>1 DEF InCall
  <2>5. QED
    BY <2>3, <2>4
<1>5. \/ call.mode = "recursive"
      \/ call.mode = "auto" /\ MaxLevel(f, g) <= RecurLimit
  BY <1>1 DEF DepthInv
<1>6. PICK n, m : n = Len(frames) /\ m = MaxLevel(f, g)
  OBVIOUS
<1>7. \/ call.mode = "recursive" /\ m >= RecurLimit
      \/ call.mode = "auto" /\ m = RecurLimit
  <2>1. m >= RecurLimit
    BY <1>2, <1>3, <1>4, <1>6, ApplyAssumption
  <2>2. QED
    BY <1>3, <1>5, <1>6, <2>1, ApplyAssumption
<1>8. QED
  BY <1>1, <1>6, <1>7

LEMMA TooDeepStep ==
  ASSUME ApplyInv, DepthInv, Next, ~ Idle, outcome' = "too deep"
  PROVE  LET level == MaxLevel(root[call.f], root[call.g])
         IN  \/ call.mode = "recursive" /\ level >= RecurLimit
             \/ call.mode = "auto" /\ level = RecurLimit
<1>1. GiveUp
  BY DEF Next, OpStep, EnterTerminal, EnterCached, EnterOpen, GotLo, GotPass,
         Join, Retry, Finish, UnchangedByStep, BeginCall, Gc, Forget, callVars,
         DepthInv
<1>2. call.rec /\ Len(frames) > RecurLimit
  BY <1>1 DEF GiveUp, Overflow, TooDeep
<1>3. QED
  BY <1>2, AtLimit

(***************************************************************************)
(* In Auto a call fails for its depth only when its operands reach up to   *)
(* exactly level BDD_RecurLimit, and in the iterative form never.          *)
(***************************************************************************)
THEOREM AutoFailsOnlyAtLimit == Spec => TooDeepOnlyAtLimit
<1>1. Init => DepthInv
  BY DEF Init, CallInit, DepthInv, Idle
<1>2. ApplyInv /\ DepthInv /\ [Next]_vars =>
        [~ Idle /\ outcome' = "too deep" =>
           LET level == MaxLevel(root[call.f], root[call.g])
           IN  \/ call.mode = "recursive" /\ level >= RecurLimit
               \/ call.mode = "auto" /\ level = RecurLimit]_vars
  BY TooDeepStep
<1>3. QED
  BY <1>1, <1>2, DepthNext, ApplyInvariance, PTL DEF Spec, TooDeepOnlyAtLimit
=============================================================================
