------------------------- MODULE SessionsCallsProofs -------------------------
(***************************************************************************)
(* What a call of Sessions does to the library it works on, for every      *)
(* number of variables and slots and for every weight: the node that       *)
(* getnode_raw makes, the index get_or_insert gives, what a collection     *)
(* leaves, and what apply, bddcostbound_le, threshold_gt and exact_count   *)
(* answer, with their cache and memos right before and right after.        *)
(*                                                                         *)
(* The recursive functions are unfolded by NatRec, and every statement on  *)
(* them is an induction over the levels of the operands.  A call that runs *)
(* out of slots leaves a library that is as good as any, without answer.   *)
(***************************************************************************)
EXTENDS Sessions, FiniteSetTheorems, TLAPS

-----------------------------------------------------------------------------
(***************************************************************************)
(* The recursive functions unfold as they are written.                     *)
(***************************************************************************)
OnIndexes == INSTANCE NatRec WITH Step <- IndexBy, None <- <<>>
OnCosts == INSTANCE NatRec WITH Step <- CostBy, None <- <<>>
OnApply == INSTANCE NatRec WITH Step <- ApplyBy, None <- <<>>
OnCostBound == INSTANCE NatRec WITH Step <- CostBoundBy, None <- <<>>
OnExactCount == INSTANCE NatRec WITH Step <- ExactCountBy, None <- <<>>
OnToZdd == INSTANCE NatRec WITH Step <- ToZddBy, None <- <<>>

LEMMA Induct ==
  ASSUME NEW S, 0 \in S, \A n \in Nat : n \in S => n + 1 \in S
  PROVE  Nat \subseteq S
BY OnIndexes!Induct

LEMMA IndexesUnfold ==
  /\ indexes[0] = IndexBy(0, <<>>)
  /\ \A n \in Nat : indexes[n + 1] = IndexBy(n + 1, indexes[n])
BY OnIndexes!RecUnfolds DEF indexes, OnIndexes!IsRec

LEMMA CostsUnfold ==
  /\ costs[0] = CostBy(0, <<>>)
  /\ \A n \in Nat : costs[n + 1] = CostBy(n + 1, costs[n])
BY OnCosts!RecUnfolds DEF costs, OnCosts!IsRec

LEMMA ApplyUnfolds ==
  /\ mtzdd_apply_rec[0] = ApplyBy(0, <<>>)
  /\ \A n \in Nat : mtzdd_apply_rec[n + 1] = ApplyBy(n + 1, mtzdd_apply_rec[n])
BY OnApply!RecUnfolds DEF mtzdd_apply_rec, OnApply!IsRec

LEMMA CostBoundUnfolds ==
  /\ bddcostbound_rec[0] = CostBoundBy(0, <<>>)
  /\ \A n \in Nat : bddcostbound_rec[n + 1] = CostBoundBy(n + 1, bddcostbound_rec[n])
BY OnCostBound!RecUnfolds DEF bddcostbound_rec, OnCostBound!IsRec

LEMMA ExactCountUnfolds ==
  /\ bddexactcount_rec[0] = ExactCountBy(0, <<>>)
  /\ \A n \in Nat : bddexactcount_rec[n + 1] = ExactCountBy(n + 1, bddexactcount_rec[n])
BY OnExactCount!RecUnfolds DEF bddexactcount_rec, OnExactCount!IsRec

LEMMA ToZddUnfolds ==
  /\ mtzdd_to_zdd_rec[0] = ToZddBy(0, <<>>)
  /\ \A n \in Nat : mtzdd_to_zdd_rec[n + 1] = ToZddBy(n + 1, mtzdd_to_zdd_rec[n])
BY OnToZdd!RecUnfolds DEF mtzdd_to_zdd_rec, OnToZdd!IsRec

-----------------------------------------------------------------------------
(***************************************************************************)
(* Levels, and stores whose nodes lead downwards to nodes and constants.   *)
(***************************************************************************)
LEMMA Levels ==
  /\ Height \in Nat /\ Vars = 1..Height
  /\ \A v \in Vars : LevelOf(v) \in Vars /\ VarOf(LevelOf(v)) = v
  /\ \A v, w \in Vars : LevelOf(v) = LevelOf(w) => v = w
  /\ \A n \in Vars : VarOf(n) \in Vars /\ LevelOf(VarOf(n)) = n
<1>1. /\ Height \in Nat /\ Vars = 1..Height
  BY FamilyAssumption, FS_CardinalityType DEF Height
<1>2. \A v \in Vars : LevelOf(v) = var2level[v] /\ LevelOf(v) \in Vars
  BY FamilyAssumption DEF LevelOf, Vars
<1>3. \A v, w \in Vars : LevelOf(v) = LevelOf(w) => v = w
  BY <1>2, FamilyAssumption
<1>4. \A v \in Vars : VarOf(LevelOf(v)) = v
  BY <1>2, <1>3 DEF VarOf, Vars
<1>5. var2level \in Injection(Vars, Vars)
  BY FamilyAssumption DEF Injection, IsInjective
<1>6. var2level \in Surjection(Vars, Vars)
  BY <1>5, FamilyAssumption, FS_Injection
<1>7. \A n \in Vars : VarOf(n) \in Vars /\ LevelOf(VarOf(n)) = n
  BY <1>2, <1>6 DEF VarOf, Vars, Surjection
<1>8. QED
  BY <1>1, <1>2, <1>3, <1>4, <1>7

LEMMA HeightNat == Height \in Nat
BY Levels

Live(ns, r) == r \in Edges /\ (r.const \/ (r.at \in Slots /\ ns[r.at] # Free))

StoreOK(ns) ==
  /\ ns \in Stores
  /\ \A t \in Slots : ns[t] # Free =>
       /\ ns[t].var \in Vars
       /\ Live(ns, ns[t].lo) /\ EdgeLevel(ns, ns[t].lo) < LevelOf(ns[t].var)
       /\ Live(ns, ns[t].hi) /\ EdgeLevel(ns, ns[t].hi) < LevelOf(ns[t].var)

\* The node of an edge that is no constant.
LEMMA LiveNode ==
  ASSUME NEW ns, StoreOK(ns), NEW r, Live(ns, r), ~r.const
  PROVE  /\ r.at \in Slots /\ ns[r.at] # Free /\ ns[r.at].var \in Vars
         /\ EdgeLevel(ns, r) = LevelOf(ns[r.at].var)
         /\ Live(ns, ns[r.at].lo) /\ EdgeLevel(ns, ns[r.at].lo) < EdgeLevel(ns, r)
         /\ Live(ns, ns[r.at].hi) /\ EdgeLevel(ns, ns[r.at].hi) < EdgeLevel(ns, r)
BY DEF Live, StoreOK, EdgeLevel

LEMMA LiveLevel ==
  ASSUME NEW ns, StoreOK(ns), NEW r, Live(ns, r)
  PROVE  /\ EdgeLevel(ns, r) \in 0..Height
         /\ EdgeLevel(ns, r) = 0 <=> r.const
         /\ r \in Edges
<1>1. CASE r.const
  BY <1>1, Levels DEF EdgeLevel, Live
<1>2. CASE ~r.const
  <2>1. ns[r.at].var \in Vars /\ EdgeLevel(ns, r) = LevelOf(ns[r.at].var)
    BY <1>2, LiveNode
  <2>2. EdgeLevel(ns, r) \in 1..Height
    BY <2>1, Levels
  <2>3. EdgeLevel(ns, r) \in 0..Height /\ EdgeLevel(ns, r) # 0
    <3>1. Height \in Nat
      BY Levels
    <3>2. QED
      BY <2>2, <3>1
  <2>4. QED
    BY <1>2, <2>3 DEF Live
<1>3. QED
  BY <1>1, <1>2

\* A constant is the same on every number of levels.
LEMMA IndexesConst ==
  ASSUME NEW ns, StoreOK(ns), NEW r, Live(ns, r), r.const, NEW s \in SUBSET Vars, NEW n \in Nat
  PROVE  indexes[n][ns][r][s] = IF s = {} THEN r.at ELSE 0
<1>1. ns \in Stores /\ r \in Edges
  BY DEF StoreOK, Live
<1>2. ASSUME NEW m \in Nat, NEW below
      PROVE  IndexBy(m, below)[ns][r][s] = IF s = {} THEN r.at ELSE 0
  BY <1>1, <1>2 DEF IndexBy
<1>3. CASE n = 0
  BY <1>2, <1>3, IndexesUnfold
<1>4. CASE n # 0
  <2>1. n - 1 \in Nat /\ n = (n - 1) + 1
    BY <1>4
  <2>2. indexes[n] = IndexBy(n, indexes[n - 1])
    BY <2>1, IndexesUnfold
  <2>3. QED
    BY <1>2, <2>2
<1>5. QED
  BY <1>3, <1>4

\* The child of a node on the path of a set.
Child(ns, r, s) == IF ns[r.at].var \in s THEN ns[r.at].hi ELSE ns[r.at].lo

LEMMA IndexesNode ==
  ASSUME NEW ns, StoreOK(ns), NEW r, Live(ns, r), ~r.const, NEW s \in SUBSET Vars, NEW n \in Nat
  PROVE  indexes[n + 1][ns][r][s] = indexes[n][ns][Child(ns, r, s)][s \ {ns[r.at].var}]
<1> DEFINE d == ns[r.at]
<1>1. ns \in Stores /\ r \in Edges
  BY DEF StoreOK, Live
<1>2. ~Misplaced(ns, d)
  <2>1. /\ d # Free /\ EdgeLevel(ns, r) = LevelOf(d.var)
        /\ Live(ns, d.lo) /\ EdgeLevel(ns, d.lo) < EdgeLevel(ns, r)
        /\ Live(ns, d.hi) /\ EdgeLevel(ns, d.hi) < EdgeLevel(ns, r)
    BY LiveNode
  <2>2. EdgeLevel(ns, r) \in Nat /\ EdgeLevel(ns, d.lo) \in Nat /\ EdgeLevel(ns, d.hi) \in Nat
    BY <2>1, LiveLevel, HeightNat
  <2> HIDE DEF d
  <2>3. QED
    BY <2>1, <2>2 DEF Misplaced
<1>3. indexes[n + 1] = IndexBy(n + 1, indexes[n])
  BY IndexesUnfold
<1>4. n + 1 # 0
  OBVIOUS
<1>5. IndexBy(n + 1, indexes[n])[ns][r][s] =
        indexes[n][ns][IF d.var \in s THEN d.hi ELSE d.lo][s \ {d.var}]
  BY <1>1, <1>2, <1>4 DEF IndexBy
<1>6. QED
  BY <1>3, <1>5 DEF Child

LEMMA ChildLower ==
  ASSUME NEW ns, StoreOK(ns), NEW r, Live(ns, r), ~r.const, NEW s
  PROVE  /\ Live(ns, Child(ns, r, s))
         /\ EdgeLevel(ns, Child(ns, r, s)) < EdgeLevel(ns, r)
<1>1. /\ Live(ns, ns[r.at].lo) /\ EdgeLevel(ns, ns[r.at].lo) < EdgeLevel(ns, r)
      /\ Live(ns, ns[r.at].hi) /\ EdgeLevel(ns, ns[r.at].hi) < EdgeLevel(ns, r)
  BY LiveNode
<1>2. CASE ns[r.at].var \in s
  BY <1>1, <1>2 DEF Child
<1>3. CASE ns[r.at].var \notin s
  BY <1>1, <1>3 DEF Child
<1>4. QED
  BY <1>2, <1>3

\* As many levels as an edge is high are enough.
LEMMA IndexesSettle ==
  ASSUME NEW ns, StoreOK(ns)
  PROVE  \A n \in Nat : \A r : Live(ns, r) /\ EdgeLevel(ns, r) <= n =>
           \A s \in SUBSET Vars : indexes[n + 1][ns][r][s] = indexes[n][ns][r][s]
<1> DEFINE Q(n) == \A r : Live(ns, r) /\ EdgeLevel(ns, r) <= n =>
                     \A s \in SUBSET Vars : indexes[n + 1][ns][r][s] = indexes[n][ns][r][s]
           S == {n \in Nat : Q(n)}
<1>1. ASSUME NEW n \in Nat, NEW r, Live(ns, r), r.const, NEW s \in SUBSET Vars
      PROVE  indexes[n + 1][ns][r][s] = indexes[n][ns][r][s]
  <2>1. n + 1 \in Nat
    OBVIOUS
  <2>2. QED
    BY <1>1, <2>1, IndexesConst
<1>2. Q(0)
  <2> SUFFICES ASSUME NEW r, Live(ns, r), EdgeLevel(ns, r) <= 0, NEW s \in SUBSET Vars
               PROVE  indexes[0 + 1][ns][r][s] = indexes[0][ns][r][s]
    OBVIOUS
  <2>1. r.const
    BY LiveLevel, HeightNat
  <2>2. QED
    BY <1>1, <2>1
<1>3. ASSUME NEW n \in Nat, Q(n)
      PROVE  Q(n + 1)
  <2> SUFFICES ASSUME NEW r, Live(ns, r), EdgeLevel(ns, r) <= n + 1, NEW s \in SUBSET Vars
               PROVE  indexes[(n + 1) + 1][ns][r][s] = indexes[n + 1][ns][r][s]
    OBVIOUS
  <2>0. n + 1 \in Nat
    OBVIOUS
  <2>1. CASE r.const
    BY <1>1, <2>0, <2>1
  <2>2. CASE ~r.const
    <3> DEFINE c == Child(ns, r, s)
               t == s \ {ns[r.at].var}
    <3>1. /\ indexes[(n + 1) + 1][ns][r][s] = indexes[n + 1][ns][c][t]
          /\ indexes[n + 1][ns][r][s] = indexes[n][ns][c][t]
      BY <2>0, <2>2, IndexesNode
    <3>2. Live(ns, c) /\ EdgeLevel(ns, c) < EdgeLevel(ns, r)
      BY <2>2, ChildLower
    <3> HIDE DEF c
    <3>3. EdgeLevel(ns, c) <= n
      <4>1. EdgeLevel(ns, c) \in 0..Height /\ EdgeLevel(ns, r) \in 0..Height
        BY <3>2, LiveLevel
      <4>2. QED
        BY <3>2, <4>1, HeightNat
    <3>4. t \in SUBSET Vars
      OBVIOUS
    <3> HIDE DEF t
    <3>5. indexes[n + 1][ns][c][t] = indexes[n][ns][c][t]
      BY <1>3, <3>2, <3>3, <3>4
    <3>6. QED
      BY <3>1, <3>5
  <2>3. QED
    BY <2>1, <2>2
<1> HIDE DEF Q
<1>4. 0 \in S /\ \A n \in Nat : n \in S => n + 1 \in S
  BY <1>2, <1>3
<1> HIDE DEF S
<1>5. Nat \subseteq S
  BY <1>4, Induct
<1>6. QED
  BY <1>5 DEF Q, S

LEMMA IndexConst ==
  ASSUME NEW ns, StoreOK(ns), NEW r, Live(ns, r), r.const, NEW s \in SUBSET Vars
  PROVE  Index(ns, r, s) = IF s = {} THEN r.at ELSE 0
BY IndexesConst, HeightNat DEF Index

\* What a node stands for, in terms of its children.
LEMMA IndexNode ==
  ASSUME NEW ns, StoreOK(ns), NEW r, Live(ns, r), ~r.const, NEW s \in SUBSET Vars
  PROVE  Index(ns, r, s) = Index(ns, Child(ns, r, s), s \ {ns[r.at].var})
<1> DEFINE c == Child(ns, r, s)
           t == s \ {ns[r.at].var}
           n == Height - 1
<1>1. Live(ns, c) /\ EdgeLevel(ns, c) < EdgeLevel(ns, r)
  BY ChildLower
<1>2. t \in SUBSET Vars
  OBVIOUS
<1> HIDE DEF c
<1>3. n \in Nat /\ n + 1 = Height /\ EdgeLevel(ns, c) <= n
  <2>1. EdgeLevel(ns, c) \in 0..Height /\ EdgeLevel(ns, r) \in 0..Height
    BY <1>1, LiveLevel
  <2>2. QED
    BY <1>1, <2>1, HeightNat
<1> HIDE DEF n
<1>4. indexes[n + 1][ns][r][s] = indexes[n][ns][c][t]
  BY <1>3, IndexesNode DEF c
<1> HIDE DEF t
<1>5. indexes[n + 1][ns][c][t] = indexes[n][ns][c][t]
  BY <1>1, <1>2, <1>3, IndexesSettle
<1>6. Index(ns, r, s) = Index(ns, c, t)
  BY <1>3, <1>4, <1>5 DEF Index
<1>7. QED
  BY <1>6 DEF c, t

\* Induction over the edges of a store: from the children to the edge.
LEMMA EdgeInduct ==
  ASSUME NEW ns, StoreOK(ns), NEW S,
         \A r \in Edges : Live(ns, r) /\ (~r.const => ns[r.at].lo \in S /\ ns[r.at].hi \in S)
                          => r \in S
  PROVE  \A r \in Edges : Live(ns, r) => r \in S
<1> DEFINE Q(n) == \A r \in Edges : Live(ns, r) /\ EdgeLevel(ns, r) <= n => r \in S
           N == {n \in Nat : Q(n)}
<1>1. Q(0)
  <2> SUFFICES ASSUME NEW r \in Edges, Live(ns, r), EdgeLevel(ns, r) <= 0
               PROVE  r \in S
    OBVIOUS
  <2>1. r.const
    BY LiveLevel, HeightNat
  <2>2. QED
    BY <2>1
<1>2. ASSUME NEW n \in Nat, Q(n)
      PROVE  Q(n + 1)
  <2> SUFFICES ASSUME NEW r \in Edges, Live(ns, r), EdgeLevel(ns, r) <= n + 1
               PROVE  r \in S
    OBVIOUS
  <2>1. ASSUME NEW c, Live(ns, c), EdgeLevel(ns, c) < EdgeLevel(ns, r)
        PROVE  c \in S
    <3>1. EdgeLevel(ns, c) \in 0..Height /\ EdgeLevel(ns, r) \in 0..Height /\ c \in Edges
      BY <2>1, LiveLevel
    <3>2. EdgeLevel(ns, c) <= n
      BY <2>1, <3>1, HeightNat
    <3>3. QED
      BY <1>2, <2>1, <3>1, <3>2
  <2>2. ~r.const => ns[r.at].lo \in S /\ ns[r.at].hi \in S
    <3> SUFFICES ASSUME ~r.const
                 PROVE  ns[r.at].lo \in S /\ ns[r.at].hi \in S
      OBVIOUS
    <3>1. /\ Live(ns, ns[r.at].lo) /\ EdgeLevel(ns, ns[r.at].lo) < EdgeLevel(ns, r)
          /\ Live(ns, ns[r.at].hi) /\ EdgeLevel(ns, ns[r.at].hi) < EdgeLevel(ns, r)
      BY LiveNode
    <3>2. QED
      BY <2>1, <3>1
  <2>3. QED
    BY <2>2
<1> HIDE DEF Q
<1>3. 0 \in N /\ \A n \in Nat : n \in N => n + 1 \in N
  BY <1>1, <1>2
<1> HIDE DEF N
<1>4. Nat \subseteq N
  BY <1>3, Induct
<1>5. \A n \in Nat : Q(n)
  BY <1>4 DEF N
<1>6. ASSUME NEW r \in Edges, Live(ns, r)
      PROVE  r \in S
  <2>1. EdgeLevel(ns, r) \in Nat /\ EdgeLevel(ns, r) <= EdgeLevel(ns, r)
    BY <1>6, LiveLevel, HeightNat
  <2>2. QED
    BY <1>5, <1>6, <2>1 DEF Q
<1>7. QED
  BY <1>6

LEMMA IndexNat ==
  ASSUME NEW ns, StoreOK(ns)
  PROVE  \A r \in Edges : Live(ns, r) => \A s \in SUBSET Vars : Index(ns, r, s) \in Nat
<1> DEFINE S == {r \in Edges : \A s \in SUBSET Vars : Index(ns, r, s) \in Nat}
<1>1. ASSUME NEW r \in Edges, Live(ns, r), ~r.const => ns[r.at].lo \in S /\ ns[r.at].hi \in S
      PROVE  r \in S
  <2> SUFFICES ASSUME NEW s \in SUBSET Vars
               PROVE  Index(ns, r, s) \in Nat
    OBVIOUS
  <2>1. CASE r.const
    BY <1>1, <2>1, IndexConst DEF Edges
  <2>2. CASE ~r.const
    <3>1. Index(ns, r, s) = Index(ns, Child(ns, r, s), s \ {ns[r.at].var})
      BY <1>1, <2>2, IndexNode
    <3>2. Child(ns, r, s) \in S
      BY <1>1, <2>2 DEF Child
    <3>3. QED
      BY <3>1, <3>2
  <2>3. QED
    BY <2>1, <2>2
<1> HIDE DEF S
<1>2. \A r \in Edges : Live(ns, r) => r \in S
  BY <1>1, EdgeInduct
<1>3. QED
  BY <1>2 DEF S

\* A set with a variable above an edge is not on any of its paths.
LEMMA IndexAbove ==
  ASSUME NEW ns, StoreOK(ns)
  PROVE  \A r \in Edges : Live(ns, r) =>
           \A v \in Vars, s \in SUBSET Vars :
             v \in s /\ EdgeLevel(ns, r) < LevelOf(v) => Index(ns, r, s) = 0
<1> DEFINE S == {r \in Edges : Live(ns, r) =>
                   \A v \in Vars, s \in SUBSET Vars :
                     v \in s /\ EdgeLevel(ns, r) < LevelOf(v) => Index(ns, r, s) = 0}
<1>1. ASSUME NEW r \in Edges, Live(ns, r), ~r.const => ns[r.at].lo \in S /\ ns[r.at].hi \in S
      PROVE  r \in S
  <2> SUFFICES ASSUME NEW v \in Vars, NEW s \in SUBSET Vars, v \in s, EdgeLevel(ns, r) < LevelOf(v)
               PROVE  Index(ns, r, s) = 0
    OBVIOUS
  <2>1. CASE r.const
    BY <1>1, <2>1, IndexConst
  <2>2. CASE ~r.const
    <3> DEFINE c == Child(ns, r, s)
               t == s \ {ns[r.at].var}
    <3>1. Index(ns, r, s) = Index(ns, c, t)
      BY <1>1, <2>2, IndexNode
    <3>2. c \in S
      BY <1>1, <2>2 DEF Child
    <3>3. Live(ns, c) /\ EdgeLevel(ns, c) < EdgeLevel(ns, r)
      BY <1>1, <2>2, ChildLower
    <3>4. EdgeLevel(ns, r) = LevelOf(ns[r.at].var) /\ EdgeLevel(ns, r) \in Nat
      BY <1>1, <2>2, LiveNode, LiveLevel, HeightNat
    <3>5. LevelOf(v) \in Nat /\ EdgeLevel(ns, c) \in Nat
      BY <3>3, LiveLevel, Levels
    <3>6. v \in t /\ t \in SUBSET Vars
      BY <3>4, <3>5
    <3> HIDE DEF c, t
    <3>7. EdgeLevel(ns, c) < LevelOf(v)
      BY <3>3, <3>4, <3>5
    <3>8. QED
      BY <3>1, <3>2, <3>3, <3>6, <3>7
  <2>3. QED
    BY <2>1, <2>2
<1> HIDE DEF S
<1>2. \A r \in Edges : Live(ns, r) => r \in S
  BY <1>1, EdgeInduct
<1>3. QED
  BY <1>2 DEF S

\* The sets without and with the variable of a node.
LEMMA IndexLoHi ==
  ASSUME NEW ns, StoreOK(ns), NEW r, Live(ns, r), ~r.const, NEW s \in SUBSET Vars
  PROVE  /\ ns[r.at].var \notin s => Index(ns, r, s) = Index(ns, ns[r.at].lo, s)
         /\ ns[r.at].var \in s => Index(ns, r, s) = Index(ns, ns[r.at].hi, s \ {ns[r.at].var})
<1>1. Index(ns, r, s) = Index(ns, Child(ns, r, s), s \ {ns[r.at].var})
  BY IndexNode
<1>2. ns[r.at].var \notin s => s \ {ns[r.at].var} = s
  OBVIOUS
<1>3. QED
  BY <1>1, <1>2 DEF Child

-----------------------------------------------------------------------------
(***************************************************************************)
(* A store may change outside a set of nodes that lead to nodes of the set *)
(* only: an operation takes free slots, a collection frees what is not     *)
(* reached.                                                                *)
(***************************************************************************)
Within(r, K) == r.const \/ r.at \in K

Same(ns, ms, K) ==
  /\ K \subseteq Slots /\ Closed(ns, K)
  /\ \A t \in K : ns[t] # Free /\ ms[t] = ns[t]

LEMMA IndexKept ==
  ASSUME NEW ns, NEW ms, NEW K, StoreOK(ns), StoreOK(ms), Same(ns, ms, K)
  PROVE  \A r \in Edges : Live(ns, r) /\ Within(r, K) =>
           /\ Live(ms, r) /\ EdgeLevel(ms, r) = EdgeLevel(ns, r)
           /\ \A s \in SUBSET Vars : Index(ms, r, s) = Index(ns, r, s)
<1> DEFINE S == {r \in Edges : Within(r, K) =>
                   /\ Live(ms, r) /\ EdgeLevel(ms, r) = EdgeLevel(ns, r)
                   /\ \A s \in SUBSET Vars : Index(ms, r, s) = Index(ns, r, s)}
<1>1. ASSUME NEW r \in Edges, Live(ns, r), ~r.const => ns[r.at].lo \in S /\ ns[r.at].hi \in S
      PROVE  r \in S
  <2> SUFFICES ASSUME Within(r, K)
               PROVE  /\ Live(ms, r) /\ EdgeLevel(ms, r) = EdgeLevel(ns, r)
                      /\ \A s \in SUBSET Vars : Index(ms, r, s) = Index(ns, r, s)
    OBVIOUS
  <2>1. CASE r.const
    <3>1. Live(ms, r) /\ EdgeLevel(ms, r) = EdgeLevel(ns, r)
      BY <2>1 DEF Live, EdgeLevel
    <3>2. QED
      BY <1>1, <2>1, <3>1, IndexConst
  <2>2. CASE ~r.const
    <3>1. r.at \in K /\ r.at \in Slots /\ ns[r.at] # Free /\ ms[r.at] = ns[r.at]
      BY <2>2 DEF Within, Same
    <3>2. Live(ms, r) /\ EdgeLevel(ms, r) = EdgeLevel(ns, r)
      BY <2>2, <3>1 DEF Live, EdgeLevel
    <3>3. Within(ns[r.at].lo, K) /\ Within(ns[r.at].hi, K)
      BY <3>1 DEF Same, Closed, Within
    <3>4. ASSUME NEW s \in SUBSET Vars
          PROVE  Index(ms, r, s) = Index(ns, r, s)
      <4> DEFINE c == Child(ns, r, s)
                 t == s \ {ns[r.at].var}
      <4>1. c = Child(ms, r, s) /\ t = s \ {ms[r.at].var}
        BY <3>1 DEF Child
      <4>2. c \in S /\ Within(c, K)
        BY <1>1, <2>2, <3>3 DEF Child
      <4>3. Index(ns, r, s) = Index(ns, c, t)
        BY <1>1, <2>2, IndexNode
      <4>4. Index(ms, r, s) = Index(ms, c, t)
        BY <2>2, <3>2, <4>1, IndexNode
      <4>5. t \in SUBSET Vars
        OBVIOUS
      <4> HIDE DEF c, t
      <4>6. QED
        BY <4>2, <4>3, <4>4, <4>5
    <3>5. QED
      BY <3>2, <3>4
  <2>3. QED
    BY <2>1, <2>2
<1> HIDE DEF S
<1>2. \A r \in Edges : Live(ns, r) => r \in S
  BY <1>1, EdgeInduct
<1>3. QED
  BY <1>2 DEF S

\* What is reached from R is in every closed set that R leads to.
LEMMA ReachLeast ==
  ASSUME NEW ns, NEW R, NEW K, K \subseteq Slots, Closed(ns, K), \A c \in R : Within(c, K)
  PROVE  Reach(ns, R) \subseteq K
BY DEF Reach, Within

LEMMA ReachClosed ==
  ASSUME NEW ns, NEW R, R \subseteq Edges, \A c \in R : c.const \/ c.at \in Slots,
         \A t \in Slots : ns[t].lo.const \/ ns[t].lo.at \in Slots,
         \A t \in Slots : ns[t].hi.const \/ ns[t].hi.at \in Slots
  PROVE  /\ Reach(ns, R) \subseteq Slots /\ Closed(ns, Reach(ns, R))
         /\ \A c \in R : Within(c, Reach(ns, R))
<1>1. Reach(ns, R) \subseteq Slots
  BY DEF Reach
<1>2. \A c \in R : Within(c, Reach(ns, R))
  BY DEF Reach, Within
<1>3. ASSUME NEW t \in Reach(ns, R), NEW c \in {ns[t].lo, ns[t].hi}
      PROVE  c.const \/ c.at \in Reach(ns, R)
  <2> SUFFICES ASSUME ~c.const, NEW S \in SUBSET Slots, Closed(ns, S), \A d \in R : d.const \/ d.at \in S
               PROVE  c.at \in S
    BY <1>1 DEF Reach
  <2>1. t \in S
    BY DEF Reach
  <2>2. QED
    BY <2>1 DEF Closed
<1>4. QED
  BY <1>1, <1>2, <1>3 DEF Closed

\* What was reached from an edge of K still is.
LEMMA ReachKept ==
  ASSUME NEW ns, NEW ms, NEW K, Same(ns, ms, K), NEW f, Within(f, K)
  PROVE  Reach(ns, {f}) \subseteq Reach(ms, {f})
<1> SUFFICES ASSUME NEW t \in Reach(ns, {f}), NEW S \in SUBSET Slots, Closed(ms, S), f.const \/ f.at \in S
             PROVE  t \in S
  BY DEF Reach
<1>1. Closed(ns, S \cap K)
  <2> SUFFICES ASSUME NEW u \in S \cap K, NEW c \in {ns[u].lo, ns[u].hi}, ~c.const
               PROVE  c.at \in S \cap K
    BY DEF Closed
  <2>1. ms[u] = ns[u]
    BY DEF Same
  <2>2. c.at \in K
    BY DEF Same, Closed
  <2>3. c.at \in S
    BY <2>1 DEF Closed
  <2>4. QED
    BY <2>2, <2>3
<1>2. Within(f, S \cap K) /\ S \cap K \subseteq Slots
  BY DEF Within
<1>3. Reach(ns, {f}) \subseteq S \cap K
  BY <1>1, <1>2, ReachLeast
<1>4. QED
  BY <1>3

\* The store after an operation: free slots may have been taken.
Grown(ns, ms) == StoreOK(ms) /\ \A t \in Slots : ns[t] # Free => ms[t] = ns[t]

LEMMA GrownSame ==
  ASSUME NEW ns, NEW ms, StoreOK(ns), Grown(ns, ms)
  PROVE  /\ Same(ns, ms, {t \in Slots : ns[t] # Free})
         /\ \A r : Live(ns, r) => Within(r, {t \in Slots : ns[t] # Free})
<1> DEFINE K == {t \in Slots : ns[t] # Free}
<1>1. Closed(ns, K)
  BY DEF Closed, StoreOK, Live
<1>2. QED
  BY <1>1 DEF Same, Within, Grown, Live

LEMMA GrownKeeps ==
  ASSUME NEW ns, NEW ms, StoreOK(ns), Grown(ns, ms), NEW r, Live(ns, r)
  PROVE  /\ Live(ms, r) /\ EdgeLevel(ms, r) = EdgeLevel(ns, r)
         /\ \A s \in SUBSET Vars : Index(ms, r, s) = Index(ns, r, s)
<1> DEFINE K == {t \in Slots : ns[t] # Free}
<1>1. Same(ns, ms, K) /\ Within(r, K)
  BY GrownSame
<1>2. StoreOK(ms) /\ r \in Edges
  BY DEF Grown, Live
<1> HIDE DEF K
<1>3. QED
  BY <1>1, <1>2, IndexKept

LEMMA GrownReaches ==
  ASSUME NEW ns, NEW ms, StoreOK(ns), Grown(ns, ms), NEW r, Live(ns, r)
  PROVE  Reach(ns, {r}) \subseteq Reach(ms, {r})
<1> DEFINE K == {t \in Slots : ns[t] # Free}
<1>1. Same(ns, ms, K) /\ Within(r, K)
  BY GrownSame
<1> HIDE DEF K
<1>2. QED
  BY <1>1, ReachKept

LEMMA GrownTrans ==
  ASSUME NEW ns, NEW ms, NEW ls, Grown(ns, ms), Grown(ms, ls)
  PROVE  Grown(ns, ls)
BY DEF Grown

-----------------------------------------------------------------------------
(***************************************************************************)
(* getnode_raw.                                                            *)
(***************************************************************************)
\* All but the nodes, the result and full.
SameRest(L, M) ==
  /\ M.generation = L.generation /\ M.table = L.table
  /\ M.cache = L.cache /\ M.memo = L.memo /\ M.converted = L.converted

\* r has the sets of lo, and those of hi with v.
Joins(ns, r, v, ms, lo, hi) ==
  /\ Live(ns, r) /\ EdgeLevel(ns, r) <= LevelOf(v)
  /\ \A s \in SUBSET Vars :
       Index(ns, r, s) = IF v \in s THEN Index(ms, hi, s \ {v}) ELSE Index(ms, lo, s)

NodeOf(v, lo, hi) == [var |-> v, lo |-> lo, hi |-> hi]

LEMMA SlotEdge ==
  /\ Slots \subseteq Nat
  /\ \A t \in Slots : Slot(t) \in Edges /\ Slot(t).at = t /\ Slot(t).const = FALSE
<1>1. Slots \subseteq Nat
  <2>1. IsFiniteSet(Slots) /\ Slots = 1..Cardinality(Slots)
    BY SessionsAssumption
  <2>2. Cardinality(Slots) \in Nat
    BY <2>1, FS_CardinalityType
  <2>3. QED
    BY <2>1, <2>2
<1>2. QED
  BY <1>1 DEF Slot, Edges

LEMMA NodeJoins ==
  ASSUME NEW ns, StoreOK(ns), NEW ms, StoreOK(ms), Grown(ms, ns), NEW v \in Vars,
         NEW lo, Live(ms, lo), NEW hi, Live(ms, hi),
         NEW t \in Slots, ns[t] = NodeOf(v, lo, hi)
  PROVE  Joins(ns, Slot(t), v, ms, lo, hi)
<1> DEFINE r == Slot(t)
<1>1. r \in Edges /\ r.at = t /\ r.const = FALSE
  BY SlotEdge
<1>2. ns[t] # Free /\ ns[t].var = v /\ ns[t].lo = lo /\ ns[t].hi = hi
  BY Levels DEF NodeOf, Free
<1> HIDE DEF r
<1>3. Live(ns, r) /\ EdgeLevel(ns, r) = LevelOf(v)
  BY <1>1, <1>2 DEF Live, EdgeLevel
<1>4. LevelOf(v) \in Nat
  BY Levels
<1>5. ASSUME NEW s \in SUBSET Vars
      PROVE  Index(ns, r, s) = IF v \in s THEN Index(ms, hi, s \ {v}) ELSE Index(ms, lo, s)
  <2>1. /\ v \notin s => Index(ns, r, s) = Index(ns, lo, s)
        /\ v \in s => Index(ns, r, s) = Index(ns, hi, s \ {v})
    BY <1>1, <1>2, <1>3, IndexLoHi
  <2>2. s \ {v} \in SUBSET Vars
    OBVIOUS
  <2>3. \A u \in SUBSET Vars : Index(ns, lo, u) = Index(ms, lo, u)
    BY GrownKeeps
  <2>4. \A u \in SUBSET Vars : Index(ns, hi, u) = Index(ms, hi, u)
    BY GrownKeeps
  <2>5. QED
    BY <2>1, <2>2, <2>3, <2>4
<1>6. QED
  BY <1>3, <1>4, <1>5 DEF Joins, r

\* A free slot is taken for a node whose children are below it.
LEMMA TakeSlot ==
  ASSUME NEW ns, StoreOK(ns), NEW v \in Vars, NEW t \in Slots, ns[t] = Free,
         NEW lo, Live(ns, lo), EdgeLevel(ns, lo) < LevelOf(v),
         NEW hi, Live(ns, hi), EdgeLevel(ns, hi) < LevelOf(v),
         NEW ms \in Stores, ms[t] = NodeOf(v, lo, hi), \A u \in Slots : u # t => ms[u] = ns[u]
  PROVE  Grown(ns, ms)
<1>1. NodeOf(v, lo, hi) # Free
  BY Levels DEF NodeOf, Free
<1>2. ASSUME NEW c, Live(ns, c)
      PROVE  Live(ms, c) /\ EdgeLevel(ms, c) = EdgeLevel(ns, c)
  BY <1>2 DEF Live, EdgeLevel
<1>3. ASSUME NEW u \in Slots, ms[u] # Free
      PROVE  /\ ms[u].var \in Vars
             /\ Live(ms, ms[u].lo) /\ EdgeLevel(ms, ms[u].lo) < LevelOf(ms[u].var)
             /\ Live(ms, ms[u].hi) /\ EdgeLevel(ms, ms[u].hi) < LevelOf(ms[u].var)
  <2>1. CASE u = t
    <3>1. ms[u].var = v /\ ms[u].lo = lo /\ ms[u].hi = hi
      BY <2>1 DEF NodeOf
    <3>2. QED
      BY <1>2, <3>1
  <2>2. CASE u # t
    <3>1. ms[u] = ns[u] /\ ns[u] # Free
      BY <1>3, <2>2
    <3>2. /\ ns[u].var \in Vars
          /\ Live(ns, ns[u].lo) /\ EdgeLevel(ns, ns[u].lo) < LevelOf(ns[u].var)
          /\ Live(ns, ns[u].hi) /\ EdgeLevel(ns, ns[u].hi) < LevelOf(ns[u].var)
      BY <3>1 DEF StoreOK
    <3>3. QED
      BY <1>2, <3>1, <3>2
  <2>3. QED
    BY <2>1, <2>2
<1>4. StoreOK(ms)
  BY <1>3 DEF StoreOK
<1>5. QED
  BY <1>4 DEF Grown

\* There is a last free slot if there is one.
LEMMA FreeTop ==
  ASSUME NEW T, T \subseteq Slots, T # {}
  PROVE  (CHOOSE s \in T : \A t \in T : t <= s) \in T
<1> DEFINE n == Cardinality(Slots)
<1>1. n \in Nat /\ Slots = 1..n
  BY SessionsAssumption, FS_CardinalityType
<1> HIDE DEF n
<1>2. \E s \in T : \A t \in T : t <= s
  <2> SUFFICES ASSUME \A s \in T : \E t \in T : t > s
               PROVE  FALSE
    BY <1>1
  <2> DEFINE U == {m \in Nat : \E t \in T : t >= m}
  <2>1. 0 \in U
    <3>1. PICK t \in T : TRUE
      OBVIOUS
    <3>2. QED
      BY <1>1, <3>1
  <2>2. ASSUME NEW m \in Nat, m \in U
        PROVE  m + 1 \in U
    <3>1. PICK t \in T : t >= m
      BY <2>2
    <3>2. PICK u \in T : u > t
      OBVIOUS
    <3>3. u >= m + 1
      BY <1>1, <3>1, <3>2
    <3>4. QED
      BY <3>3
  <2> HIDE DEF U
  <2>3. Nat \subseteq U
    BY <2>1, <2>2, Induct
  <2>4. PICK t \in T : t >= n + 1
    <3>1. n + 1 \in U
      BY <1>1, <2>3
    <3>2. QED
      BY <3>1 DEF U
  <2>5. QED
    BY <1>1, <2>4
<1>3. QED
  BY <1>2

\* M has the node, or is full; all else is as in L.
MadeNode(L, v, lo, hi, M) ==
  /\ M \in Libraries /\ SameRest(L, M) /\ Grown(L.nodes, M.nodes)
  /\ ~M.full => Joins(M.nodes, M.r, v, L.nodes, lo, hi)

LEMMA GetNode ==
  ASSUME NEW L \in Libraries, StoreOK(L.nodes), ~L.full, NEW v \in Vars,
         NEW lo, Live(L.nodes, lo), EdgeLevel(L.nodes, lo) < LevelOf(v),
         NEW hi, Live(L.nodes, hi), EdgeLevel(L.nodes, hi) < LevelOf(v),
         NEW M, M = getnode_raw(L, v, lo, hi)
  PROVE  MadeNode(L, v, lo, hi, M)
<1> DEFINE n == NodeOf(v, lo, hi)
           free == {s \in Slots : L.nodes[s] = Free}
           s == CHOOSE s \in free : \A t \in free : t <= s
           t == CHOOSE t \in Slots : L.nodes[t] = n
<1>0. lo \in Edges /\ hi \in Edges
  BY DEF Live
<1>1. Grown(L.nodes, L.nodes)
  BY DEF Grown
<1>2. CASE hi = Const(0)
  <2>1. M = [L EXCEPT !.r = lo]
    BY <1>2 DEF getnode_raw
  <2>2. M \in Libraries /\ M.nodes = L.nodes /\ M.r = lo /\ SameRest(L, M)
    BY <1>0, <2>1 DEF Libraries, SameRest
  <2>3. ASSUME NEW u \in SUBSET Vars
        PROVE  Index(L.nodes, lo, u) = IF v \in u THEN Index(L.nodes, hi, u \ {v}) ELSE Index(L.nodes, lo, u)
    <3> SUFFICES ASSUME v \in u
                 PROVE  Index(L.nodes, lo, u) = Index(L.nodes, hi, u \ {v})
      OBVIOUS
    <3>1. Index(L.nodes, lo, u) = 0
      BY <1>0, IndexAbove
    <3>2. u \ {v} \in SUBSET Vars /\ hi.const /\ hi.at = 0
      BY <1>2 DEF Const
    <3>3. Index(L.nodes, hi, u \ {v}) = 0
      BY <3>2, IndexConst
    <3>4. QED
      BY <3>1, <3>3
  <2>4. EdgeLevel(L.nodes, lo) <= LevelOf(v)
    BY LiveLevel, Levels
  <2>5. QED
    BY <1>1, <2>2, <2>3, <2>4 DEF Joins, MadeNode
<1>3. CASE hi # Const(0) /\ \E u \in Slots : L.nodes[u] = n
  <2>1. M = [L EXCEPT !.r = Slot(t)]
    BY <1>3 DEF getnode_raw, NodeOf
  <2>2. t \in Slots /\ L.nodes[t] = n
    BY <1>3
  <2> HIDE DEF t
  <2>3. Slot(t) \in Edges
    BY <2>2, SlotEdge
  <2>4. M \in Libraries /\ M.nodes = L.nodes /\ M.r = Slot(t) /\ SameRest(L, M)
    BY <2>1, <2>3 DEF Libraries, SameRest
  <2>5. Joins(L.nodes, Slot(t), v, L.nodes, lo, hi)
    BY <1>1, <2>2, NodeJoins
  <2>6. QED
    BY <1>1, <2>4, <2>5 DEF MadeNode
<1>4. CASE hi # Const(0) /\ ~(\E u \in Slots : L.nodes[u] = n) /\ free = {}
  <2>1. M = [L EXCEPT !.full = TRUE]
    BY <1>4 DEF getnode_raw, NodeOf
  <2>2. M \in Libraries /\ M.nodes = L.nodes /\ SameRest(L, M) /\ M.full
    BY <2>1 DEF Libraries, SameRest
  <2>3. QED
    BY <1>1, <2>2 DEF MadeNode
<1>5. CASE hi # Const(0) /\ ~(\E u \in Slots : L.nodes[u] = n) /\ free # {}
  <2>1. M = [L EXCEPT !.nodes[s] = n, !.r = Slot(s)]
    BY <1>5 DEF getnode_raw, NodeOf
  <2>2. s \in Slots /\ L.nodes[s] = Free
    BY <1>5, FreeTop
  <2> HIDE DEF s
  <2>3. Slot(s) \in Edges
    BY <2>2, SlotEdge
  <2>4. Grown(L.nodes, [L.nodes EXCEPT ![s] = n]) /\ [L.nodes EXCEPT ![s] = n][s] = n
    <3> DEFINE ns == L.nodes
               ms == [ns EXCEPT ![s] = NodeOf(v, lo, hi)]
    <3>1. NodeOf(v, lo, hi) \in [var : Nat, lo : Edges, hi : Edges]
      BY <1>0, Levels DEF NodeOf
    <3>2. ms \in Stores /\ ms[s] = NodeOf(v, lo, hi) /\ \A u \in Slots : u # s => ms[u] = ns[u]
      BY <2>2, <3>1 DEF Stores, Libraries
    <3> HIDE DEF ms
    <3>3. Grown(ns, ms)
      BY <2>2, <3>2, TakeSlot
    <3>4. QED
      BY <3>2, <3>3 DEF ms
  <2>5. M.nodes = [L.nodes EXCEPT ![s] = n] /\ M.r = Slot(s) /\ SameRest(L, M)
    BY <2>1 DEF Libraries, SameRest
  <2>6. M.nodes \in Stores
    BY <2>4, <2>5 DEF Grown, StoreOK
  <2>7. M \in Libraries
    BY <2>1, <2>3, <2>6 DEF Libraries
  <2>8. Joins(M.nodes, Slot(s), v, L.nodes, lo, hi)
    BY <2>2, <2>4, <2>5, NodeJoins DEF Grown
  <2>9. QED
    BY <2>4, <2>5, <2>7, <2>8 DEF MadeNode
<1>6. QED
  BY <1>2, <1>3, <1>4, <1>5

-----------------------------------------------------------------------------
(***************************************************************************)
(* Terminal values, and the entries of the operation cache.                *)
(***************************************************************************)
\* values_ begins with the value 0 and is only ever appended to.
TableOK(tb) == tb \in Seq(Nat) /\ Len(tb) >= 1 /\ tb[1] = 0

Longer(tb, ub) ==
  /\ TableOK(ub)
  /\ Len(tb) <= Len(ub) /\ \A i \in 1..Len(tb) : ub[i] = tb[i]

Value(ns, tb, r, s) == ValueAt(tb, Index(ns, r, s))
Valued(ns, tb, r) == \A s \in SUBSET Vars : Index(ns, r, s) < Len(tb)

LEMMA ValueNat ==
  ASSUME NEW ns, StoreOK(ns), NEW tb, TableOK(tb), NEW r, Live(ns, r), Valued(ns, tb, r),
         NEW s \in SUBSET Vars
  PROVE  /\ Index(ns, r, s) \in 0..(Len(tb) - 1)
         /\ Value(ns, tb, r, s) = tb[Index(ns, r, s) + 1]
         /\ Value(ns, tb, r, s) \in Nat
<1>1. r \in Edges
  BY DEF Live
<1>2. Index(ns, r, s) \in Nat /\ Index(ns, r, s) < Len(tb)
  BY <1>1, IndexNat DEF Valued
<1>3. Len(tb) \in Nat /\ \A i \in 1..Len(tb) : tb[i] \in Nat
  BY DEF TableOK
<1>4. Index(ns, r, s) \in 0..(Len(tb) - 1)
  BY <1>2, <1>3
<1>5. QED
  BY <1>2, <1>3, <1>4 DEF Value, ValueAt

LEMMA ConstValue ==
  ASSUME NEW ns, StoreOK(ns), NEW tb, TableOK(tb), NEW r, Live(ns, r), r.const, r.at < Len(tb)
  PROVE  /\ Valued(ns, tb, r)
         /\ \A s \in SUBSET Vars :
              Value(ns, tb, r, s) = IF s = {} THEN tb[r.at + 1] ELSE 0
<1>1. r.at \in Nat /\ Len(tb) \in Nat /\ Len(tb) >= 1 /\ tb[1] = 0
  BY DEF Live, Edges, TableOK
<1>2. \A s \in SUBSET Vars : Index(ns, r, s) = IF s = {} THEN r.at ELSE 0
  BY IndexConst
<1>3. Valued(ns, tb, r)
  BY <1>1, <1>2 DEF Valued
<1>4. QED
  BY <1>1, <1>2, <1>3, ValueNat

\* An edge has the same values in a grown store and a longer table.
LEMMA ValueKept ==
  ASSUME NEW ns, StoreOK(ns), NEW ms, Grown(ns, ms), NEW tb, TableOK(tb), NEW ub, Longer(tb, ub),
         NEW r, Live(ns, r), Valued(ns, tb, r)
  PROVE  /\ Live(ms, r) /\ EdgeLevel(ms, r) = EdgeLevel(ns, r) /\ Valued(ms, ub, r)
         /\ \A s \in SUBSET Vars : Value(ms, ub, r, s) = Value(ns, tb, r, s)
<1>1. /\ Live(ms, r) /\ EdgeLevel(ms, r) = EdgeLevel(ns, r)
      /\ \A s \in SUBSET Vars : Index(ms, r, s) = Index(ns, r, s)
  BY GrownKeeps
<1>2. Len(tb) \in Nat /\ Len(ub) \in Nat /\ Len(tb) <= Len(ub) /\ TableOK(ub)
  BY DEF TableOK, Longer
<1>3. StoreOK(ms)
  BY DEF Grown
<1>4. ASSUME NEW s \in SUBSET Vars
      PROVE  Index(ms, r, s) < Len(ub) /\ Value(ms, ub, r, s) = Value(ns, tb, r, s)
  <2>1. Index(ns, r, s) \in 0..(Len(tb) - 1) /\ Index(ms, r, s) = Index(ns, r, s)
    BY <1>1, ValueNat
  <2>2. Index(ns, r, s) \in 0..(Len(ub) - 1) /\ Index(ns, r, s) + 1 \in 1..Len(tb)
    BY <1>2, <2>1
  <2>3. ub[Index(ns, r, s) + 1] = tb[Index(ns, r, s) + 1]
    BY <2>2 DEF Longer
  <2>4. QED
    BY <1>2, <2>1, <2>2, <2>3 DEF Value, ValueAt
<1>5. QED
  BY <1>1, <1>4 DEF Valued

LEMMA LongerTrans ==
  ASSUME NEW tb, NEW ub, NEW wb, TableOK(tb), Longer(tb, ub), Longer(ub, wb)
  PROVE  Longer(tb, wb)
<1>1. Len(tb) \in Nat /\ Len(ub) \in Nat /\ Len(wb) \in Nat
  BY DEF Longer, TableOK
<1>2. QED
  BY <1>1 DEF Longer

LEMMA TableAppend ==
  ASSUME NEW tb, TableOK(tb), NEW x \in Nat
  PROVE  /\ Longer(tb, Append(tb, x)) /\ Len(tb) < Len(Append(tb, x))
         /\ Append(tb, x)[Len(tb) + 1] = x
<1>1. tb \in Seq(Nat) /\ Len(tb) \in Nat /\ Len(tb) >= 1
  BY DEF TableOK
<1>2. /\ Append(tb, x) \in Seq(Nat) /\ Len(Append(tb, x)) = Len(tb) + 1
      /\ Append(tb, x)[Len(tb) + 1] = x
      /\ \A i \in 1..Len(tb) : Append(tb, x)[i] = tb[i]
  BY <1>1
<1>3. QED
  BY <1>1, <1>2 DEF TableOK, Longer

\* M has x in its table and the edge to it as the result.
Interned(L, x, M) ==
  /\ M \in Libraries /\ M.nodes = L.nodes /\ M.full = L.full
  /\ M.generation = L.generation /\ M.cache = L.cache /\ M.memo = L.memo
  /\ Longer(L.table, M.table)
  /\ M.r \in Edges /\ M.r.const = TRUE /\ M.r.at < Len(M.table) /\ M.table[M.r.at + 1] = x

LEMMA GetOrInsert ==
  ASSUME NEW L \in Libraries, TableOK(L.table), NEW x \in Nat
  PROVE  Interned(L, x, get_or_insert(L, x))
<1> DEFINE M == get_or_insert(L, x)
<1>1. L.table \in Seq(Nat) /\ Len(L.table) \in Nat /\ Len(L.table) >= 1
  BY DEF TableOK
<1>2. CASE \E i \in DOMAIN L.table : L.table[i] = x
  <2> DEFINE i == CHOOSE i \in DOMAIN L.table : L.table[i] = x
  <2>1. M = [L EXCEPT !.r = Const(i - 1)]
    BY <1>2 DEF get_or_insert
  <2>2. i \in 1..Len(L.table) /\ L.table[i] = x
    BY <1>1, <1>2
  <2> HIDE DEF i
  <2>3. /\ Const(i - 1) \in Edges /\ Const(i - 1).const = TRUE /\ Const(i - 1).at = i - 1
        /\ i - 1 < Len(L.table) /\ (i - 1) + 1 = i
    BY <1>1, <2>2 DEF Const, Edges
  <2>4. Longer(L.table, L.table)
    BY <1>1 DEF Longer
  <2>5. M \in Libraries /\ M.table = L.table /\ M.r = Const(i - 1)
    BY <2>1, <2>3 DEF Libraries
  <2>6. QED
    <3>1. /\ M.nodes = L.nodes /\ M.full = L.full
          /\ M.generation = L.generation /\ M.cache = L.cache /\ M.memo = L.memo
      BY <2>1 DEF Libraries
    <3> HIDE DEF M
    <3>2. Interned(L, x, M)
      BY <2>2, <2>3, <2>4, <2>5, <3>1 DEF Interned
    <3>3. QED
      BY <3>2 DEF M
<1>3. CASE ~(\E i \in DOMAIN L.table : L.table[i] = x)
  <2>1. M = [L EXCEPT !.table = Append(@, x), !.r = Const(Len(L.table))]
    BY <1>3 DEF get_or_insert
  <2>2. /\ Longer(L.table, Append(L.table, x)) /\ Len(L.table) < Len(Append(L.table, x))
        /\ Append(L.table, x)[Len(L.table) + 1] = x
    BY TableAppend
  <2>3. /\ Const(Len(L.table)) \in Edges /\ Const(Len(L.table)).const = TRUE
        /\ Const(Len(L.table)).at = Len(L.table)
    BY <1>1 DEF Const, Edges
  <2>4. Append(L.table, x) \in Seq(Nat)
    BY <2>2 DEF Longer, TableOK
  <2>5. M \in Libraries /\ M.table = Append(L.table, x) /\ M.r = Const(Len(L.table))
    BY <2>1, <2>3, <2>4 DEF Libraries
  <2>6. QED
    <3>1. /\ M.nodes = L.nodes /\ M.full = L.full
          /\ M.generation = L.generation /\ M.cache = L.cache /\ M.memo = L.memo
      BY <2>1 DEF Libraries
    <3> HIDE DEF M
    <3>2. Interned(L, x, M)
      BY <2>2, <2>3, <2>5, <3>1 DEF Interned
    <3>3. QED
      BY <3>2 DEF M
<1>4. QED
  BY <1>2, <1>3

EntryOK(ns, tb, e, nx) ==
  /\ e.code \in Nat /\ e.code # 0 /\ e.code < nx
  /\ Live(ns, e.f) /\ Live(ns, e.g) /\ Live(ns, e.r)
  /\ Valued(ns, tb, e.f) /\ Valued(ns, tb, e.g) /\ Valued(ns, tb, e.r)

\* r is the result of the functor op on f and g.
Results(ns, tb, r, op, ms, ub, f, g) ==
  /\ EdgeLevel(ns, r) <= Most(EdgeLevel(ms, f), EdgeLevel(ms, g))
  /\ \A s \in SUBSET Vars :
       Value(ns, tb, r, s) = BinOp(op, Value(ms, ub, f, s), Value(ms, ub, g, s))

CacheOK(ns, tb, ch, cd, nx) ==
  \A e \in ch :
    /\ EntryOK(ns, tb, e, nx)
    /\ \A op \in Functors : e.code = cd[op] => Results(ns, tb, e.r, op, ns, tb, e.f, e.g)

LEMMA ResultsKept ==
  ASSUME NEW ns, StoreOK(ns), NEW ms, Grown(ns, ms), NEW tb, TableOK(tb), NEW ub, Longer(tb, ub),
         NEW e, NEW nx, EntryOK(ns, tb, e, nx), NEW op,
         Results(ns, tb, e.r, op, ns, tb, e.f, e.g)
  PROVE  Results(ms, ub, e.r, op, ms, ub, e.f, e.g)
<1>1. /\ EdgeLevel(ms, e.f) = EdgeLevel(ns, e.f)
      /\ \A s \in SUBSET Vars : Value(ms, ub, e.f, s) = Value(ns, tb, e.f, s)
  BY ValueKept DEF EntryOK
<1>2. /\ EdgeLevel(ms, e.g) = EdgeLevel(ns, e.g)
      /\ \A s \in SUBSET Vars : Value(ms, ub, e.g, s) = Value(ns, tb, e.g, s)
  BY ValueKept DEF EntryOK
<1>3. /\ EdgeLevel(ms, e.r) = EdgeLevel(ns, e.r)
      /\ \A s \in SUBSET Vars : Value(ms, ub, e.r, s) = Value(ns, tb, e.r, s)
  BY ValueKept DEF EntryOK
<1>4. QED
  BY <1>1, <1>2, <1>3 DEF Results

LEMMA CacheKept ==
  ASSUME NEW ns, StoreOK(ns), NEW ms, Grown(ns, ms), NEW tb, TableOK(tb), NEW ub, Longer(tb, ub),
         NEW ch, NEW cd, NEW nx, CacheOK(ns, tb, ch, cd, nx)
  PROVE  CacheOK(ms, ub, ch, cd, nx)
<1> SUFFICES ASSUME NEW e \in ch
             PROVE  /\ EntryOK(ms, ub, e, nx)
                    /\ \A op \in Functors :
                         e.code = cd[op] => Results(ms, ub, e.r, op, ms, ub, e.f, e.g)
  BY DEF CacheOK
<1>1. EntryOK(ns, tb, e, nx)
  BY DEF CacheOK
<1>2. EntryOK(ms, ub, e, nx)
  <2>1. Live(ms, e.f) /\ Valued(ms, ub, e.f)
    BY <1>1, ValueKept DEF EntryOK
  <2>2. Live(ms, e.g) /\ Valued(ms, ub, e.g)
    BY <1>1, ValueKept DEF EntryOK
  <2>3. Live(ms, e.r) /\ Valued(ms, ub, e.r)
    BY <1>1, ValueKept DEF EntryOK
  <2>4. QED
    BY <1>1, <2>1, <2>2, <2>3 DEF EntryOK
<1>3. ASSUME NEW op \in Functors, e.code = cd[op]
      PROVE  Results(ms, ub, e.r, op, ms, ub, e.f, e.g)
  BY <1>1, <1>3, ResultsKept DEF CacheOK
<1>4. QED
  BY <1>2, <1>3

-----------------------------------------------------------------------------
(***************************************************************************)
(* MTZDD::apply: the result has the functor's value on every set, and the  *)
(* cache, the table and the store it leaves are as good as before.         *)
(***************************************************************************)
Good(L, cd, nx) ==
  /\ L \in Libraries /\ StoreOK(L.nodes) /\ TableOK(L.table)
  /\ CacheOK(L.nodes, L.table, L.cache, cd, nx)

Onward(L, M) ==
  /\ Grown(L.nodes, M.nodes) /\ Longer(L.table, M.table)
  /\ M.generation = L.generation /\ M.memo = L.memo

After(L, M, cd, nx) == Good(M, cd, nx) /\ Onward(L, M)

Operand(L, f) == Live(L.nodes, f) /\ Valued(L.nodes, L.table, f)

Applied(M, op, L, f, g) ==
  Operand(M, M.r) /\ Results(M.nodes, M.table, M.r, op, L.nodes, L.table, f, g)

CodesOK(cd, nx) ==
  /\ cd \in [Functors -> Nat] /\ nx \in Nat
  /\ \A op \in Functors : cd[op] # 0 => cd[op] < nx
  /\ \A op1, op2 \in Functors : cd[op1] # 0 /\ cd[op1] = cd[op2] => op1 = op2

LEMMA OnwardSame ==
  ASSUME NEW L, StoreOK(L.nodes), TableOK(L.table)
  PROVE  Onward(L, L)
<1>1. Len(L.table) \in Nat
  BY DEF TableOK
<1>2. QED
  BY <1>1 DEF Onward, Grown, Longer

LEMMA OnwardTrans ==
  ASSUME NEW L, NEW M, NEW N, TableOK(L.table), Onward(L, M), Onward(M, N)
  PROVE  Onward(L, N)
<1>1. Grown(L.nodes, N.nodes)
  BY GrownTrans DEF Onward
<1>2. Longer(L.table, N.table)
  BY LongerTrans DEF Onward
<1>3. QED
  BY <1>1, <1>2 DEF Onward

LEMMA OperandKept ==
  ASSUME NEW L, StoreOK(L.nodes), TableOK(L.table), NEW M, Onward(L, M), NEW f, Operand(L, f)
  PROVE  /\ Operand(M, f) /\ EdgeLevel(M.nodes, f) = EdgeLevel(L.nodes, f)
         /\ \A s \in SUBSET Vars :
              Value(M.nodes, M.table, f, s) = Value(L.nodes, L.table, f, s)
BY ValueKept DEF Onward, Operand

LEMMA BinOpNat ==
  ASSUME NEW op, NEW x \in Nat, NEW y \in Nat
  PROVE  BinOp(op, x, y) \in Nat
BY DEF BinOp, Least, Most

LEMMA IndexAt ==
  ASSUME NEW ns, StoreOK(ns), NEW r, Live(ns, r), ~r.const,
         NEW v, NEW lo, NEW hi, v = ns[r.at].var, lo = ns[r.at].lo, hi = ns[r.at].hi
  PROVE  /\ \A s \in SUBSET Vars : v \notin s => Index(ns, r, s) = Index(ns, lo, s)
         /\ \A s \in SUBSET Vars : v \in s => Index(ns, r, s) = Index(ns, hi, s \ {v})
BY IndexLoHi

\* c has the sets of f without v (b = 0) or with it.
Half(L, f, v, b, c) ==
  /\ Operand(L, c) /\ EdgeLevel(L.nodes, c) < LevelOf(v)
  /\ \A s \in SUBSET Vars : v \notin s =>
       Index(L.nodes, c, s) = Index(L.nodes, f, IF b = 0 THEN s ELSE s \cup {v})

\* The two halves of an operand at a variable at or above its root.
LEMMA SideHalves ==
  ASSUME NEW L \in Libraries, StoreOK(L.nodes), TableOK(L.table), NEW f, Operand(L, f),
         NEW v \in Vars, EdgeLevel(L.nodes, f) <= LevelOf(v), NEW b \in {0, 1}
  PROVE  Half(L, f, v, b, Side(L, f, v, b))
<1> DEFINE c == Side(L, f, v, b)
           ns == L.nodes
           d == ns[f.at]
           with(s) == IF b = 0 THEN s ELSE s \cup {v}
<1>0. /\ Live(ns, f) /\ f \in Edges /\ EdgeLevel(ns, f) \in Nat /\ LevelOf(v) \in Nat
      /\ Len(L.table) \in Nat /\ Len(L.table) >= 1 /\ \A s \in SUBSET Vars : Index(ns, f, s) < Len(L.table)
  <2>1. Live(ns, f) /\ \A s \in SUBSET Vars : Index(ns, f, s) < Len(L.table)
    BY DEF Operand, Valued
  <2>2. f \in Edges /\ EdgeLevel(ns, f) \in Nat
    <3>1. StoreOK(ns)
      OBVIOUS
    <3> HIDE DEF ns
    <3>2. f \in Edges /\ EdgeLevel(ns, f) \in 0..Height
      BY <2>1, <3>1, LiveLevel
    <3>3. QED
      BY <3>2, HeightNat
  <2>3. LevelOf(v) \in Nat
    BY Levels
  <2>4. Len(L.table) \in Nat /\ Len(L.table) >= 1
    BY DEF TableOK
  <2>5. QED
    BY <2>1, <2>2, <2>3, <2>4
<1>1. CASE ~f.const /\ d.var = v
  <2>1. c = IF b = 0 THEN d.lo ELSE d.hi
    BY <1>1 DEF Side
  <2>2. /\ EdgeLevel(ns, f) = LevelOf(v)
        /\ Live(ns, d.lo) /\ EdgeLevel(ns, d.lo) < EdgeLevel(ns, f)
        /\ Live(ns, d.hi) /\ EdgeLevel(ns, d.hi) < EdgeLevel(ns, f)
    BY <1>0, <1>1, LiveNode
  <2>3. Live(ns, c) /\ EdgeLevel(ns, c) < LevelOf(v)
    <3>1. CASE b = 0
      BY <2>1, <2>2, <3>1
    <3>2. CASE b = 1
      BY <2>1, <2>2, <3>2
    <3>3. QED
      BY <3>1, <3>2
  <2>7. /\ \A s \in SUBSET Vars : v \notin s => Index(ns, f, s) = Index(ns, d.lo, s)
        /\ \A s \in SUBSET Vars : v \in s => Index(ns, f, s) = Index(ns, d.hi, s \ {v})
    <3>1. StoreOK(ns) /\ Live(ns, f) /\ ~f.const /\ v = ns[f.at].var
      BY <1>0, <1>1
    <3> HIDE DEF ns
    <3>2. QED
      <4>1. PICK w : w = ns[f.at].var
        OBVIOUS
      <4>2. /\ \A s \in SUBSET Vars : w \notin s => Index(ns, f, s) = Index(ns, ns[f.at].lo, s)
            /\ \A s \in SUBSET Vars : w \in s => Index(ns, f, s) = Index(ns, ns[f.at].hi, s \ {w})
        BY <3>1, <4>1, IndexLoHi
      <4>3. QED
        BY <3>1, <4>1, <4>2 DEF d
  <2>4. ASSUME NEW s \in SUBSET Vars, v \notin s
        PROVE  Index(ns, c, s) = Index(ns, f, with(s))
    <3>1. CASE b = 0
      <4>1. Index(ns, f, s) = Index(ns, d.lo, s)
        BY <2>4, <2>7
      <4>2. QED
        BY <2>1, <3>1, <4>1
    <3>2. CASE b = 1
      <4>1. s \cup {v} \in SUBSET Vars /\ v \in s \cup {v} /\ (s \cup {v}) \ {v} = s
        BY <2>4
      <4>2. Index(ns, f, s \cup {v}) = Index(ns, d.hi, s)
        BY <2>7, <4>1
      <4>3. QED
        BY <2>1, <3>2, <4>2
    <3>3. QED
      BY <3>1, <3>2
  <2>5. ASSUME NEW s \in SUBSET Vars
        PROVE  Index(ns, c, s) < Len(L.table)
    <3>1. CASE v \in s
      <4>1. c \in Edges
        BY <2>3 DEF Live
      <4>2. Index(ns, c, s) = 0
        BY <2>3, <3>1, <4>1, IndexAbove
      <4>3. QED
        BY <1>0, <4>2
    <3>2. CASE v \notin s
      <4>1. with(s) \in SUBSET Vars
        OBVIOUS
      <4>2. QED
        BY <1>0, <2>4, <3>2, <4>1
    <3>3. QED
      BY <3>1, <3>2
  <2> HIDE DEF c
  <2>6. QED
    BY <2>3, <2>4, <2>5 DEF Operand, Valued, c, Half
<1>2. CASE f.const \/ d.var # v
  <2>1. EdgeLevel(ns, f) < LevelOf(v)
    <3>1. CASE f.const
      <4>1. EdgeLevel(ns, f) = 0 /\ LevelOf(v) \in 1..Height
        BY <3>1, Levels DEF EdgeLevel
      <4>2. QED
        BY <4>1, HeightNat
    <3>2. CASE ~f.const
      <4>1. d.var \in Vars /\ EdgeLevel(ns, f) = LevelOf(d.var) /\ d.var # v
        BY <1>0, <1>2, <3>2, LiveNode
      <4>2. EdgeLevel(ns, f) # LevelOf(v)
        BY <4>1, Levels
      <4>3. QED
        BY <1>0, <4>2
    <3>3. QED
      BY <3>1, <3>2
  <2>2. c = IF b = 0 THEN f ELSE Const(0)
    BY <1>2 DEF Side
  <2>3. CASE b = 0
    BY <2>1, <2>2, <2>3 DEF Half
  <2>4. CASE b = 1
    <3>1. /\ c \in Edges /\ c.const = TRUE /\ c.at = 0 /\ Live(ns, c)
          /\ EdgeLevel(ns, c) = 0
      BY <2>2, <2>4 DEF Const, Edges, Live, EdgeLevel
    <3> HIDE DEF c
    <3>2. \A s \in SUBSET Vars : Index(ns, c, s) = 0
      BY <3>1, IndexConst
    <3>3. Operand(L, c)
      BY <1>0, <3>1, <3>2 DEF Operand, Valued
    <3>4. EdgeLevel(ns, c) < LevelOf(v)
      BY <1>0, <2>1, <3>1
    <3>5. ASSUME NEW s \in SUBSET Vars, v \notin s
          PROVE  Index(ns, f, s \cup {v}) = 0
      <4>1. s \cup {v} \in SUBSET Vars /\ v \in s \cup {v}
        OBVIOUS
      <4>2. QED
        BY <1>0, <2>1, <4>1, IndexAbove
    <3>6. QED
      BY <2>4, <3>2, <3>3, <3>4, <3>5 DEF c, Half
  <2>5. QED
    BY <2>3, <2>4
<1>3. QED
  BY <1>1, <1>2

\* The terminal at the top of both operands.
LEMMA TopVarOf ==
  ASSUME NEW ns, StoreOK(ns), NEW f, Live(ns, f), NEW g, Live(ns, g), ~(f.const /\ g.const)
  PROVE  LET v == VarOf(Most(EdgeLevel(ns, f), EdgeLevel(ns, g)))
         IN  /\ v \in Vars /\ EdgeLevel(ns, f) <= LevelOf(v) /\ EdgeLevel(ns, g) <= LevelOf(v)
             /\ LevelOf(v) = Most(EdgeLevel(ns, f), EdgeLevel(ns, g))
<1> DEFINE x == EdgeLevel(ns, f)
           y == EdgeLevel(ns, g)
<1>1. /\ x \in 0..Height /\ y \in 0..Height
      /\ x = 0 <=> f.const
  BY LiveLevel
<1>2. y = 0 <=> g.const
  BY LiveLevel
<1>3. x # 0 \/ y # 0
  BY <1>1, <1>2
<1> HIDE DEF x, y
<1>4. /\ Most(x, y) \in 1..Height /\ x <= Most(x, y) /\ y <= Most(x, y)
  BY <1>1, <1>3, HeightNat DEF Most
<1>5. VarOf(Most(x, y)) \in Vars /\ LevelOf(VarOf(Most(x, y))) = Most(x, y)
  BY <1>4, Levels
<1>6. QED
  BY <1>4, <1>5 DEF x, y

\* M is L with the result of a cache entry for the operands.
HitOf(L, f, g, code, M) ==
  \E e \in L.cache : e.code = code /\ e.f = f /\ e.g = g /\ M = [L EXCEPT !.r = e.r]

\* The operands are answered from a full table, as terminals or from the cache.
LEMMA ApplyConst ==
  ASSUME NEW n \in Nat, NEW below, NEW L \in Libraries, NEW f \in Edges, NEW g \in Edges,
         NEW op \in Functors, NEW code \in Nat, ~L.full, f.const, g.const
  PROVE  ApplyBy(n, below)[L][f][g][op][code] =
           get_or_insert(L, BinOp(op, ValueAt(L.table, f.at), ValueAt(L.table, g.at)))
BY DEF ApplyBy

LEMMA ApplyCached ==
  ASSUME NEW n \in Nat, NEW below, NEW L \in Libraries, NEW f \in Edges, NEW g \in Edges,
         NEW op \in Functors, NEW code \in Nat, ~L.full, ~(f.const /\ g.const),
         \E e \in L.cache : e.code = code /\ e.f = f /\ e.g = g
  PROVE  HitOf(L, f, g, code, ApplyBy(n, below)[L][f][g][op][code])
<1> DEFINE hits == {e \in L.cache : e.code = code /\ e.f = f /\ e.g = g}
<1>1. hits # {}
  OBVIOUS
<1>2. ApplyBy(n, below)[L][f][g][op][code] = [L EXCEPT !.r = (CHOOSE e \in hits : TRUE).r]
  BY <1>1 DEF ApplyBy
<1>3. (CHOOSE e \in hits : TRUE) \in hits
  BY <1>1
<1>4. QED
  BY <1>2, <1>3 DEF HitOf

\* Else the halves of the operands are applied, lo first.
Entering(code, f, g, made) ==
  IF made.full THEN made
  ELSE [made EXCEPT !.cache = @ \cup {[code |-> code, f |-> f, g |-> g, r |-> made.r]}]

NodeApplied(below, L, f, g, op, code, v) ==
  LET lo == below[L][Side(L, f, v, 0)][Side(L, g, v, 0)][op][code]
      hi == below[lo][Side(L, f, v, 1)][Side(L, g, v, 1)][op][code]
  IN  Entering(code, f, g, getnode_raw(hi, v, lo.r, hi.r))

LEMMA ApplyNode ==
  ASSUME NEW n \in Nat, n # 0, NEW below, NEW L \in Libraries, NEW f \in Edges, NEW g \in Edges,
         NEW op \in Functors, NEW code \in Nat, ~L.full, ~(f.const /\ g.const),
         ~(\E e \in L.cache : e.code = code /\ e.f = f /\ e.g = g)
  PROVE  ApplyBy(n, below)[L][f][g][op][code] =
           NodeApplied(below, L, f, g, op, code, VarOf(Most(EdgeLevel(L.nodes, f), EdgeLevel(L.nodes, g))))
<1>1. {e \in L.cache : e.code = code /\ e.f = f /\ e.g = g} = {}
  OBVIOUS
<1>2. QED
  BY <1>1 DEF ApplyBy, NodeApplied, Entering

ApplyDone(L, M, f, g, op, cd, nx) ==
  /\ After(L, M, cd, nx)
  /\ L.full => M.full
  /\ ~M.full => Applied(M, op, L, f, g)

LEMMA ApplyTerminals ==
  ASSUME NEW cd, NEW nx, NEW L, Good(L, cd, nx), NEW op \in Functors,
         NEW f, Operand(L, f), f.const, NEW g, Operand(L, g), g.const,
         NEW M, M = get_or_insert(L, BinOp(op, ValueAt(L.table, f.at), ValueAt(L.table, g.at)))
  PROVE  ApplyDone(L, M, f, g, op, cd, nx)
<1> DEFINE x == ValueAt(L.table, f.at)
           y == ValueAt(L.table, g.at)
           z == BinOp(op, x, y)
           ns == L.nodes
           tb == L.table
<1>1. L \in Libraries /\ StoreOK(ns) /\ TableOK(tb) /\ CacheOK(ns, tb, L.cache, cd, nx)
  BY DEF Good
<1>2. Live(ns, f) /\ Valued(ns, tb, f) /\ Live(ns, g) /\ Valued(ns, tb, g)
  BY DEF Operand
<1>0. M = get_or_insert(L, z)
  OBVIOUS
<1> HIDE DEF ns, tb, z
<1>3. /\ Value(ns, tb, f, {}) = ValueAt(tb, f.at) /\ Value(ns, tb, f, {}) \in Nat
      /\ Value(ns, tb, g, {}) = ValueAt(tb, g.at) /\ Value(ns, tb, g, {}) \in Nat
  <2>1. {} \in SUBSET Vars
    OBVIOUS
  <2>2. Index(ns, f, {}) = f.at /\ Index(ns, g, {}) = g.at
    BY <1>1, <1>2, <2>1, IndexConst
  <2>3. Value(ns, tb, f, {}) \in Nat
    BY <1>1, <1>2, <2>1, ValueNat
  <2>4. Value(ns, tb, g, {}) \in Nat
    BY <1>1, <1>2, <2>1, ValueNat
  <2>5. QED
    BY <2>2, <2>3, <2>4 DEF Value
<1>4. z \in Nat /\ z = BinOp(op, Value(ns, tb, f, {}), Value(ns, tb, g, {}))
  BY <1>3, BinOpNat DEF tb, z
<1>5. \A s \in SUBSET Vars : s # {} => Value(ns, tb, f, s) = 0 /\ Value(ns, tb, g, s) = 0
  <2> SUFFICES ASSUME NEW s \in SUBSET Vars, s # {}
               PROVE  Value(ns, tb, f, s) = 0 /\ Value(ns, tb, g, s) = 0
    OBVIOUS
  <2>1. Index(ns, f, s) = 0 /\ Index(ns, g, s) = 0
    BY <1>1, <1>2, IndexConst
  <2>2. 0 \in 0..(Len(tb) - 1) /\ tb[0 + 1] = 0
    BY <1>1 DEF TableOK
  <2>3. QED
    BY <2>1, <2>2 DEF Value, ValueAt
<1>6. /\ M \in Libraries /\ M.nodes = ns /\ M.full = L.full
      /\ M.generation = L.generation /\ M.cache = L.cache /\ M.memo = L.memo
      /\ Longer(tb, M.table)
      /\ M.r \in Edges /\ M.r.const = TRUE /\ M.r.at < Len(M.table) /\ M.table[M.r.at + 1] = z
  <2>1. L \in Libraries /\ TableOK(L.table) /\ z \in Nat /\ M = get_or_insert(L, z)
    BY <1>1, <1>4, <1>0 DEF tb
  <2>2. Interned(L, z, M)
    BY <2>1, GetOrInsert
  <2>3. QED
    BY <2>2 DEF ns, tb, Interned
<1>7. TableOK(M.table) /\ Grown(ns, ns) /\ Live(ns, M.r) /\ EdgeLevel(ns, M.r) = 0
  BY <1>1, <1>6 DEF Longer, Grown, Live, EdgeLevel
<1>8. /\ Valued(ns, M.table, M.r)
      /\ \A s \in SUBSET Vars : Value(ns, M.table, M.r, s) = IF s = {} THEN z ELSE 0
  BY <1>1, <1>6, <1>7, ConstValue
<1>9. CacheOK(ns, M.table, L.cache, cd, nx)
  BY <1>1, <1>6, <1>7, CacheKept
<1>10. After(L, M, cd, nx)
  BY <1>1, <1>6, <1>7, <1>9 DEF After, Good, Onward, ns, tb
<1>11. Results(ns, M.table, M.r, op, ns, tb, f, g)
  <2>1. EdgeLevel(ns, f) = 0 /\ EdgeLevel(ns, g) = 0
    BY DEF EdgeLevel
  <2>2. 0 <= Most(0, 0)
    BY DEF Most
  <2>3. BinOp(op, 0, 0) = 0
    BY DEF BinOp, Least, Most
  <2>4. QED
    BY <1>4, <1>5, <1>7, <1>8, <2>1, <2>2, <2>3 DEF Results
<1>12. Applied(M, op, L, f, g)
  BY <1>6, <1>7, <1>8, <1>11 DEF Applied, Operand, ns, tb
<1>13. QED
  BY <1>6, <1>10, <1>12 DEF ApplyDone

LEMMA ApplyHit ==
  ASSUME NEW cd, NEW nx, NEW L, Good(L, cd, nx), NEW op \in Functors, NEW f, NEW g,
         NEW e \in L.cache, e.code = cd[op], e.f = f, e.g = g,
         NEW M, M = [L EXCEPT !.r = e.r]
  PROVE  ApplyDone(L, M, f, g, op, cd, nx)
<1>1. L \in Libraries /\ StoreOK(L.nodes) /\ TableOK(L.table) /\ CacheOK(L.nodes, L.table, L.cache, cd, nx)
  BY DEF Good
<1>2. /\ EntryOK(L.nodes, L.table, e, nx)
      /\ Results(L.nodes, L.table, e.r, op, L.nodes, L.table, f, g)
  BY <1>1 DEF CacheOK
<1>3. e.r \in Edges
  BY <1>2 DEF EntryOK, Live
<1>4. /\ M \in Libraries /\ M.nodes = L.nodes /\ M.table = L.table /\ M.cache = L.cache
      /\ M.generation = L.generation /\ M.memo = L.memo /\ M.full = L.full /\ M.r = e.r
  BY <1>1, <1>3 DEF Libraries
<1>5. Onward(L, M)
  BY <1>1, <1>4, OnwardSame DEF Onward
<1>6. After(L, M, cd, nx)
  BY <1>1, <1>4, <1>5 DEF After, Good
<1>7. Applied(M, op, L, f, g)
  BY <1>2, <1>4 DEF Applied, Operand, EntryOK
<1>8. QED
  BY <1>4, <1>6, <1>7 DEF ApplyDone

\* r has the functor's value of f and g on every set.
HasValues(ns, tb, r, op, L, f, g) ==
  /\ Live(ns, r) /\ Valued(ns, tb, r)
  /\ \A s \in SUBSET Vars :
       Value(ns, tb, r, s) = BinOp(op, Value(L.nodes, L.table, f, s), Value(L.nodes, L.table, g, s))

\* The results for the two halves make the result.
LEMMA ApplyValues ==
  ASSUME NEW L \in Libraries, StoreOK(L.nodes), TableOK(L.table), NEW op \in Functors, NEW v \in Vars,
         NEW f, Operand(L, f), EdgeLevel(L.nodes, f) <= LevelOf(v),
         NEW g, Operand(L, g), EdgeLevel(L.nodes, g) <= LevelOf(v),
         NEW lo, Onward(L, lo), Applied(lo, op, L, Side(L, f, v, 0), Side(L, g, v, 0)),
         NEW hi, Onward(lo, hi), Applied(hi, op, lo, Side(L, f, v, 1), Side(L, g, v, 1)),
         NEW ns, Grown(hi.nodes, ns), NEW r, Joins(ns, r, v, hi.nodes, lo.r, hi.r)
  PROVE  HasValues(ns, hi.table, r, op, L, f, g)
<1> DEFINE f0 == Side(L, f, v, 0)
           f1 == Side(L, f, v, 1)
           g0 == Side(L, g, v, 0)
           g1 == Side(L, g, v, 1)
           ValF(s) == Value(L.nodes, L.table, f, s)
           ValG(s) == Value(L.nodes, L.table, g, s)
<1>1. /\ Operand(L, f0) /\ Operand(L, f1)
      /\ \A s \in SUBSET Vars : v \notin s =>
           /\ Index(L.nodes, f0, s) = Index(L.nodes, f, s)
           /\ Index(L.nodes, f1, s) = Index(L.nodes, f, s \cup {v})
  <2>1. Half(L, f, v, 0, f0) /\ Half(L, f, v, 1, f1)
    BY SideHalves
  <2>2. QED
    BY <2>1 DEF Half
<1>2. /\ Operand(L, g0) /\ Operand(L, g1)
      /\ \A s \in SUBSET Vars : v \notin s =>
           /\ Index(L.nodes, g0, s) = Index(L.nodes, g, s)
           /\ Index(L.nodes, g1, s) = Index(L.nodes, g, s \cup {v})
  <2>1. Half(L, g, v, 0, g0) /\ Half(L, g, v, 1, g1)
    BY SideHalves
  <2>2. QED
    BY <2>1 DEF Half
<1> HIDE DEF f0, f1, g0, g1
<1>3. StoreOK(lo.nodes) /\ TableOK(lo.table) /\ StoreOK(hi.nodes) /\ TableOK(hi.table)
  BY DEF Onward, Grown, Longer
<1>4. /\ Operand(hi, lo.r)
      /\ \A s \in SUBSET Vars : Value(hi.nodes, hi.table, lo.r, s) = Value(lo.nodes, lo.table, lo.r, s)
  BY <1>3, OperandKept DEF Applied
<1>5. \A s \in SUBSET Vars : v \notin s =>
        Value(hi.nodes, hi.table, lo.r, s) = BinOp(op, ValF(s), ValG(s))
  BY <1>1, <1>2, <1>4 DEF Applied, Results, Value, f0, g0
<1>6. \A s \in SUBSET Vars :
        /\ Value(lo.nodes, lo.table, f1, s) = Value(L.nodes, L.table, f1, s)
        /\ Value(lo.nodes, lo.table, g1, s) = Value(L.nodes, L.table, g1, s)
  BY <1>1, <1>2, OperandKept
<1>7. \A s \in SUBSET Vars : v \notin s =>
        Value(hi.nodes, hi.table, hi.r, s) = BinOp(op, ValF(s \cup {v}), ValG(s \cup {v}))
  <2> SUFFICES ASSUME NEW s \in SUBSET Vars, v \notin s
               PROVE  Value(hi.nodes, hi.table, hi.r, s) = BinOp(op, ValF(s \cup {v}), ValG(s \cup {v}))
    OBVIOUS
  <2>1. Value(hi.nodes, hi.table, hi.r, s) =
          BinOp(op, Value(lo.nodes, lo.table, f1, s), Value(lo.nodes, lo.table, g1, s))
    BY DEF Applied, Results, f1, g1
  <2>2. Value(L.nodes, L.table, f1, s) = ValF(s \cup {v}) /\ Value(L.nodes, L.table, g1, s) = ValG(s \cup {v})
    BY <1>1, <1>2 DEF Value
  <2>3. QED
    BY <1>6, <2>1, <2>2
<1>8. Operand(hi, hi.r)
  BY DEF Applied
<1>9. ASSUME NEW s \in SUBSET Vars
      PROVE  /\ Index(ns, r, s) < Len(hi.table)
             /\ Value(ns, hi.table, r, s) = BinOp(op, ValF(s), ValG(s))
  <2>1. CASE v \notin s
    <3>1. Index(ns, r, s) = Index(hi.nodes, lo.r, s)
      BY <2>1 DEF Joins
    <3>2. Index(hi.nodes, lo.r, s) < Len(hi.table)
      BY <1>4 DEF Operand, Valued
    <3>3. QED
      BY <1>5, <2>1, <3>1, <3>2 DEF Value
  <2>2. CASE v \in s
    <3> DEFINE t == s \ {v}
    <3>1. t \in SUBSET Vars /\ v \notin t /\ t \cup {v} = s
      BY <2>2
    <3>2. Index(ns, r, s) = Index(hi.nodes, hi.r, t)
      BY <2>2 DEF Joins
    <3> HIDE DEF t
    <3>3. Index(hi.nodes, hi.r, t) < Len(hi.table)
      BY <1>8, <3>1 DEF Operand, Valued
    <3>4. Value(hi.nodes, hi.table, hi.r, t) = BinOp(op, ValF(s), ValG(s))
      BY <1>7, <3>1
    <3>5. QED
      BY <3>2, <3>3, <3>4 DEF Value
  <2>3. QED
    BY <2>1, <2>2
<1>10. Live(ns, r)
  BY DEF Joins
<1>11. QED
  BY <1>9, <1>10 DEF Valued, HasValues

\* The cache stays right when the result is entered under the functor's code.
LEMMA CacheEntered ==
  ASSUME NEW cd, NEW nx, CodesOK(cd, nx), NEW op \in Functors, cd[op] # 0,
         NEW ns, NEW tb, NEW ch, CacheOK(ns, tb, ch, cd, nx),
         NEW f, Live(ns, f), Valued(ns, tb, f), NEW g, Live(ns, g), Valued(ns, tb, g),
         NEW r, Live(ns, r), Valued(ns, tb, r), Results(ns, tb, r, op, ns, tb, f, g)
  PROVE  CacheOK(ns, tb, ch \cup {[code |-> cd[op], f |-> f, g |-> g, r |-> r]}, cd, nx)
<1> DEFINE e == [code |-> cd[op], f |-> f, g |-> g, r |-> r]
<1>1. e.code = cd[op] /\ e.f = f /\ e.g = g /\ e.r = r
  OBVIOUS
<1> HIDE DEF e
<1>2. EntryOK(ns, tb, e, nx)
  BY <1>1 DEF EntryOK, CodesOK
<1>3. ASSUME NEW o \in Functors, e.code = cd[o]
      PROVE  Results(ns, tb, e.r, o, ns, tb, e.f, e.g)
  <2>1. o = op
    BY <1>1, <1>3 DEF CodesOK
  <2>2. QED
    BY <1>1, <2>1
<1>4. CacheOK(ns, tb, ch \cup {e}, cd, nx)
  BY <1>2, <1>3 DEF CacheOK
<1>5. QED
  BY <1>4 DEF e

LEMMA ResultBelow ==
  ASSUME NEW ns, StoreOK(ns), NEW ms, StoreOK(ms), NEW v \in Vars, NEW tb, NEW ub, NEW op,
         NEW f, Live(ms, f), EdgeLevel(ms, f) < LevelOf(v),
         NEW g, Live(ms, g), EdgeLevel(ms, g) < LevelOf(v),
         NEW r, Live(ns, r), Results(ns, tb, r, op, ms, ub, f, g)
  PROVE  EdgeLevel(ns, r) < LevelOf(v)
<1> DEFINE x == EdgeLevel(ms, f)
           y == EdgeLevel(ms, g)
           z == EdgeLevel(ns, r)
<1>1. x \in Nat /\ LevelOf(v) \in Nat
  BY LiveLevel, HeightNat, Levels
<1>2. y \in Nat
  BY LiveLevel, HeightNat
<1>3. z \in Nat /\ z <= Most(x, y)
  BY LiveLevel, HeightNat DEF Results
<1>4. x < LevelOf(v) /\ y < LevelOf(v)
  OBVIOUS
<1> HIDE DEF x, y, z
<1>5. z < LevelOf(v)
  BY <1>1, <1>2, <1>3, <1>4 DEF Most
<1>6. QED
  BY <1>5 DEF z

LEMMA ApplyHalves ==
  ASSUME NEW cd, NEW nx, CodesOK(cd, nx), NEW L, Good(L, cd, nx), NEW op \in Functors, cd[op] # 0,
         NEW f, Operand(L, f), NEW g, Operand(L, g), NEW v \in Vars,
         EdgeLevel(L.nodes, f) <= LevelOf(v), EdgeLevel(L.nodes, g) <= LevelOf(v),
         LevelOf(v) = Most(EdgeLevel(L.nodes, f), EdgeLevel(L.nodes, g)),
         NEW lo, ApplyDone(L, lo, Side(L, f, v, 0), Side(L, g, v, 0), op, cd, nx),
         NEW hi, ApplyDone(lo, hi, Side(L, f, v, 1), Side(L, g, v, 1), op, cd, nx),
         NEW made, made = getnode_raw(hi, v, lo.r, hi.r),
         NEW M, M = Entering(cd[op], f, g, made), ~L.full
  PROVE  ApplyDone(L, M, f, g, op, cd, nx)
<1>1. L \in Libraries /\ StoreOK(L.nodes) /\ TableOK(L.table)
  BY DEF Good
<1>2. /\ hi \in Libraries /\ StoreOK(hi.nodes) /\ TableOK(hi.table)
      /\ CacheOK(hi.nodes, hi.table, hi.cache, cd, nx) /\ After(lo, hi, cd, nx)
  BY DEF ApplyDone, After, Good
<1>3. Onward(L, lo) /\ Onward(lo, hi) /\ Onward(L, hi)
  <2>1. Onward(L, lo) /\ Onward(lo, hi)
    BY DEF ApplyDone, After
  <2>2. QED
    BY <1>1, <2>1, OnwardTrans
<1>4. CASE hi.full
  <2>1. made = hi /\ M = hi
    BY <1>4 DEF getnode_raw, Entering
  <2>2. QED
    BY <1>2, <1>3, <1>4, <2>1 DEF ApplyDone, After
<1>5. CASE ~hi.full
  <2>1. ~lo.full
    BY <1>5 DEF ApplyDone
  <2>2. Applied(lo, op, L, Side(L, f, v, 0), Side(L, g, v, 0))
    BY <2>1 DEF ApplyDone
  <2>3. Applied(hi, op, lo, Side(L, f, v, 1), Side(L, g, v, 1))
    BY <1>5 DEF ApplyDone
  <2>4. EdgeLevel(lo.nodes, lo.r) < LevelOf(v) /\ Live(lo.nodes, lo.r) /\ StoreOK(lo.nodes)
    <3> DEFINE f0 == Side(L, f, v, 0)
               g0 == Side(L, g, v, 0)
    <3>1. Half(L, f, v, 0, f0) /\ Half(L, g, v, 0, g0)
      BY <1>1, SideHalves
    <3>2. Live(lo.nodes, lo.r) /\ StoreOK(lo.nodes)
      BY <1>3, <2>2 DEF Applied, Operand, Onward, Grown
    <3>3. Results(lo.nodes, lo.table, lo.r, op, L.nodes, L.table, f0, g0)
      BY <2>2 DEF Applied
    <3> HIDE DEF f0, g0
    <3>4. EdgeLevel(lo.nodes, lo.r) < LevelOf(v)
      BY <1>1, <3>1, <3>2, <3>3, ResultBelow DEF Half, Operand
    <3>5. QED
      BY <3>2, <3>4
  <2>5. Live(hi.nodes, lo.r) /\ EdgeLevel(hi.nodes, lo.r) < LevelOf(v)
    BY <1>3, <2>4, GrownKeeps DEF Onward
  <2>6. Live(hi.nodes, hi.r) /\ EdgeLevel(hi.nodes, hi.r) < LevelOf(v)
    <3> DEFINE f1 == Side(L, f, v, 1)
               g1 == Side(L, g, v, 1)
    <3>1. Half(L, f, v, 1, f1) /\ Half(L, g, v, 1, g1)
      BY <1>1, SideHalves
    <3>2. Results(hi.nodes, hi.table, hi.r, op, lo.nodes, lo.table, f1, g1) /\ Live(hi.nodes, hi.r)
      BY <2>3 DEF Applied, Operand
    <3> HIDE DEF f1, g1
    <3>3. Live(lo.nodes, f1) /\ EdgeLevel(lo.nodes, f1) < LevelOf(v)
      BY <1>1, <1>3, <3>1, OperandKept DEF Half, Operand
    <3>4. Live(lo.nodes, g1) /\ EdgeLevel(lo.nodes, g1) < LevelOf(v)
      BY <1>1, <1>3, <3>1, OperandKept DEF Half, Operand
    <3>5. EdgeLevel(hi.nodes, hi.r) < LevelOf(v)
      BY <1>2, <2>4, <3>2, <3>3, <3>4, ResultBelow
    <3>6. QED
      BY <3>2, <3>5
  <2>7. MadeNode(hi, v, lo.r, hi.r, made)
    BY <1>2, <1>5, <2>5, <2>6, GetNode
  <2>8. /\ made \in Libraries /\ Grown(hi.nodes, made.nodes) /\ StoreOK(made.nodes)
        /\ made.table = hi.table /\ made.cache = hi.cache
        /\ made.generation = hi.generation /\ made.memo = hi.memo
    BY <2>7 DEF MadeNode, SameRest, Grown
  <2>9. Longer(hi.table, made.table)
    BY <1>2, <2>8, OnwardSame DEF Onward
  <2>10. CacheOK(made.nodes, made.table, made.cache, cd, nx)
    BY <1>2, <2>8, <2>9, CacheKept
  <2>11. Onward(L, made)
    <3>1. Onward(hi, made)
      BY <2>8, <2>9 DEF Onward
    <3>2. QED
      BY <1>1, <1>3, <3>1, OnwardTrans
  <2>12. CASE made.full
    <3>1. M = made
      BY <2>12 DEF Entering
    <3>2. QED
      BY <1>2, <2>8, <2>10, <2>11, <2>12, <3>1 DEF ApplyDone, After, Good
  <2>13. CASE ~made.full
    <3> DEFINE e == [code |-> cd[op], f |-> f, g |-> g, r |-> made.r]
    <3>1. Joins(made.nodes, made.r, v, hi.nodes, lo.r, hi.r)
      BY <2>7, <2>13 DEF MadeNode
    <3>2. /\ Live(made.nodes, made.r) /\ Valued(made.nodes, made.table, made.r)
          /\ \A s \in SUBSET Vars :
               Value(made.nodes, made.table, made.r, s) =
                 BinOp(op, Value(L.nodes, L.table, f, s), Value(L.nodes, L.table, g, s))
      <4>1. HasValues(made.nodes, hi.table, made.r, op, L, f, g)
        BY <1>1, <1>3, <2>2, <2>3, <2>8, <3>1, ApplyValues
      <4>2. QED
        BY <2>8, <4>1 DEF HasValues
    <3>3. /\ Operand(made, f) /\ EdgeLevel(made.nodes, f) = EdgeLevel(L.nodes, f)
          /\ \A s \in SUBSET Vars :
               Value(made.nodes, made.table, f, s) = Value(L.nodes, L.table, f, s)
      BY <1>1, <2>11, OperandKept
    <3>4. /\ Operand(made, g) /\ EdgeLevel(made.nodes, g) = EdgeLevel(L.nodes, g)
          /\ \A s \in SUBSET Vars :
               Value(made.nodes, made.table, g, s) = Value(L.nodes, L.table, g, s)
      BY <1>1, <2>11, OperandKept
    <3>5. EdgeLevel(made.nodes, made.r) <= Most(EdgeLevel(L.nodes, f), EdgeLevel(L.nodes, g))
      BY <3>1 DEF Joins
    <3>6. Results(made.nodes, made.table, made.r, op, L.nodes, L.table, f, g)
      BY <3>2, <3>5 DEF Results
    <3>7. Results(made.nodes, made.table, made.r, op, made.nodes, made.table, f, g)
      BY <3>2, <3>3, <3>4, <3>5 DEF Results
    <3>8. CacheOK(made.nodes, made.table, made.cache \cup {e}, cd, nx)
      BY <2>10, <3>2, <3>3, <3>4, <3>7, CacheEntered DEF Operand
    <3>9. e \in [code : Nat, f : Edges, g : Edges, r : Edges]
      BY <3>2, <3>3, <3>4 DEF CodesOK, Operand, Live
    <3>10. M = [made EXCEPT !.cache = made.cache \cup {e}]
      BY <2>13 DEF Entering
    <3> HIDE DEF e
    <3>11. /\ M \in Libraries /\ M.nodes = made.nodes /\ M.table = made.table /\ M.full = made.full
           /\ M.cache = made.cache \cup {e} /\ M.r = made.r
           /\ M.generation = made.generation /\ M.memo = made.memo
      <4>1. made \in Libraries
        BY <2>8
      <4>2. /\ M.nodes = made.nodes /\ M.table = made.table /\ M.full = made.full
            /\ M.cache = made.cache \cup {e} /\ M.r = made.r
            /\ M.generation = made.generation /\ M.memo = made.memo
        BY <3>10, <4>1 DEF Libraries
      <4>3. M \in Libraries
        <5>1. made.cache \cup {e} \in SUBSET [code : Nat, f : Edges, g : Edges, r : Edges]
          BY <3>9, <4>1 DEF Libraries
        <5>2. QED
          BY <3>10, <4>1, <5>1 DEF Libraries
      <4>4. QED
        BY <4>2, <4>3
    <3>12. After(L, M, cd, nx)
      BY <1>2, <2>8, <2>11, <3>8, <3>11 DEF After, Good, Onward
    <3>13. Applied(M, op, L, f, g)
      BY <3>2, <3>6, <3>11 DEF Applied, Operand
    <3>14. QED
      BY <3>12, <3>13 DEF ApplyDone
  <2>14. QED
    BY <2>12, <2>13
<1>6. QED
  BY <1>4, <1>5

ApplyKeeps(n, cd, nx) ==
  \A L \in Libraries, f \in Edges, g \in Edges, op \in Functors :
    (/\ Good(L, cd, nx) /\ Operand(L, f) /\ Operand(L, g) /\ cd[op] # 0
     /\ EdgeLevel(L.nodes, f) <= n /\ EdgeLevel(L.nodes, g) <= n) =>
      ApplyDone(L, mtzdd_apply_rec[n][L][f][g][op][cd[op]], f, g, op, cd, nx)

\* Without a node on either side nothing is left to the levels below.
LEMMA ApplyFlat ==
  ASSUME NEW cd, NEW nx, CodesOK(cd, nx), NEW n \in Nat, NEW below,
         NEW L \in Libraries, Good(L, cd, nx), NEW op \in Functors, cd[op] # 0,
         NEW f \in Edges, Operand(L, f), NEW g \in Edges, Operand(L, g),
         NEW M, M = ApplyBy(n, below)[L][f][g][op][cd[op]],
         \/ L.full \/ (f.const /\ g.const)
         \/ \E e \in L.cache : e.code = cd[op] /\ e.f = f /\ e.g = g
  PROVE  ApplyDone(L, M, f, g, op, cd, nx)
<1>1. /\ StoreOK(L.nodes) /\ TableOK(L.table) /\ cd[op] \in Nat
  BY DEF Good, CodesOK
<1>2. CASE L.full
  <2>1. M = L
    BY <1>1, <1>2 DEF ApplyBy
  <2>2. Onward(L, L)
    BY <1>1, OnwardSame
  <2>3. QED
    BY <1>2, <2>1, <2>2 DEF ApplyDone, After
<1>3. CASE ~L.full /\ f.const /\ g.const
  <2>1. M = get_or_insert(L, BinOp(op, ValueAt(L.table, f.at), ValueAt(L.table, g.at)))
    BY <1>1, <1>3, ApplyConst
  <2>2. QED
    BY <1>3, <2>1, ApplyTerminals
<1>4. CASE ~L.full /\ ~(f.const /\ g.const)
  <2>1. HitOf(L, f, g, cd[op], M)
    BY <1>1, <1>4, ApplyCached
  <2>2. QED
    BY <2>1, ApplyHit DEF HitOf
<1>5. QED
  BY <1>2, <1>3, <1>4

LEMMA ApplyStep ==
  ASSUME NEW cd, NEW nx, CodesOK(cd, nx), NEW n \in Nat, ApplyKeeps(n, cd, nx)
  PROVE  ApplyKeeps(n + 1, cd, nx)
<1> SUFFICES ASSUME NEW L \in Libraries, NEW f \in Edges, NEW g \in Edges, NEW op \in Functors,
                    Good(L, cd, nx), Operand(L, f), Operand(L, g), cd[op] # 0,
                    EdgeLevel(L.nodes, f) <= n + 1, EdgeLevel(L.nodes, g) <= n + 1
             PROVE  ApplyDone(L, mtzdd_apply_rec[n + 1][L][f][g][op][cd[op]], f, g, op, cd, nx)
  BY DEF ApplyKeeps
<1> DEFINE below == mtzdd_apply_rec[n]
           M == ApplyBy(n + 1, below)[L][f][g][op][cd[op]]
<1>1. mtzdd_apply_rec[n + 1][L][f][g][op][cd[op]] = M
  BY ApplyUnfolds
<1>2. n + 1 \in Nat /\ n + 1 # 0
  OBVIOUS
<1>3. /\ StoreOK(L.nodes) /\ TableOK(L.table) /\ cd[op] \in Nat
  BY DEF Good, CodesOK
<1>4. CASE \/ L.full \/ (f.const /\ g.const)
           \/ \E e \in L.cache : e.code = cd[op] /\ e.f = f /\ e.g = g
  <2>1. ApplyDone(L, M, f, g, op, cd, nx)
    BY <1>2, <1>4, ApplyFlat
  <2>2. QED
    BY <1>1, <2>1
<1>5. CASE /\ ~L.full /\ ~(f.const /\ g.const)
           /\ ~(\E e \in L.cache : e.code = cd[op] /\ e.f = f /\ e.g = g)
  <2> DEFINE v == VarOf(Most(EdgeLevel(L.nodes, f), EdgeLevel(L.nodes, g)))
             f0 == Side(L, f, v, 0)
             g0 == Side(L, g, v, 0)
             f1 == Side(L, f, v, 1)
             g1 == Side(L, g, v, 1)
             lo == below[L][f0][g0][op][cd[op]]
             hi == below[lo][f1][g1][op][cd[op]]
             made == getnode_raw(hi, v, lo.r, hi.r)
  <2>1. M = Entering(cd[op], f, g, made)
    <3>1. M = NodeApplied(below, L, f, g, op, cd[op], v)
      BY <1>2, <1>3, <1>5, ApplyNode
    <3>2. QED
      BY <3>1 DEF NodeApplied
  <2>2. /\ v \in Vars /\ EdgeLevel(L.nodes, f) <= LevelOf(v) /\ EdgeLevel(L.nodes, g) <= LevelOf(v)
        /\ LevelOf(v) = Most(EdgeLevel(L.nodes, f), EdgeLevel(L.nodes, g))
    BY <1>3, <1>5, TopVarOf DEF Operand
  <2>3. LevelOf(v) <= n + 1 /\ LevelOf(v) \in Nat
    <3>1. LevelOf(v) = EdgeLevel(L.nodes, f) \/ LevelOf(v) = EdgeLevel(L.nodes, g)
      BY <2>2 DEF Most
    <3> HIDE DEF v
    <3>2. LevelOf(v) \in Nat
      BY <2>2, Levels
    <3>3. QED
      BY <3>1, <3>2
  <2> HIDE DEF v
  <2>4. Half(L, f, v, 0, f0) /\ Half(L, g, v, 0, g0) /\ Half(L, f, v, 1, f1) /\ Half(L, g, v, 1, g1)
    BY <1>3, <2>2, SideHalves
  <2> HIDE DEF f0, g0, f1, g1
  <2>5. ASSUME NEW N, StoreOK(N.nodes), NEW c, Operand(N, c), EdgeLevel(N.nodes, c) < LevelOf(v)
        PROVE  c \in Edges /\ EdgeLevel(N.nodes, c) <= n
    <3>1. Live(N.nodes, c)
      BY <2>5 DEF Operand
    <3>2. EdgeLevel(N.nodes, c) \in 0..Height /\ c \in Edges
      BY <2>5, <3>1, LiveLevel
    <3>3. QED
      BY <2>3, <2>5, <3>2, HeightNat
  <2>6. ApplyDone(L, lo, f0, g0, op, cd, nx)
    <3>1. /\ Operand(L, f0) /\ EdgeLevel(L.nodes, f0) < LevelOf(v)
          /\ Operand(L, g0) /\ EdgeLevel(L.nodes, g0) < LevelOf(v)
      BY <2>4 DEF Half
    <3>2. f0 \in Edges /\ EdgeLevel(L.nodes, f0) <= n /\ g0 \in Edges /\ EdgeLevel(L.nodes, g0) <= n
      BY <1>3, <2>5, <3>1
    <3>3. QED
      BY <3>1, <3>2 DEF ApplyKeeps
  <2> HIDE DEF lo
  <2>7. Onward(L, lo) /\ Good(lo, cd, nx) /\ lo \in Libraries /\ StoreOK(lo.nodes)
    BY <2>6 DEF ApplyDone, After, Good
  <2>8. ApplyDone(lo, hi, f1, g1, op, cd, nx)
    <3>1. Operand(lo, f1) /\ EdgeLevel(lo.nodes, f1) < LevelOf(v)
      BY <1>3, <2>4, <2>7, OperandKept DEF Half
    <3>2. Operand(lo, g1) /\ EdgeLevel(lo.nodes, g1) < LevelOf(v)
      BY <1>3, <2>4, <2>7, OperandKept DEF Half
    <3>3. f1 \in Edges /\ EdgeLevel(lo.nodes, f1) <= n /\ g1 \in Edges /\ EdgeLevel(lo.nodes, g1) <= n
      BY <2>5, <2>7, <3>1, <3>2
    <3>4. QED
      BY <2>7, <3>1, <3>2, <3>3 DEF ApplyKeeps
  <2> HIDE DEF hi, made, M
  <2>9. /\ ApplyDone(L, lo, Side(L, f, v, 0), Side(L, g, v, 0), op, cd, nx)
        /\ ApplyDone(lo, hi, Side(L, f, v, 1), Side(L, g, v, 1), op, cd, nx)
        /\ made = getnode_raw(hi, v, lo.r, hi.r)
    BY <2>6, <2>8 DEF f0, g0, f1, g1, made
  <2>10. ApplyDone(L, M, f, g, op, cd, nx)
    BY <1>5, <2>1, <2>2, <2>9, ApplyHalves
  <2>11. QED
    BY <1>1, <2>10
<1>6. QED
  BY <1>4, <1>5

LEMMA ApplyRight ==
  ASSUME NEW cd, NEW nx, CodesOK(cd, nx)
  PROVE  \A n \in Nat : ApplyKeeps(n, cd, nx)
<1> DEFINE S == {n \in Nat : ApplyKeeps(n, cd, nx)}
<1>1. ApplyKeeps(0, cd, nx)
  <2> SUFFICES ASSUME NEW L \in Libraries, NEW f \in Edges, NEW g \in Edges, NEW op \in Functors,
                      Good(L, cd, nx), Operand(L, f), Operand(L, g), cd[op] # 0,
                      EdgeLevel(L.nodes, f) <= 0, EdgeLevel(L.nodes, g) <= 0
               PROVE  ApplyDone(L, mtzdd_apply_rec[0][L][f][g][op][cd[op]], f, g, op, cd, nx)
    BY DEF ApplyKeeps
  <2>1. StoreOK(L.nodes) /\ Live(L.nodes, f) /\ Live(L.nodes, g)
    BY DEF Good, Operand
  <2>2. f.const
    BY <2>1, LiveLevel, HeightNat
  <2>3. g.const
    BY <2>1, LiveLevel, HeightNat
  <2>4. mtzdd_apply_rec[0] = ApplyBy(0, <<>>)
    BY ApplyUnfolds
  <2>5. ApplyDone(L, ApplyBy(0, <<>>)[L][f][g][op][cd[op]], f, g, op, cd, nx)
    BY <2>2, <2>3, ApplyFlat
  <2>6. QED
    BY <2>4, <2>5
<1>2. 0 \in S /\ \A n \in Nat : n \in S => n + 1 \in S
  BY <1>1, ApplyStep
<1> HIDE DEF S
<1>3. Nat \subseteq S
  BY <1>2, Induct
<1>4. QED
  BY <1>3 DEF S

-----------------------------------------------------------------------------
(***************************************************************************)
(* A call as a whole: what the roots R reach is carried from the store it  *)
(* begins with to the store it leaves, through collections and new nodes.  *)
(***************************************************************************)
Carried(ns, ms, R) ==
  /\ StoreOK(ms)
  /\ \E K \in SUBSET Slots : Same(ns, ms, K) /\ \A c \in R : Within(c, K)

LEMMA CarriedKeeps ==
  ASSUME NEW ns, StoreOK(ns), NEW ms, NEW R, Carried(ns, ms, R), NEW r \in R, Live(ns, r)
  PROVE  /\ Live(ms, r) /\ EdgeLevel(ms, r) = EdgeLevel(ns, r)
         /\ \A s \in SUBSET Vars : Index(ms, r, s) = Index(ns, r, s)
<1>1. StoreOK(ms) /\ r \in Edges
  BY DEF Carried, Live
<1>2. PICK K \in SUBSET Slots : Same(ns, ms, K) /\ Within(r, K)
  BY DEF Carried
<1>3. QED
  BY <1>1, <1>2, IndexKept

LEMMA CarriedTrans ==
  ASSUME NEW ns, NEW ms, NEW ls, NEW R, Carried(ns, ms, R), Carried(ms, ls, R)
  PROVE  Carried(ns, ls, R)
<1>1. PICK K \in SUBSET Slots : Same(ns, ms, K) /\ \A c \in R : Within(c, K)
  BY DEF Carried
<1>2. PICK J \in SUBSET Slots : Same(ms, ls, J) /\ \A c \in R : Within(c, J)
  BY DEF Carried
<1>3. \A t \in K \cap J : ns[t] # Free /\ ms[t] = ns[t] /\ ls[t] = ns[t]
  BY <1>1, <1>2 DEF Same
<1>4. Closed(ns, K \cap J)
  <2> SUFFICES ASSUME NEW t \in K \cap J, NEW c \in {ns[t].lo, ns[t].hi}, ~c.const
               PROVE  c.at \in K \cap J
    BY DEF Closed
  <2>1. c.at \in K
    BY <1>1 DEF Same, Closed
  <2>2. c.at \in J
    BY <1>2, <1>3 DEF Same, Closed
  <2>3. QED
    BY <2>1, <2>2
<1>5. Same(ns, ls, K \cap J)
  BY <1>3, <1>4 DEF Same
<1>6. \A c \in R : Within(c, K \cap J)
  BY <1>1, <1>2 DEF Within
<1>7. QED
  BY <1>5, <1>6 DEF Carried

LEMMA CarriedGrown ==
  ASSUME NEW ns, StoreOK(ns), NEW ms, Grown(ns, ms), NEW R, \A c \in R : Live(ns, c)
  PROVE  Carried(ns, ms, R)
<1> DEFINE K == {t \in Slots : ns[t] # Free}
<1>1. Same(ns, ms, K) /\ \A c \in R : Within(c, K)
  BY GrownSame
<1>2. K \in SUBSET Slots /\ StoreOK(ms)
  BY DEF Grown
<1> HIDE DEF K
<1>3. QED
  BY <1>1, <1>2 DEF Carried

\* What a diagram of the roots reaches is still there.
LEMMA CarriedReaches ==
  ASSUME NEW ns, NEW ms, NEW R, Carried(ns, ms, R), NEW f \in R
  PROVE  /\ Reach(ns, {f}) \subseteq Reach(ms, {f})
         /\ \A t \in Reach(ns, {f}) : ns[t] # Free /\ ms[t] = ns[t]
<1>1. PICK K \in SUBSET Slots : Same(ns, ms, K) /\ Within(f, K)
  BY DEF Carried
<1>2. Reach(ns, {f}) \subseteq Reach(ms, {f})
  BY <1>1, ReachKept
<1>3. Reach(ns, {f}) \subseteq K
  BY <1>1, ReachLeast DEF Same
<1>4. QED
  BY <1>1, <1>2, <1>3 DEF Same

\* The children of the nodes of a store lead to its slots.
LEMMA StoreEdges ==
  ASSUME NEW ns, StoreOK(ns)
  PROVE  /\ \A t \in Slots : ns[t].lo.const \/ ns[t].lo.at \in Slots
         /\ \A t \in Slots : ns[t].hi.const \/ ns[t].hi.at \in Slots
<1> SUFFICES ASSUME NEW t \in Slots
             PROVE  /\ ns[t].lo.const \/ ns[t].lo.at \in Slots
                    /\ ns[t].hi.const \/ ns[t].hi.at \in Slots
  OBVIOUS
<1>1. CASE ns[t] = Free
  BY <1>1 DEF Free, Const
<1>2. CASE ns[t] # Free
  BY <1>2 DEF StoreOK, Live
<1>3. QED
  BY <1>1, <1>2

\* The slots that are not reached from R become free.
LEMMA Swept ==
  ASSUME NEW ns, StoreOK(ns), NEW R, \A c \in R : Live(ns, c),
         NEW ms \in Stores, \A t \in Slots : ms[t] = IF t \in Reach(ns, R) THEN ns[t] ELSE Free
  PROVE  Carried(ns, ms, R)
<1> DEFINE K == Reach(ns, R)
           U == {t \in Slots : ns[t] # Free}
<1>1. K \subseteq Slots /\ Closed(ns, K) /\ \A c \in R : Within(c, K)
  BY StoreEdges, ReachClosed DEF Live
<1>2. K \subseteq U
  <2>1. U \subseteq Slots /\ Closed(ns, U)
    BY DEF StoreOK, Live, Closed
  <2>2. \A c \in R : Within(c, U)
    BY DEF Live, Within
  <2> HIDE DEF U
  <2>3. QED
    BY <2>1, <2>2, ReachLeast
<1>3. \A t \in K : ns[t] # Free /\ ms[t] = ns[t]
  BY <1>1, <1>2
<1>4. \A t \in Slots : ms[t] # Free => t \in K
  OBVIOUS
<1> HIDE DEF K, U
<1>5. Same(ns, ms, K)
  BY <1>1, <1>3 DEF Same
<1>6. ASSUME NEW t \in Slots, ms[t] # Free
      PROVE  /\ ms[t].var \in Vars
             /\ Live(ms, ms[t].lo) /\ EdgeLevel(ms, ms[t].lo) < LevelOf(ms[t].var)
             /\ Live(ms, ms[t].hi) /\ EdgeLevel(ms, ms[t].hi) < LevelOf(ms[t].var)
  <2>1. t \in K /\ ms[t] = ns[t] /\ ns[t] # Free
    BY <1>3, <1>4, <1>6
  <2>2. /\ ns[t].var \in Vars
        /\ Live(ns, ns[t].lo) /\ EdgeLevel(ns, ns[t].lo) < LevelOf(ns[t].var)
        /\ Live(ns, ns[t].hi) /\ EdgeLevel(ns, ns[t].hi) < LevelOf(ns[t].var)
    BY <2>1 DEF StoreOK
  <2>3. \A c \in {ns[t].lo, ns[t].hi} : c.const \/ (c.at \in K /\ ms[c.at] = ns[c.at] /\ ns[c.at] # Free)
    BY <1>1, <1>3, <2>1 DEF Closed
  <2>4. \A c \in {ns[t].lo, ns[t].hi} : Live(ns, c) => Live(ms, c) /\ EdgeLevel(ms, c) = EdgeLevel(ns, c)
    BY <1>1, <2>3 DEF Live, EdgeLevel
  <2>5. Live(ms, ns[t].lo) /\ EdgeLevel(ms, ns[t].lo) < LevelOf(ns[t].var)
    BY <2>2, <2>4
  <2>6. Live(ms, ns[t].hi) /\ EdgeLevel(ms, ns[t].hi) < LevelOf(ns[t].var)
    BY <2>2, <2>4
  <2>7. QED
    BY <2>1, <2>2, <2>5, <2>6
<1>7. StoreOK(ms)
  BY <1>6 DEF StoreOK
<1>8. QED
  BY <1>1, <1>5, <1>7 DEF Carried

Roots == {held[o].r : o \in Objects}

\* M is what a collection makes of L.
Collected(L, M) ==
  /\ M \in Libraries /\ Carried(L.nodes, M.nodes, Roots)
  /\ M.cache = {} /\ M.generation = L.generation + 1 /\ M.full = FALSE
  /\ M.table = L.table /\ M.memo = L.memo /\ M.converted = L.converted /\ M.r = L.r

LEMMA GcCollects ==
  ASSUME NEW L \in Libraries, StoreOK(L.nodes), \A c \in Roots : Live(L.nodes, c),
         NEW M, M = bddgc(L)
  PROVE  Collected(L, M)
<1> DEFINE ns == L.nodes
           ms == [t \in Slots |-> IF t \in Reach(L.nodes, Roots) THEN ns[t] ELSE Free]
<1>1. ns \in Stores /\ ns \in [Slots -> [var : Nat, lo : Edges, hi : Edges]]
  BY DEF StoreOK, Stores
<1>2. Free \in [var : Nat, lo : Edges, hi : Edges]
  BY DEF Free, Const, Edges
<1>3. ms \in Stores /\ \A t \in Slots : ms[t] = IF t \in Reach(ns, Roots) THEN ns[t] ELSE Free
  BY <1>1, <1>2 DEF Stores
<1>4. M = [L EXCEPT !.nodes = ms, !.cache = {}, !.generation = L.generation + 1, !.full = FALSE]
  BY DEF bddgc, Roots
<1> HIDE DEF ms
<1>5. Carried(ns, ms, Roots)
  BY <1>3, Swept
<1>6. /\ M \in Libraries /\ M.nodes = ms
      /\ M.cache = {} /\ M.generation = L.generation + 1 /\ M.full = FALSE
      /\ M.table = L.table /\ M.memo = L.memo /\ M.converted = L.converted /\ M.r = L.r
  <2> DEFINE g == L.generation + 1
  <2>1. g \in Nat /\ {} \in SUBSET [code : Nat, f : Edges, g : Edges, r : Edges]
    BY DEF Libraries
  <2>2. M = [L EXCEPT !.nodes = ms, !.cache = {}, !.generation = g, !.full = FALSE]
    BY <1>4
  <2> HIDE DEF g
  <2>3. M \in Libraries /\ M.nodes = ms /\ M.cache = {} /\ M.generation = g
    BY <1>3, <2>1, <2>2 DEF Libraries
  <2>4. /\ M.full = FALSE
        /\ M.table = L.table /\ M.memo = L.memo /\ M.converted = L.converted /\ M.r = L.r
    BY <2>2 DEF Libraries
  <2>5. QED
    BY <2>3, <2>4 DEF g
<1>7. QED
  BY <1>5, <1>6 DEF Collected

-----------------------------------------------------------------------------
(***************************************************************************)
(* The conversion of threshold_gt: the result has the sets whose index is  *)
(* in pred, and so have the edges the memo of the conversion leads to.     *)
(***************************************************************************)
Chosen(ns, r, pred, ms, f) ==
  /\ Live(ns, r) /\ EdgeLevel(ns, r) <= EdgeLevel(ms, f)
  /\ \A s \in SUBSET Vars : Index(ns, r, s) = IF Index(ms, f, s) \in pred THEN 1 ELSE 0

ConvertedOK(ns, map, pred) ==
  \A e \in map : Live(ns, e[1]) /\ Chosen(ns, e[2], pred, ns, e[1])

ZGood(L, pred) == L \in Libraries /\ StoreOK(L.nodes) /\ ConvertedOK(L.nodes, L.converted, pred)

ZOnward(L, M) ==
  /\ Grown(L.nodes, M.nodes) /\ M.generation = L.generation
  /\ M.table = L.table /\ M.cache = L.cache /\ M.memo = L.memo

ZDone(L, M, f, pred) ==
  /\ ZGood(M, pred) /\ ZOnward(L, M)
  /\ L.full => M.full
  /\ ~M.full => Chosen(M.nodes, M.r, pred, L.nodes, f)

LEMMA ConvertedKept ==
  ASSUME NEW ns, StoreOK(ns), NEW ms, Grown(ns, ms), NEW map, NEW pred, ConvertedOK(ns, map, pred)
  PROVE  ConvertedOK(ms, map, pred)
<1> SUFFICES ASSUME NEW e \in map
             PROVE  Live(ms, e[1]) /\ Chosen(ms, e[2], pred, ms, e[1])
  BY DEF ConvertedOK
<1>1. Live(ns, e[1]) /\ Live(ns, e[2]) /\ Chosen(ns, e[2], pred, ns, e[1])
  BY DEF ConvertedOK, Chosen
<1>2. /\ Live(ms, e[1]) /\ EdgeLevel(ms, e[1]) = EdgeLevel(ns, e[1])
      /\ \A s \in SUBSET Vars : Index(ms, e[1], s) = Index(ns, e[1], s)
  BY <1>1, GrownKeeps
<1>3. /\ Live(ms, e[2]) /\ EdgeLevel(ms, e[2]) = EdgeLevel(ns, e[2])
      /\ \A s \in SUBSET Vars : Index(ms, e[2], s) = Index(ns, e[2], s)
  BY <1>1, GrownKeeps
<1>4. QED
  BY <1>1, <1>2, <1>3 DEF Chosen

\* A node that joins what was chosen from the children of a node.
LEMMA ChosenNode ==
  ASSUME NEW ns, StoreOK(ns), NEW f, Live(ns, f), ~f.const,
         NEW v, v = ns[f.at].var, NEW c0, c0 = ns[f.at].lo, NEW c1, c1 = ns[f.at].hi,
         NEW pred, NEW ms, NEW lo, NEW hi,
         \A s \in SUBSET Vars : Index(ms, lo, s) = IF Index(ns, c0, s) \in pred THEN 1 ELSE 0,
         \A s \in SUBSET Vars : Index(ms, hi, s) = IF Index(ns, c1, s) \in pred THEN 1 ELSE 0,
         NEW ls, NEW r, Joins(ls, r, v, ms, lo, hi)
  PROVE  Chosen(ls, r, pred, ns, f)
<1>1. /\ \A s \in SUBSET Vars : v \notin s => Index(ns, f, s) = Index(ns, c0, s)
      /\ \A s \in SUBSET Vars : v \in s => Index(ns, f, s) = Index(ns, c1, s \ {v})
  BY IndexAt
<1>2. EdgeLevel(ns, f) = LevelOf(v)
  BY LiveNode
<1>3. ASSUME NEW s \in SUBSET Vars
      PROVE  Index(ls, r, s) = IF Index(ns, f, s) \in pred THEN 1 ELSE 0
  <2>1. CASE v \notin s
    <3>1. Index(ls, r, s) = Index(ms, lo, s)
      BY <2>1 DEF Joins
    <3>2. QED
      BY <1>1, <2>1, <3>1
  <2>2. CASE v \in s
    <3>1. Index(ls, r, s) = Index(ms, hi, s \ {v}) /\ s \ {v} \in SUBSET Vars
      BY <2>2 DEF Joins
    <3>2. QED
      BY <1>1, <2>2, <3>1
  <2>3. QED
    BY <2>1, <2>2
<1>4. QED
  BY <1>2, <1>3 DEF Chosen, Joins

\* The cases of ToZddBy.
LEMMA ToZddConst ==
  ASSUME NEW n \in Nat, NEW below, NEW L \in Libraries, NEW f \in Edges, NEW pred \in SUBSET Nat,
         ~L.full, f.const
  PROVE  ToZddBy(n, below)[L][f][pred] = [L EXCEPT !.r = IF f.at \in pred THEN Const(1) ELSE Const(0)]
BY DEF ToZddBy

FoundIn(L, f, M) == \E e \in L.converted : e[1] = f /\ M = [L EXCEPT !.r = e[2]]

LEMMA ToZddCached ==
  ASSUME NEW n \in Nat, NEW below, NEW L \in Libraries, NEW f \in Edges, NEW pred \in SUBSET Nat,
         ~L.full, ~f.const, \E e \in L.converted : e[1] = f
  PROVE  FoundIn(L, f, ToZddBy(n, below)[L][f][pred])
<1> DEFINE hits == {e \in L.converted : e[1] = f}
<1>1. hits # {}
  OBVIOUS
<1>2. ToZddBy(n, below)[L][f][pred] = [L EXCEPT !.r = (CHOOSE e \in hits : TRUE)[2]]
  BY <1>1 DEF ToZddBy
<1>3. (CHOOSE e \in hits : TRUE) \in hits
  BY <1>1
<1>4. QED
  BY <1>2, <1>3 DEF FoundIn

Converting(f, made) ==
  IF made.full THEN made ELSE [made EXCEPT !.converted = @ \cup {<<f, made.r>>}]

NodeConverted(below, L, f, pred) ==
  LET d == L.nodes[f.at]
      lo == below[L][d.lo][pred]
      hi == below[lo][d.hi][pred]
  IN  Converting(f, getnode_raw(hi, d.var, lo.r, hi.r))

LEMMA ToZddNode ==
  ASSUME NEW n \in Nat, n # 0, NEW below, NEW L \in Libraries, NEW f \in Edges, NEW pred \in SUBSET Nat,
         ~L.full, ~f.const, ~(\E e \in L.converted : e[1] = f)
  PROVE  ToZddBy(n, below)[L][f][pred] = NodeConverted(below, L, f, pred)
<1>1. {e \in L.converted : e[1] = f} = {}
  OBVIOUS
<1>2. QED
  BY <1>1 DEF ToZddBy, NodeConverted, Converting

LEMMA ZOnwardTrans ==
  ASSUME NEW L, NEW M, NEW N, ZOnward(L, M), ZOnward(M, N)
  PROVE  ZOnward(L, N)
<1>1. Grown(L.nodes, N.nodes)
  BY GrownTrans DEF ZOnward
<1>2. QED
  BY <1>1 DEF ZOnward

\* The results for the children make the result for the node.
LEMMA ToZddHalves ==
  ASSUME NEW pred \in SUBSET Nat, NEW L, ZGood(L, pred), ~L.full,
         NEW f, Live(L.nodes, f), ~f.const,
         NEW v, v = L.nodes[f.at].var, NEW c0, c0 = L.nodes[f.at].lo, NEW c1, c1 = L.nodes[f.at].hi,
         NEW lo, ZDone(L, lo, c0, pred), NEW hi, ZDone(lo, hi, c1, pred),
         NEW made, made = getnode_raw(hi, v, lo.r, hi.r), NEW M, M = Converting(f, made)
  PROVE  ZDone(L, M, f, pred)
<1>1. StoreOK(L.nodes)
  BY DEF ZGood
<1>2. hi \in Libraries /\ StoreOK(hi.nodes) /\ ConvertedOK(hi.nodes, hi.converted, pred) /\ ZGood(hi, pred)
  BY DEF ZDone, ZGood
<1>3. ZOnward(L, lo) /\ ZOnward(lo, hi) /\ ZOnward(L, hi)
  <2>1. ZOnward(L, lo) /\ ZOnward(lo, hi)
    BY DEF ZDone
  <2>2. QED
    BY <2>1, ZOnwardTrans
<1>4. CASE hi.full
  <2>1. made = hi /\ M = hi
    BY <1>4 DEF getnode_raw, Converting
  <2>2. QED
    BY <1>2, <1>3, <1>4, <2>1 DEF ZDone
<1>5. CASE ~hi.full
  <2>1. ~lo.full
    BY <1>5 DEF ZDone
  <2>2. Chosen(lo.nodes, lo.r, pred, L.nodes, c0) /\ Chosen(hi.nodes, hi.r, pred, lo.nodes, c1)
    BY <1>5, <2>1 DEF ZDone
  <2>3. /\ v \in Vars /\ EdgeLevel(L.nodes, f) = LevelOf(v)
        /\ Live(L.nodes, c0) /\ EdgeLevel(L.nodes, c0) < LevelOf(v)
        /\ Live(L.nodes, c1) /\ EdgeLevel(L.nodes, c1) < LevelOf(v)
    <3>1. /\ L.nodes[f.at].var \in Vars
          /\ EdgeLevel(L.nodes, f) = LevelOf(L.nodes[f.at].var)
      BY <1>1, LiveNode
    <3>2. Live(L.nodes, L.nodes[f.at].lo) /\ EdgeLevel(L.nodes, L.nodes[f.at].lo) < EdgeLevel(L.nodes, f)
      BY <1>1, LiveNode
    <3>3. Live(L.nodes, L.nodes[f.at].hi) /\ EdgeLevel(L.nodes, L.nodes[f.at].hi) < EdgeLevel(L.nodes, f)
      BY <1>1, LiveNode
    <3>4. QED
      BY <3>1, <3>2, <3>3
  <2>4. /\ Live(lo.nodes, c1) /\ EdgeLevel(lo.nodes, c1) = EdgeLevel(L.nodes, c1)
        /\ \A s \in SUBSET Vars : Index(lo.nodes, c1, s) = Index(L.nodes, c1, s)
    BY <1>1, <1>3, <2>3, GrownKeeps DEF ZOnward
  <2>5. StoreOK(lo.nodes) /\ Grown(lo.nodes, hi.nodes) /\ Live(lo.nodes, lo.r)
    BY <1>3, <2>2 DEF ZOnward, Grown, Chosen
  <2>6. /\ Live(hi.nodes, lo.r) /\ EdgeLevel(hi.nodes, lo.r) = EdgeLevel(lo.nodes, lo.r)
        /\ \A s \in SUBSET Vars : Index(hi.nodes, lo.r, s) = Index(lo.nodes, lo.r, s)
    BY <2>5, GrownKeeps
  <2>7. LevelOf(v) \in Nat /\ EdgeLevel(L.nodes, c0) \in Nat /\ EdgeLevel(L.nodes, c1) \in Nat
    <3>1. LevelOf(v) \in Nat
      BY <2>3, Levels
    <3>2. EdgeLevel(L.nodes, c0) \in Nat
      BY <1>1, <2>3, LiveLevel, HeightNat
    <3>3. EdgeLevel(L.nodes, c1) \in Nat
      BY <1>1, <2>3, LiveLevel, HeightNat
    <3>4. QED
      BY <3>1, <3>2, <3>3
  <2>8. EdgeLevel(hi.nodes, lo.r) < LevelOf(v)
    <3>1. EdgeLevel(lo.nodes, lo.r) \in Nat
      BY <2>5, LiveLevel, HeightNat
    <3>2. EdgeLevel(lo.nodes, lo.r) <= EdgeLevel(L.nodes, c0)
      BY <2>2 DEF Chosen
    <3>3. QED
      BY <2>3, <2>6, <2>7, <3>1, <3>2
  <2>9. Live(hi.nodes, hi.r) /\ EdgeLevel(hi.nodes, hi.r) < LevelOf(v)
    <3>1. Live(hi.nodes, hi.r) /\ EdgeLevel(hi.nodes, hi.r) <= EdgeLevel(lo.nodes, c1)
      BY <2>2 DEF Chosen
    <3>2. EdgeLevel(hi.nodes, hi.r) \in Nat
      BY <1>2, <3>1, LiveLevel, HeightNat
    <3>3. QED
      BY <2>3, <2>4, <2>7, <3>1, <3>2
  <2>10. MadeNode(hi, v, lo.r, hi.r, made)
    BY <1>2, <1>5, <2>3, <2>6, <2>8, <2>9, GetNode
  <2>11. /\ made \in Libraries /\ StoreOK(made.nodes) /\ SameRest(hi, made) /\ Grown(hi.nodes, made.nodes)
         /\ ZOnward(hi, made)
    BY <2>10 DEF MadeNode, SameRest, ZOnward, Grown
  <2>12. ZOnward(L, made)
    BY <1>3, <2>11, ZOnwardTrans
  <2>13. ConvertedOK(made.nodes, made.converted, pred)
    <3>1. ConvertedOK(made.nodes, hi.converted, pred)
      BY <1>2, <2>11, ConvertedKept
    <3>2. QED
      BY <2>11, <3>1 DEF SameRest
  <2>14. CASE made.full
    <3>1. M = made
      BY <2>14 DEF Converting
    <3>2. QED
      BY <2>11, <2>12, <2>13, <2>14, <3>1 DEF ZDone, ZGood
  <2>15. CASE ~made.full
    <3> DEFINE e == <<f, made.r>>
    <3>1. Joins(made.nodes, made.r, v, hi.nodes, lo.r, hi.r)
      BY <2>10, <2>15 DEF MadeNode
    <3>2. \A s \in SUBSET Vars : Index(hi.nodes, lo.r, s) = IF Index(L.nodes, c0, s) \in pred THEN 1 ELSE 0
      BY <2>2, <2>6 DEF Chosen
    <3>3. \A s \in SUBSET Vars : Index(hi.nodes, hi.r, s) = IF Index(L.nodes, c1, s) \in pred THEN 1 ELSE 0
      BY <2>2, <2>4 DEF Chosen
    <3>4. Chosen(made.nodes, made.r, pred, L.nodes, f)
      BY <1>1, <3>1, <3>2, <3>3, ChosenNode
    <3>5. /\ Live(made.nodes, f) /\ EdgeLevel(made.nodes, f) = EdgeLevel(L.nodes, f)
          /\ \A s \in SUBSET Vars : Index(made.nodes, f, s) = Index(L.nodes, f, s)
      <4>1. PICK ns, ms : ns = L.nodes /\ ms = made.nodes
        OBVIOUS
      <4>2. StoreOK(ns) /\ Live(ns, f) /\ Grown(ns, ms)
        BY <1>1, <2>12, <4>1 DEF ZOnward
      <4>3. /\ Live(ms, f) /\ EdgeLevel(ms, f) = EdgeLevel(ns, f)
            /\ \A s \in SUBSET Vars : Index(ms, f, s) = Index(ns, f, s)
        BY <4>2, GrownKeeps
      <4>4. QED
        BY <4>1, <4>3
    <3>6. Chosen(made.nodes, made.r, pred, made.nodes, f)
      BY <3>4, <3>5 DEF Chosen
    <3>7. e \in Edges \X Edges /\ e[1] = f /\ e[2] = made.r
      BY <3>4, <3>5 DEF Chosen, Live
    <3>8. M = [made EXCEPT !.converted = made.converted \cup {e}]
      BY <2>15 DEF Converting
    <3> HIDE DEF e
    <3>9. M \in Libraries /\ M.nodes = made.nodes /\ M.converted = made.converted \cup {e} /\ M.r = made.r
      <4> DEFINE map == made.converted \cup {e}
      <4>1. map \in SUBSET (Edges \X Edges)
        BY <2>11, <3>7 DEF Libraries
      <4>2. M = [made EXCEPT !.converted = map]
        BY <3>8
      <4> HIDE DEF map
      <4>3. M \in Libraries /\ M.nodes = made.nodes /\ M.converted = map /\ M.r = made.r
        BY <2>11, <4>1, <4>2 DEF Libraries
      <4>4. QED
        BY <4>3 DEF map
    <3>10. /\ M.table = made.table /\ M.cache = made.cache /\ M.full = made.full
           /\ M.generation = made.generation /\ M.memo = made.memo
      BY <2>11, <3>8 DEF Libraries
    <3>11. ConvertedOK(M.nodes, M.converted, pred)
      BY <2>13, <3>5, <3>6, <3>7, <3>9 DEF ConvertedOK
    <3>12. ZGood(M, pred)
      BY <2>11, <3>9, <3>11 DEF ZGood
    <3>13. ZOnward(L, M)
      BY <2>12, <3>9, <3>10 DEF ZOnward
    <3>14. QED
      BY <3>4, <3>9, <3>12, <3>13 DEF ZDone
  <2>16. QED
    BY <2>14, <2>15
<1>6. QED
  BY <1>4, <1>5

ToZddKeeps(n, pred) ==
  \A L \in Libraries, f \in Edges :
    ZGood(L, pred) /\ Live(L.nodes, f) /\ EdgeLevel(L.nodes, f) <= n =>
      ZDone(L, mtzdd_to_zdd_rec[n][L][f][pred], f, pred)

LEMMA ToZddFlat ==
  ASSUME NEW pred \in SUBSET Nat, 0 \notin pred, NEW n \in Nat, NEW below,
         NEW L \in Libraries, ZGood(L, pred), NEW f \in Edges, Live(L.nodes, f),
         NEW M, M = ToZddBy(n, below)[L][f][pred],
         L.full \/ f.const \/ \E e \in L.converted : e[1] = f
  PROVE  ZDone(L, M, f, pred)
<1>1. StoreOK(L.nodes) /\ ConvertedOK(L.nodes, L.converted, pred)
  BY DEF ZGood
<1>2. ZOnward(L, L)
  BY <1>1 DEF ZOnward, Grown
<1>3. CASE L.full
  <2>1. M = L
    BY <1>3 DEF ToZddBy
  <2>2. QED
    BY <1>2, <1>3, <2>1 DEF ZDone
<1>4. ASSUME NEW r \in Edges, Chosen(L.nodes, r, pred, L.nodes, f), M = [L EXCEPT !.r = r]
      PROVE  ZDone(L, M, f, pred)
  <2>1. /\ M \in Libraries /\ M.nodes = L.nodes /\ M.table = L.table /\ M.cache = L.cache
        /\ M.converted = L.converted /\ M.r = r
    BY <1>4 DEF Libraries
  <2>2. M.generation = L.generation /\ M.memo = L.memo /\ M.full = L.full
    BY <1>4 DEF Libraries
  <2>3. QED
    BY <1>1, <1>2, <1>4, <2>1, <2>2 DEF ZDone, ZGood, ZOnward
<1>5. CASE ~L.full /\ f.const
  <2> DEFINE r == IF f.at \in pred THEN Const(1) ELSE Const(0)
  <2>1. M = [L EXCEPT !.r = r]
    BY <1>5, ToZddConst
  <2>2. r \in Edges /\ r.const = TRUE /\ r.at = IF f.at \in pred THEN 1 ELSE 0
    BY DEF Const, Edges
  <2> HIDE DEF r
  <2>3. Live(L.nodes, r) /\ EdgeLevel(L.nodes, r) <= EdgeLevel(L.nodes, f)
    BY <1>5, <2>2 DEF Live, EdgeLevel
  <2>4. ASSUME NEW s \in SUBSET Vars
        PROVE  Index(L.nodes, r, s) = IF Index(L.nodes, f, s) \in pred THEN 1 ELSE 0
    <3>1. Index(L.nodes, r, s) = IF s = {} THEN r.at ELSE 0
      BY <1>1, <2>2, <2>3, IndexConst
    <3>2. Index(L.nodes, f, s) = IF s = {} THEN f.at ELSE 0
      BY <1>1, <1>5, IndexConst
    <3>3. QED
      BY <2>2, <3>1, <3>2
  <2>5. Chosen(L.nodes, r, pred, L.nodes, f)
    BY <2>3, <2>4 DEF Chosen
  <2>6. QED
    BY <1>4, <2>1, <2>2, <2>5
<1>6. CASE ~L.full /\ ~f.const
  <2>1. FoundIn(L, f, M)
    BY <1>6, ToZddCached
  <2>2. PICK e \in L.converted : e[1] = f /\ M = [L EXCEPT !.r = e[2]]
    BY <2>1 DEF FoundIn
  <2>3. Chosen(L.nodes, e[2], pred, L.nodes, f)
    BY <1>1, <2>2 DEF ConvertedOK
  <2>4. e[2] \in Edges
    BY <2>3 DEF Chosen, Live
  <2>5. QED
    BY <1>4, <2>2, <2>3, <2>4
<1>7. QED
  BY <1>3, <1>5, <1>6

LEMMA ToZddStep ==
  ASSUME NEW pred \in SUBSET Nat, 0 \notin pred, NEW n \in Nat, ToZddKeeps(n, pred)
  PROVE  ToZddKeeps(n + 1, pred)
<1> SUFFICES ASSUME NEW L \in Libraries, NEW f \in Edges, ZGood(L, pred), Live(L.nodes, f),
                    EdgeLevel(L.nodes, f) <= n + 1
             PROVE  ZDone(L, mtzdd_to_zdd_rec[n + 1][L][f][pred], f, pred)
  BY DEF ToZddKeeps
<1> DEFINE below == mtzdd_to_zdd_rec[n]
           M == ToZddBy(n + 1, below)[L][f][pred]
<1>1. mtzdd_to_zdd_rec[n + 1][L][f][pred] = M
  BY ToZddUnfolds
<1>2. n + 1 \in Nat /\ n + 1 # 0
  OBVIOUS
<1>3. CASE L.full \/ f.const \/ \E e \in L.converted : e[1] = f
  <2>1. ZDone(L, M, f, pred)
    BY <1>2, <1>3, ToZddFlat
  <2>2. QED
    BY <1>1, <2>1
<1>4. CASE ~L.full /\ ~f.const /\ ~(\E e \in L.converted : e[1] = f)
  <2> DEFINE d == L.nodes[f.at]
             c0 == d.lo
             c1 == d.hi
             lo == below[L][c0][pred]
             hi == below[lo][c1][pred]
             made == getnode_raw(hi, d.var, lo.r, hi.r)
  <2>1. M = Converting(f, made)
    <3>1. M = NodeConverted(below, L, f, pred)
      BY <1>2, <1>4, ToZddNode
    <3>2. QED
      BY <3>1 DEF NodeConverted
  <2>2. StoreOK(L.nodes)
    BY DEF ZGood
  <2>3. /\ Live(L.nodes, c0) /\ EdgeLevel(L.nodes, c0) < EdgeLevel(L.nodes, f)
        /\ Live(L.nodes, c1) /\ EdgeLevel(L.nodes, c1) < EdgeLevel(L.nodes, f)
    BY <1>4, <2>2, LiveNode
  <2>4. EdgeLevel(L.nodes, f) \in Nat
    BY <2>2, LiveLevel, HeightNat
  <2> HIDE DEF c0, c1
  <2>5. EdgeLevel(L.nodes, c0) <= n /\ c0 \in Edges
    <3>1. EdgeLevel(L.nodes, c0) \in Nat /\ c0 \in Edges
      BY <2>2, <2>3, LiveLevel, HeightNat
    <3>2. QED
      BY <2>3, <2>4, <3>1
  <2>6. EdgeLevel(L.nodes, c1) <= n /\ c1 \in Edges
    <3>1. EdgeLevel(L.nodes, c1) \in Nat /\ c1 \in Edges
      BY <2>2, <2>3, LiveLevel, HeightNat
    <3>2. QED
      BY <2>3, <2>4, <3>1
  <2>7. ZDone(L, lo, c0, pred)
    BY <2>3, <2>5 DEF ToZddKeeps
  <2> HIDE DEF lo
  <2>8. ZGood(lo, pred) /\ lo \in Libraries /\ Grown(L.nodes, lo.nodes)
    BY <2>7 DEF ZDone, ZGood, ZOnward
  <2>9. Live(lo.nodes, c1) /\ EdgeLevel(lo.nodes, c1) <= n
    BY <2>2, <2>3, <2>6, <2>8, GrownKeeps
  <2>10. ZDone(lo, hi, c1, pred)
    BY <2>6, <2>8, <2>9 DEF ToZddKeeps
  <2> HIDE DEF hi, M
  <2>11. ZDone(L, M, f, pred)
    BY <1>4, <2>1, <2>7, <2>10, ToZddHalves DEF c0, c1
  <2>12. QED
    BY <1>1, <2>11
<1>5. QED
  BY <1>3, <1>4

LEMMA ToZddRight ==
  ASSUME NEW pred \in SUBSET Nat, 0 \notin pred
  PROVE  \A n \in Nat : ToZddKeeps(n, pred)
<1> DEFINE S == {n \in Nat : ToZddKeeps(n, pred)}
<1>1. ToZddKeeps(0, pred)
  <2> SUFFICES ASSUME NEW L \in Libraries, NEW f \in Edges, ZGood(L, pred), Live(L.nodes, f),
                      EdgeLevel(L.nodes, f) <= 0
               PROVE  ZDone(L, mtzdd_to_zdd_rec[0][L][f][pred], f, pred)
    BY DEF ToZddKeeps
  <2>1. StoreOK(L.nodes)
    BY DEF ZGood
  <2>2. f.const
    BY <2>1, LiveLevel, HeightNat
  <2>3. mtzdd_to_zdd_rec[0] = ToZddBy(0, <<>>)
    BY ToZddUnfolds
  <2>4. ZDone(L, ToZddBy(0, <<>>)[L][f][pred], f, pred)
    BY <2>2, ToZddFlat
  <2>5. QED
    BY <2>3, <2>4
<1>2. 0 \in S /\ \A n \in Nat : n \in S => n + 1 \in S
  BY <1>1, ToZddStep
<1> HIDE DEF S
<1>3. Nat \subseteq S
  BY <1>2, Induct
<1>4. QED
  BY <1>3 DEF S

-----------------------------------------------------------------------------
(***************************************************************************)
(* The cost of a set: a variable adds its weight, whatever its level.      *)
(***************************************************************************)
LEMMA CostsStep ==
  ASSUME NEW n \in Nat, NEW s \in SUBSET Vars
  PROVE  costs[n + 1][s] = costs[n][s] + (IF VarOf(n + 1) \in s THEN Weight[VarOf(n + 1)] ELSE 0)
<1>1. costs[n + 1] = CostBy(n + 1, costs[n])
  BY CostsUnfold
<1>2. n + 1 # 0
  OBVIOUS
<1>3. QED
  BY <1>1, <1>2 DEF CostBy

LEMMA CostsZero ==
  ASSUME NEW s \in SUBSET Vars
  PROVE  costs[0][s] = 0
BY CostsUnfold DEF CostBy

\* The weight that the variable at level n + 1 adds.
LEMMA CostsTerm ==
  ASSUME NEW n \in Nat, n + 1 <= Height
  PROVE  /\ VarOf(n + 1) \in Vars /\ LevelOf(VarOf(n + 1)) = n + 1
         /\ Weight[VarOf(n + 1)] \in Int
<1>1. n + 1 \in 1..Height
  BY HeightNat
<1>2. VarOf(n + 1) \in Vars /\ LevelOf(VarOf(n + 1)) = n + 1
  BY <1>1, Levels
<1>3. Weight \in [Vars -> Int]
  BY SessionsAssumption
<1>4. QED
  BY <1>2, <1>3

CostsAt(n) ==
  /\ costs[n][{}] = 0
  /\ \A s \in SUBSET Vars : costs[n][s] \in Int
  /\ \A s \in SUBSET Vars, v \in Vars : v \notin s =>
       costs[n][s \cup {v}] = costs[n][s] + (IF LevelOf(v) <= n THEN Weight[v] ELSE 0)

LEMMA CostsAdd ==
  ASSUME NEW n \in Nat, n + 1 <= Height, CostsAt(n)
  PROVE  CostsAt(n + 1)
<1> DEFINE w == VarOf(n + 1)
<1>1. w \in Vars /\ LevelOf(w) = n + 1 /\ Weight[w] \in Int
  BY CostsTerm
<1>2. \A s \in SUBSET Vars : costs[n + 1][s] = costs[n][s] + (IF w \in s THEN Weight[w] ELSE 0)
  BY CostsStep
<1> HIDE DEF w
<1>3. {} \in SUBSET Vars /\ w \notin {}
  OBVIOUS
<1>4. costs[n][{}] = 0 /\ \A s \in SUBSET Vars : costs[n][s] \in Int
  BY DEF CostsAt
<1>5. costs[n + 1][{}] = 0
  <2>1. costs[n + 1][{}] = costs[n][{}] + (IF w \in {} THEN Weight[w] ELSE 0)
    BY <1>2, <1>3
  <2>2. QED
    BY <1>3, <1>4, <2>1
<1>6. \A s \in SUBSET Vars : costs[n + 1][s] \in Int
  BY <1>1, <1>2, <1>4
<1>7. ASSUME NEW s \in SUBSET Vars, NEW v \in Vars, v \notin s
      PROVE  costs[n + 1][s \cup {v}] = costs[n + 1][s] + (IF LevelOf(v) <= n + 1 THEN Weight[v] ELSE 0)
  <2> DEFINE t == s \cup {v}
  <2>1. t \in SUBSET Vars /\ (w \in t <=> w \in s \/ w = v)
    OBVIOUS
  <2>2. costs[n][t] = costs[n][s] + (IF LevelOf(v) <= n THEN Weight[v] ELSE 0)
    BY <1>7 DEF CostsAt
  <2> HIDE DEF t
  <2>3. /\ costs[n + 1][t] = costs[n][t] + (IF w \in t THEN Weight[w] ELSE 0)
        /\ costs[n + 1][s] = costs[n][s] + (IF w \in s THEN Weight[w] ELSE 0)
    BY <1>2, <2>1
  <2>4. LevelOf(v) \in Nat /\ (LevelOf(v) = n + 1 => v = w)
    BY <1>1, Levels
  <2>5. Weight[v] \in Int /\ costs[n][s] \in Int
    BY <1>4, SessionsAssumption
  <2>6. CASE v = w
    <3>1. LevelOf(v) = n + 1 /\ w \in t /\ w \notin s
      BY <1>1, <1>7, <2>1, <2>6
    <3>2. costs[n][t] = costs[n][s] + 0
      BY <2>2, <3>1
    <3>3. costs[n + 1][t] = costs[n][t] + Weight[w] /\ costs[n + 1][s] = costs[n][s] + 0
      BY <2>3, <3>1
    <3>4. QED
      BY <2>5, <2>6, <3>1, <3>2, <3>3 DEF t
  <2>7. CASE v # w
    <3>1. LevelOf(v) <= n <=> LevelOf(v) <= n + 1
      BY <2>4, <2>7
    <3>2. w \in t <=> w \in s
      BY <2>1, <2>7
    <3>3. costs[n + 1][t] = costs[n][t] + (IF w \in s THEN Weight[w] ELSE 0)
      BY <2>3, <3>2
    <3> DEFINE x == IF w \in s THEN Weight[w] ELSE 0
               y == IF LevelOf(v) <= n + 1 THEN Weight[v] ELSE 0
    <3>4. x \in Int /\ y \in Int
      BY <1>1, <2>5
    <3>5. costs[n][t] = costs[n][s] + y
      BY <2>2, <3>1
    <3>6. costs[n + 1][t] = costs[n][t] + x /\ costs[n + 1][s] = costs[n][s] + x
      BY <2>3, <3>3
    <3> HIDE DEF x, y
    <3>7. costs[n + 1][t] = costs[n + 1][s] + y
      BY <2>5, <3>4, <3>5, <3>6
    <3>8. QED
      BY <3>7 DEF t, y
  <2>8. QED
    BY <2>6, <2>7
<1>8. QED
  BY <1>5, <1>6, <1>7 DEF CostsAt

LEMMA CostsAll == \A n \in Nat : n <= Height => CostsAt(n)
<1> DEFINE S == {n \in Nat : n <= Height => CostsAt(n)}
<1>1. CostsAt(0)
  <2>1. \A s \in SUBSET Vars : costs[0][s] = 0
    BY CostsZero
  <2>2. \A v \in Vars : LevelOf(v) \in 1..Height
    BY Levels
  <2>3. \A v \in Vars : ~(LevelOf(v) <= 0)
    BY <2>2, HeightNat
  <2>4. {} \in SUBSET Vars /\ \A s \in SUBSET Vars, v \in Vars : s \cup {v} \in SUBSET Vars
    OBVIOUS
  <2>5. QED
    BY <2>1, <2>3, <2>4 DEF CostsAt
<1>2. ASSUME NEW n \in Nat, n \in S
      PROVE  n + 1 \in S
  BY <1>2, CostsAdd, HeightNat
<1>3. 0 \in S /\ \A n \in Nat : n \in S => n + 1 \in S
  BY <1>1, <1>2
<1> HIDE DEF S
<1>4. Nat \subseteq S
  BY <1>3, Induct
<1>5. QED
  BY <1>4 DEF S

LEMMA CostAdds ==
  /\ Cost({}) = 0
  /\ \A s \in SUBSET Vars : Cost(s) \in Int /\ WeightMin < Cost(s) /\ Cost(s) < WeightMax
  /\ \A v \in Vars : Weight[v] \in Int /\ WeightMin < Weight[v] /\ Weight[v] < WeightMax
  /\ \A s \in SUBSET Vars, v \in Vars : v \notin s => Cost(s \cup {v}) = Cost(s) + Weight[v]
<1>1. CostsAt(Height) /\ \A v \in Vars : LevelOf(v) <= Height
  <2>1. CostsAt(Height)
    BY CostsAll, HeightNat
  <2>2. \A v \in Vars : LevelOf(v) \in 1..Height
    BY Levels
  <2>3. QED
    BY <2>1, <2>2, HeightNat
<1>2. Cost({}) = 0
  BY <1>1 DEF CostsAt, Cost
<1>3. \A s \in SUBSET Vars : Cost(s) \in Int /\ WeightMin < Cost(s) /\ Cost(s) < WeightMax
  BY <1>1, WeightsAssumption DEF CostsAt, Cost
<1>4. \A s \in SUBSET Vars, v \in Vars : v \notin s => Cost(s \cup {v}) = Cost(s) + Weight[v]
  BY <1>1 DEF CostsAt, Cost
<1>5. ASSUME NEW v \in Vars
      PROVE  Weight[v] \in Int /\ WeightMin < Weight[v] /\ Weight[v] < WeightMax
  <2>1. Weight[v] \in Int
    BY SessionsAssumption
  <2>2. {} \in SUBSET Vars /\ v \notin {} /\ {} \cup {v} = {v} /\ {v} \in SUBSET Vars
    OBVIOUS
  <2>3. Cost({v}) = Cost({}) + Weight[v]
    BY <1>4, <2>2
  <2>4. Cost({v}) = Weight[v]
    BY <1>2, <2>1, <2>3
  <2>5. QED
    BY <1>3, <2>1, <2>2, <2>4
<1>6. QED
  BY <1>2, <1>3, <1>4, <1>5

-----------------------------------------------------------------------------
(***************************************************************************)
(* Cost bounds.  The answer h for a family f holds for the bounds of the   *)
(* interval [aw, rb): its members are those members of f whose cost is at  *)
(* most aw, the others of f cost rb or more.  The ends are met, or are the *)
(* ends of long long: so the sums the ends take part in are exact.         *)
(***************************************************************************)
LowEnd(ns, h, aw) ==
  aw = WeightMin \/ \E u \in SUBSET Vars : Index(ns, h, u) # 0 /\ Cost(u) = aw

HighEnd(ns, h, ms, f, rb) ==
  rb = WeightMax \/ \E u \in SUBSET Vars : Index(ns, h, u) = 0 /\ Index(ms, f, u) # 0 /\ Cost(u) = rb

Light(ns, h, aw, rb, ms, f) ==
  /\ Live(ns, h) /\ EdgeLevel(ns, h) <= EdgeLevel(ms, f)
  /\ \A s \in SUBSET Vars :
       /\ Index(ns, h, s) # 0 => Index(ns, h, s) = Index(ms, f, s) /\ Cost(s) <= aw
       /\ Index(ns, h, s) = 0 /\ Index(ms, f, s) # 0 => rb <= Cost(s)
  /\ LowEnd(ns, h, aw) /\ HighEnd(ns, h, ms, f, rb)

Holds(b, aw, rb) == aw <= b /\ (b < rb \/ rb = WeightMax)

LEMMA WeightEnds ==
  /\ WeightMax \in Int /\ WeightMin \in Int /\ WeightMin < 0 /\ 0 < WeightMax
  /\ \A b : b \in Weights <=> b \in Int /\ WeightMin <= b /\ b <= WeightMax
BY WeightMaxAssumption DEF WeightMin, Weights

LEMMA LightEnds ==
  ASSUME NEW ns, NEW h, NEW aw, NEW rb, NEW ms, NEW f, Light(ns, h, aw, rb, ms, f)
  PROVE  aw \in Weights /\ rb \in Weights
<1>1. aw \in Weights
  BY WeightEnds, CostAdds DEF Light, LowEnd
<1>2. rb \in Weights
  BY WeightEnds, CostAdds DEF Light, HighEnd
<1>3. QED
  BY <1>1, <1>2

LEMMA SafeAdd ==
  ASSUME NEW x \in Int, WeightMin < x, x < WeightMax
  PROVE  /\ costbound_safe_add(WeightMin, x) = WeightMin
         /\ costbound_safe_add(WeightMax, x) = WeightMax
         /\ \A a \in Int : WeightMin < a /\ a < WeightMax /\ WeightMin < a + x /\ a + x < WeightMax =>
              costbound_safe_add(a, x) = a + x
BY WeightEnds DEF costbound_safe_add

LEMMA SafeSub ==
  ASSUME NEW x \in Int, WeightMin < x, x < WeightMax, NEW b \in Weights
  PROVE  /\ costbound_safe_sub(b, x) \in Weights
         /\ \A a \in Int : WeightMin < a /\ a < WeightMax /\ WeightMin < a + x /\ a + x < WeightMax =>
              (a <= costbound_safe_sub(b, x) <=> a + x <= b)
<1>1. b \in Int /\ WeightMin <= b /\ b <= WeightMax
  BY WeightEnds
<1> DEFINE y == costbound_safe_sub(b, x)
<1>2. /\ b \in {WeightMin, WeightMax} => y = b
      /\ b \notin {WeightMin, WeightMax} =>
           /\ b - x < WeightMin => y = WeightMin
           /\ b - x > WeightMax => y = WeightMax
           /\ WeightMin <= b - x /\ b - x <= WeightMax => y = b - x
  BY <1>1, WeightEnds DEF costbound_safe_sub
<1> HIDE DEF y
<1>3. y \in Int /\ WeightMin <= y /\ y <= WeightMax
  BY <1>1, <1>2, WeightEnds
<1>4. \A a \in Int : WeightMin < a /\ a < WeightMax /\ WeightMin < a + x /\ a + x < WeightMax =>
        (a <= y <=> a + x <= b)
  BY <1>1, <1>2, WeightEnds
<1>5. QED
  BY <1>3, <1>4, WeightEnds DEF y

\* The lower end moves by the weight of a variable above h.
LowMoved(ns, h, v, aw, a) ==
  \/ aw = WeightMin /\ a = WeightMin
  \/ \E u \in SUBSET Vars :
       v \notin u /\ Index(ns, h, u) # 0 /\ Cost(u) = aw /\ Cost(u \cup {v}) = a /\ a = aw + Weight[v]

LEMMA LowShift ==
  ASSUME NEW ns, StoreOK(ns), NEW h, Live(ns, h), NEW v \in Vars, EdgeLevel(ns, h) < LevelOf(v),
         NEW aw, LowEnd(ns, h, aw)
  PROVE  LowMoved(ns, h, v, aw, costbound_safe_add(aw, Weight[v]))
<1>1. Weight[v] \in Int /\ WeightMin < Weight[v] /\ Weight[v] < WeightMax
  BY CostAdds
<1>2. CASE aw = WeightMin
  BY <1>1, <1>2, SafeAdd DEF LowMoved
<1>3. CASE aw # WeightMin
  <2>1. PICK u \in SUBSET Vars : Index(ns, h, u) # 0 /\ Cost(u) = aw
    BY <1>3 DEF LowEnd
  <2>2. v \notin u
    <3>1. h \in Edges
      BY DEF Live
    <3>2. QED
      BY <2>1, <3>1, IndexAbove
  <2>3. u \cup {v} \in SUBSET Vars
    OBVIOUS
  <2>4. Cost(u \cup {v}) = aw + Weight[v]
    BY <2>1, <2>2, CostAdds
  <2>5. aw \in Int /\ WeightMin < aw /\ aw < WeightMax
    BY <2>1, CostAdds
  <2>6. WeightMin < aw + Weight[v] /\ aw + Weight[v] < WeightMax
    BY <2>3, <2>4, CostAdds
  <2>7. costbound_safe_add(aw, Weight[v]) = aw + Weight[v]
    BY <1>1, <2>5, <2>6, SafeAdd
  <2>8. QED
    BY <2>1, <2>2, <2>4, <2>7 DEF LowMoved
<1>4. QED
  BY <1>2, <1>3

\* And so does the upper end.
HighMoved(ns, h, ms, f, v, rb, c) ==
  \/ rb = WeightMax /\ c = WeightMax
  \/ \E u \in SUBSET Vars :
       /\ v \notin u /\ Index(ns, h, u) = 0 /\ Index(ms, f, u) # 0
       /\ Cost(u) = rb /\ Cost(u \cup {v}) = c /\ c = rb + Weight[v]

LEMMA HighShift ==
  ASSUME NEW ns, NEW h, NEW ms, StoreOK(ms), NEW f, Live(ms, f), NEW v \in Vars, EdgeLevel(ms, f) < LevelOf(v),
         NEW rb, HighEnd(ns, h, ms, f, rb)
  PROVE  HighMoved(ns, h, ms, f, v, rb, costbound_safe_add(rb, Weight[v]))
<1>1. Weight[v] \in Int /\ WeightMin < Weight[v] /\ Weight[v] < WeightMax
  BY CostAdds
<1>2. CASE rb = WeightMax
  BY <1>1, <1>2, SafeAdd DEF HighMoved
<1>3. CASE rb # WeightMax
  <2>1. PICK u \in SUBSET Vars : Index(ns, h, u) = 0 /\ Index(ms, f, u) # 0 /\ Cost(u) = rb
    BY <1>3 DEF HighEnd
  <2>2. v \notin u
    <3>1. f \in Edges
      BY DEF Live
    <3>2. QED
      BY <2>1, <3>1, IndexAbove
  <2>3. u \cup {v} \in SUBSET Vars
    OBVIOUS
  <2>4. Cost(u \cup {v}) = rb + Weight[v]
    BY <2>1, <2>2, CostAdds
  <2>5. rb \in Int /\ WeightMin < rb /\ rb < WeightMax
    BY <2>1, CostAdds
  <2>6. WeightMin < rb + Weight[v] /\ rb + Weight[v] < WeightMax
    BY <2>3, <2>4, CostAdds
  <2>7. costbound_safe_add(rb, Weight[v]) = rb + Weight[v]
    BY <1>1, <2>5, <2>6, SafeAdd
  <2>8. QED
    BY <2>1, <2>2, <2>4, <2>7 DEF HighMoved
<1>4. QED
  BY <1>2, <1>3

\* The interval of a node is in the interval of its lo child and in the one of
\* its hi child, moved.
LEMMA HoldsShift ==
  ASSUME NEW v \in Vars, NEW b \in Weights, NEW aw, NEW rb, Holds(costbound_safe_sub(b, Weight[v]), aw, rb),
         NEW ns, NEW h, NEW a, LowMoved(ns, h, v, aw, a),
         NEW ms, NEW f, NEW c, HighMoved(ns, h, ms, f, v, rb, c)
  PROVE  Holds(b, a, c) /\ a \in Weights /\ c \in Weights
<1> DEFINE x == Weight[v]
           y == costbound_safe_sub(b, x)
<1>1. x \in Int /\ WeightMin < x /\ x < WeightMax
  BY CostAdds
<1>2. /\ y \in Weights
      /\ \A z \in Int : WeightMin < z /\ z < WeightMax /\ WeightMin < z + x /\ z + x < WeightMax =>
           (z <= y <=> z + x <= b)
  BY <1>1, SafeSub
<1>3. aw <= y /\ (y < rb \/ rb = WeightMax)
  BY DEF Holds
<1> HIDE DEF y, x
<1>4. b \in Int /\ WeightMin <= b /\ b <= WeightMax /\ y \in Int /\ WeightMin <= y /\ y <= WeightMax
  BY <1>2, WeightEnds
<1>5. a <= b /\ a \in Weights
  <2>1. CASE aw = WeightMin /\ a = WeightMin
    BY <1>4, <2>1, WeightEnds
  <2>2. CASE \E u \in SUBSET Vars : v \notin u /\ Cost(u) = aw /\ Cost(u \cup {v}) = a /\ a = aw + x
    <3>1. PICK u \in SUBSET Vars : v \notin u /\ Cost(u) = aw /\ Cost(u \cup {v}) = a /\ a = aw + x
      BY <2>2
    <3>2. u \cup {v} \in SUBSET Vars
      OBVIOUS
    <3>3. aw \in Int /\ WeightMin < aw /\ aw < WeightMax
      BY <3>1, CostAdds
    <3>4. a \in Int /\ WeightMin < a /\ a < WeightMax
      BY <3>1, <3>2, CostAdds
    <3>5. aw <= y <=> a <= b
      BY <1>2, <3>1, <3>3, <3>4
    <3>6. QED
      BY <1>3, <3>4, <3>5, WeightEnds
  <2>3. QED
    BY <2>1, <2>2 DEF LowMoved, x
<1>6. (b < c \/ c = WeightMax) /\ c \in Weights
  <2>1. CASE rb = WeightMax /\ c = WeightMax
    BY <2>1, WeightEnds
  <2>2. CASE \E u \in SUBSET Vars : v \notin u /\ Cost(u) = rb /\ Cost(u \cup {v}) = c /\ c = rb + x
    <3>1. PICK u \in SUBSET Vars : v \notin u /\ Cost(u) = rb /\ Cost(u \cup {v}) = c /\ c = rb + x
      BY <2>2
    <3>2. u \cup {v} \in SUBSET Vars
      OBVIOUS
    <3>3. rb \in Int /\ WeightMin < rb /\ rb < WeightMax
      BY <3>1, CostAdds
    <3>4. c \in Int /\ WeightMin < c /\ c < WeightMax
      BY <3>1, <3>2, CostAdds
    <3>5. rb <= y <=> c <= b
      BY <1>2, <3>1, <3>3, <3>4
    <3>6. ~(rb <= y)
      BY <1>3, <1>4, <3>3
    <3>7. QED
      BY <1>4, <3>4, <3>5, <3>6, WeightEnds
  <2>3. QED
    BY <2>1, <2>2 DEF HighMoved, x
<1>7. QED
  BY <1>5, <1>6 DEF Holds

LEMMA HoldsBoth ==
  ASSUME NEW b \in Weights, NEW a1 \in Weights, NEW c1 \in Weights, NEW a2 \in Weights, NEW c2 \in Weights,
         Holds(b, a1, c1), Holds(b, a2, c2)
  PROVE  Holds(b, Most(a1, a2), Least(c1, c2))
<1>1. b \in Int /\ a1 \in Int /\ c1 \in Int /\ a2 \in Int /\ c2 \in Int
  BY WeightEnds
<1>2. c1 <= WeightMax /\ c2 <= WeightMax /\ WeightMax \in Int
  BY WeightEnds
<1>3. QED
  BY <1>1, <1>2 DEF Holds, Most, Least

\* The answers for the children make the answer for the node.
LEMMA LightNode ==
  ASSUME NEW ns, StoreOK(ns), NEW f, Live(ns, f), ~f.const,
         NEW v, v = ns[f.at].var, NEW c0, c0 = ns[f.at].lo, NEW c1, c1 = ns[f.at].hi,
         NEW ms, StoreOK(ms), NEW h0, NEW aw0, NEW rb0, Light(ms, h0, aw0, rb0, ns, c0),
         NEW h1, NEW aw1, NEW rb1, Light(ms, h1, aw1, rb1, ns, c1),
         NEW ls, NEW r, Joins(ls, r, v, ms, h0, h1),
         NEW a1, LowMoved(ms, h1, v, aw1, a1), NEW b1, HighMoved(ms, h1, ns, c1, v, rb1, b1),
         a1 \in Weights, b1 \in Weights
  PROVE  Light(ls, r, Most(aw0, a1), Least(rb0, b1), ns, f)
<1> DEFINE aw == Most(aw0, a1)
           rb == Least(rb0, b1)
           x == Weight[v]
<1>1. /\ v \in Vars /\ EdgeLevel(ns, f) = LevelOf(v)
      /\ Live(ns, c0) /\ EdgeLevel(ns, c0) < LevelOf(v)
      /\ Live(ns, c1) /\ EdgeLevel(ns, c1) < LevelOf(v)
  BY LiveNode
<1>2. /\ \A s \in SUBSET Vars : v \notin s => Index(ns, f, s) = Index(ns, c0, s)
      /\ \A s \in SUBSET Vars : v \in s => Index(ns, f, s) = Index(ns, c1, s \ {v})
  <2>1. ASSUME NEW s \in SUBSET Vars
        PROVE  /\ ns[f.at].var \notin s => Index(ns, f, s) = Index(ns, ns[f.at].lo, s)
               /\ ns[f.at].var \in s => Index(ns, f, s) = Index(ns, ns[f.at].hi, s \ {ns[f.at].var})
    BY IndexLoHi
  <2>2. QED
    BY <2>1
<1>3. \A s \in SUBSET Vars : Index(ls, r, s) = IF v \in s THEN Index(ms, h1, s \ {v}) ELSE Index(ms, h0, s)
  BY DEF Joins
<1>4. Live(ls, r) /\ EdgeLevel(ls, r) <= EdgeLevel(ns, f)
  BY <1>1 DEF Joins
<1>5. aw0 \in Int /\ rb0 \in Int /\ a1 \in Int /\ b1 \in Int
  BY LightEnds, WeightEnds
<1>6. aw \in Int /\ aw0 <= aw /\ a1 <= aw /\ (aw = aw0 \/ aw = a1)
  BY <1>5 DEF Most
<1>7. rb \in Int /\ rb <= rb0 /\ rb <= b1 /\ (rb = rb0 \/ rb = b1)
  BY <1>5 DEF Least
<1>8. x \in Int
  BY <1>1, CostAdds
<1>9. aw1 \in Int /\ rb1 \in Int
  BY LightEnds, WeightEnds
<1> HIDE DEF aw, rb, x
\* The members with v.
<1>10. \A t \in SUBSET Vars : Index(ms, h1, t) # 0 => Cost(t) + x <= a1
  <2> SUFFICES ASSUME NEW t \in SUBSET Vars, Index(ms, h1, t) # 0
               PROVE  Cost(t) + x <= a1
    OBVIOUS
  <2>1. Cost(t) <= aw1 /\ Cost(t) \in Int /\ WeightMin < Cost(t) /\ WeightMin \in Int
    BY CostAdds, WeightEnds DEF Light
  <2>2. aw1 # WeightMin
    BY <2>1
  <2>3. a1 = aw1 + x
    BY <2>2 DEF LowMoved, x
  <2>4. QED
    BY <1>8, <1>9, <2>1, <2>3
<1>11. \A t \in SUBSET Vars : Index(ms, h1, t) = 0 /\ Index(ns, c1, t) # 0 => b1 <= Cost(t) + x
  <2> SUFFICES ASSUME NEW t \in SUBSET Vars, Index(ms, h1, t) = 0, Index(ns, c1, t) # 0
               PROVE  b1 <= Cost(t) + x
    OBVIOUS
  <2>1. rb1 <= Cost(t) /\ Cost(t) \in Int /\ Cost(t) < WeightMax /\ WeightMax \in Int
    BY CostAdds, WeightEnds DEF Light
  <2>2. rb1 # WeightMax
    BY <2>1
  <2>3. b1 = rb1 + x
    BY <2>2 DEF HighMoved, x
  <2>4. QED
    BY <1>8, <1>9, <2>1, <2>3
<1>12. ASSUME NEW s \in SUBSET Vars, v \in s
       PROVE  Cost(s) = Cost(s \ {v}) + x /\ s \ {v} \in SUBSET Vars
  <2> DEFINE t == s \ {v}
  <2>1. t \in SUBSET Vars /\ v \notin t /\ t \cup {v} = s
    BY <1>12
  <2> HIDE DEF t
  <2>2. Cost(t \cup {v}) = Cost(t) + Weight[v]
    BY <1>1, <2>1, CostAdds
  <2>3. QED
    BY <2>1, <2>2 DEF t, x
<1>13. ASSUME NEW s \in SUBSET Vars, Index(ls, r, s) # 0
       PROVE  Index(ls, r, s) = Index(ns, f, s) /\ Cost(s) <= aw
  <2>1. CASE v \notin s
    <3>1. Index(ms, h0, s) # 0 /\ Index(ls, r, s) = Index(ms, h0, s)
      BY <1>3, <1>13, <2>1
    <3>2. Index(ms, h0, s) = Index(ns, c0, s) /\ Cost(s) <= aw0 /\ Cost(s) \in Int
      BY <3>1, CostAdds DEF Light
    <3>3. QED
      BY <1>2, <1>5, <1>6, <2>1, <3>1, <3>2
  <2>2. CASE v \in s
    <3>1. Index(ms, h1, s \ {v}) # 0 /\ Index(ls, r, s) = Index(ms, h1, s \ {v}) /\ s \ {v} \in SUBSET Vars
      BY <1>3, <1>13, <2>2
    <3>2. Index(ms, h1, s \ {v}) = Index(ns, c1, s \ {v})
      BY <3>1 DEF Light
    <3>3. Cost(s) <= a1 /\ Cost(s) \in Int
      BY <1>10, <1>12, <2>2, <3>1, CostAdds
    <3>4. Index(ls, r, s) = Index(ns, f, s)
      BY <1>2, <2>2, <3>1, <3>2
    <3>5. QED
      BY <1>5, <1>6, <3>3, <3>4
  <2>3. QED
    BY <2>1, <2>2
<1>14. ASSUME NEW s \in SUBSET Vars, Index(ls, r, s) = 0, Index(ns, f, s) # 0
       PROVE  rb <= Cost(s)
  <2>1. CASE v \notin s
    <3>1. Index(ms, h0, s) = 0 /\ Index(ns, c0, s) # 0
      BY <1>2, <1>3, <1>14, <2>1
    <3>2. rb0 <= Cost(s) /\ Cost(s) \in Int
      BY <3>1, CostAdds DEF Light
    <3>3. QED
      BY <1>5, <1>7, <3>2
  <2>2. CASE v \in s
    <3>1. Index(ms, h1, s \ {v}) = 0 /\ Index(ns, c1, s \ {v}) # 0 /\ s \ {v} \in SUBSET Vars
      BY <1>2, <1>3, <1>14, <2>2
    <3>2. b1 <= Cost(s) /\ Cost(s) \in Int
      BY <1>11, <1>12, <2>2, <3>1, CostAdds
    <3>3. QED
      BY <1>5, <1>7, <3>2
  <2>3. QED
    BY <2>1, <2>2
\* The ends are met.
<1>15. LowEnd(ls, r, aw)
  <2>1. ASSUME aw = aw0, aw0 # WeightMin
        PROVE  \E u \in SUBSET Vars : Index(ls, r, u) # 0 /\ Cost(u) = aw
    <3>1. PICK u \in SUBSET Vars : Index(ms, h0, u) # 0 /\ Cost(u) = aw0
      BY <2>1 DEF Light, LowEnd
    <3>2. v \notin u
      <4>1. Live(ms, h0) /\ h0 \in Edges /\ EdgeLevel(ms, h0) <= EdgeLevel(ns, c0)
        BY DEF Light, Live
      <4>2. EdgeLevel(ms, h0) \in Nat
        BY <4>1, LiveLevel, HeightNat
      <4>3. EdgeLevel(ns, c0) \in Nat
        BY <1>1, LiveLevel, HeightNat
      <4>4. LevelOf(v) \in Nat
        BY <1>1, Levels
      <4>5. EdgeLevel(ms, h0) < LevelOf(v)
        BY <1>1, <4>1, <4>2, <4>3, <4>4
      <4>6. QED
        BY <1>1, <3>1, <4>1, <4>5, IndexAbove
    <3>3. QED
      BY <1>3, <2>1, <3>1, <3>2
  <2>2. ASSUME aw = a1, a1 # WeightMin
        PROVE  \E u \in SUBSET Vars : Index(ls, r, u) # 0 /\ Cost(u) = aw
    <3>1. PICK u \in SUBSET Vars : v \notin u /\ Index(ms, h1, u) # 0 /\ Cost(u \cup {v}) = a1
      BY <2>2 DEF LowMoved
    <3>2. u \cup {v} \in SUBSET Vars /\ v \in u \cup {v} /\ (u \cup {v}) \ {v} = u
      BY <1>1, <3>1
    <3>3. Index(ls, r, u \cup {v}) # 0
      BY <1>3, <3>1, <3>2
    <3>4. QED
      BY <2>2, <3>1, <3>2, <3>3
  <2>3. QED
    BY <1>6, <2>1, <2>2 DEF LowEnd
<1>16. HighEnd(ls, r, ns, f, rb)
  <2>1. ASSUME rb = rb0, rb0 # WeightMax
        PROVE  \E u \in SUBSET Vars : Index(ls, r, u) = 0 /\ Index(ns, f, u) # 0 /\ Cost(u) = rb
    <3>1. PICK u \in SUBSET Vars : Index(ms, h0, u) = 0 /\ Index(ns, c0, u) # 0 /\ Cost(u) = rb0
      BY <2>1 DEF Light, HighEnd
    <3>2. v \notin u
      <4>1. c0 \in Edges
        BY <1>1 DEF Live
      <4>2. QED
        BY <1>1, <3>1, <4>1, IndexAbove
    <3>3. QED
      BY <1>2, <1>3, <2>1, <3>1, <3>2
  <2>2. ASSUME rb = b1, b1 # WeightMax
        PROVE  \E u \in SUBSET Vars : Index(ls, r, u) = 0 /\ Index(ns, f, u) # 0 /\ Cost(u) = rb
    <3>1. PICK u \in SUBSET Vars : /\ v \notin u /\ Index(ms, h1, u) = 0 /\ Index(ns, c1, u) # 0
                                   /\ Cost(u \cup {v}) = b1
      BY <2>2 DEF HighMoved
    <3>2. u \cup {v} \in SUBSET Vars /\ v \in u \cup {v} /\ (u \cup {v}) \ {v} = u
      BY <1>1, <3>1
    <3>3. Index(ls, r, u \cup {v}) = 0 /\ Index(ns, f, u \cup {v}) # 0
      BY <1>2, <1>3, <3>1, <3>2
    <3>4. QED
      BY <2>2, <3>1, <3>2, <3>3
  <2>3. QED
    BY <1>7, <2>1, <2>2 DEF HighEnd
<1>17. QED
  BY <1>4, <1>13, <1>14, <1>15, <1>16 DEF Light, aw, rb

\* An answer stays an answer where both diagrams stay as they are.
LEMMA LightKept ==
  ASSUME NEW ns, NEW h, NEW aw, NEW rb, NEW ms, NEW f, Light(ns, h, aw, rb, ms, f),
         NEW ns1, Live(ns1, h), EdgeLevel(ns1, h) = EdgeLevel(ns, h),
         \A s \in SUBSET Vars : Index(ns1, h, s) = Index(ns, h, s),
         NEW ms1, EdgeLevel(ms1, f) = EdgeLevel(ms, f),
         \A s \in SUBSET Vars : Index(ms1, f, s) = Index(ms, f, s)
  PROVE  Light(ns1, h, aw, rb, ms1, f)
<1>1. LowEnd(ns1, h, aw)
  BY DEF Light, LowEnd
<1>2. HighEnd(ns1, h, ms1, f, rb)
  BY DEF Light, HighEnd
<1>3. QED
  BY <1>1, <1>2 DEF Light

\* A diagram of a family has the index 1 where it has a set.
IsFamily(ns, f) == \A s \in SUBSET Vars : Index(ns, f, s) \in {0, 1}

LEMMA FamilyChildren ==
  ASSUME NEW ns, StoreOK(ns), NEW f, Live(ns, f), ~f.const, IsFamily(ns, f)
  PROVE  IsFamily(ns, ns[f.at].lo) /\ IsFamily(ns, ns[f.at].hi)
<1> DEFINE v == ns[f.at].var
           c0 == ns[f.at].lo
           c1 == ns[f.at].hi
<1>1. /\ v \in Vars /\ EdgeLevel(ns, f) = LevelOf(v)
      /\ Live(ns, c0) /\ EdgeLevel(ns, c0) < LevelOf(v)
      /\ Live(ns, c1) /\ EdgeLevel(ns, c1) < LevelOf(v)
  BY LiveNode
<1>2. \A s \in SUBSET Vars : v \notin s => Index(ns, f, s) = Index(ns, c0, s)
  BY IndexLoHi
<1>3. \A s \in SUBSET Vars : v \in s => Index(ns, f, s) = Index(ns, c1, s \ {v})
  BY IndexLoHi
<1>4. c0 \in Edges /\ c1 \in Edges
  BY <1>1 DEF Live
<1> HIDE DEF v, c0, c1
<1>5. ASSUME NEW s \in SUBSET Vars, v \in s
      PROVE  Index(ns, c0, s) = 0 /\ Index(ns, c1, s) = 0
  BY <1>1, <1>4, <1>5, IndexAbove
<1>6. ASSUME NEW s \in SUBSET Vars
      PROVE  Index(ns, c0, s) \in {0, 1}
  BY <1>2, <1>5 DEF IsFamily
<1>7. ASSUME NEW s \in SUBSET Vars
      PROVE  Index(ns, c1, s) \in {0, 1}
  <2>1. CASE v \in s
    BY <1>5, <2>1
  <2>2. CASE v \notin s
    <3>1. s \cup {v} \in SUBSET Vars /\ v \in s \cup {v} /\ (s \cup {v}) \ {v} = s
      BY <1>1, <2>2
    <3>2. Index(ns, f, s \cup {v}) = Index(ns, c1, s)
      BY <1>3, <3>1
    <3>3. QED
      BY <3>1, <3>2 DEF IsFamily
  <2>3. QED
    BY <2>1, <2>2
<1>8. QED
  BY <1>6, <1>7 DEF IsFamily, c0, c1

BoundEntryOK(ns, e) == Live(ns, e.f) /\ Light(ns, e.h, e.aw, e.rb, ns, e.f)

BoundsOK(ns, es) == \A e \in es : BoundEntryOK(ns, e)

BGood(L) == L \in Libraries /\ StoreOK(L.nodes) /\ BoundsOK(L.nodes, L.memo.entries)

\* A memo that was entered into has the epoch.
MemoStep(m, k) == k = m \/ (k.generation = m.generation /\ k.since = epoch)

BOnward(L, M) ==
  /\ Grown(L.nodes, M.nodes) /\ MemoStep(L.memo, M.memo)
  /\ M.generation = L.generation /\ M.table = L.table /\ M.cache = L.cache

Answered(M, L, f, b) ==
  /\ M.r \in BoundAnswers
  /\ Light(M.nodes, M.r.h, M.r.aw, M.r.rb, L.nodes, f) /\ Holds(b, M.r.aw, M.r.rb)

BDone(L, M, f, b) ==
  /\ BGood(M) /\ BOnward(L, M)
  /\ L.full => M.full
  /\ ~M.full => Answered(M, L, f, b)

LEMMA BOnwardTrans ==
  ASSUME NEW L, NEW M, NEW N, BOnward(L, M), BOnward(M, N)
  PROVE  BOnward(L, N)
<1>1. Grown(L.nodes, N.nodes)
  BY GrownTrans DEF BOnward
<1>2. MemoStep(L.memo, N.memo)
  BY DEF BOnward, MemoStep
<1>3. QED
  BY <1>1, <1>2 DEF BOnward

LEMMA BoundsKept ==
  ASSUME NEW ns, StoreOK(ns), NEW ms, Grown(ns, ms), NEW es, BoundsOK(ns, es)
  PROVE  BoundsOK(ms, es)
<1> SUFFICES ASSUME NEW e \in es
             PROVE  BoundEntryOK(ms, e)
  BY DEF BoundsOK
<1>1. Live(ns, e.f) /\ Light(ns, e.h, e.aw, e.rb, ns, e.f) /\ Live(ns, e.h)
  BY DEF BoundsOK, BoundEntryOK, Light
<1>2. /\ Live(ms, e.f) /\ EdgeLevel(ms, e.f) = EdgeLevel(ns, e.f)
      /\ \A s \in SUBSET Vars : Index(ms, e.f, s) = Index(ns, e.f, s)
  BY <1>1, GrownKeeps
<1>3. /\ Live(ms, e.h) /\ EdgeLevel(ms, e.h) = EdgeLevel(ns, e.h)
      /\ \A s \in SUBSET Vars : Index(ms, e.h, s) = Index(ns, e.h, s)
  BY <1>1, GrownKeeps
<1>4. Light(ms, e.h, e.aw, e.rb, ms, e.f)
  BY <1>1, <1>2, <1>3, LightKept
<1>5. QED
  BY <1>2, <1>4 DEF BoundEntryOK

\* The cases of CostBoundBy.
ConstBound(L, f, b, M) ==
  /\ f = Const(0) => M = [L EXCEPT !.r = Bounded(f, WeightMin, WeightMax)]
  /\ f = Const(1) => M = [L EXCEPT !.r = IF b >= 0 THEN Bounded(f, 0, WeightMax)
                                           ELSE Bounded(Const(0), WeightMin, 0)]

LEMMA BoundConst ==
  ASSUME NEW n \in Nat, NEW below, NEW L \in Libraries, NEW f \in Edges, NEW b \in Weights, ~L.full
  PROVE  ConstBound(L, f, b, CostBoundBy(n, below)[L][f][b])
<1>1. Const(0) # Const(1)
  BY DEF Const
<1>2. QED
  BY <1>1 DEF CostBoundBy, ConstBound

FoundBound(L, f, b, M) ==
  \E e \in L.memo.entries :
    e.f = f /\ e.aw <= b /\ b < e.rb /\ M = [L EXCEPT !.r = Bounded(e.h, e.aw, e.rb)]

LEMMA BoundCached ==
  ASSUME NEW n \in Nat, NEW below, NEW L \in Libraries, NEW f \in Edges, NEW b \in Weights, ~L.full,
         f # Const(0), f # Const(1), lookup(L, f, b) # {}
  PROVE  FoundBound(L, f, b, CostBoundBy(n, below)[L][f][b])
<1> DEFINE e == CHOOSE e \in lookup(L, f, b) : TRUE
<1>1. CostBoundBy(n, below)[L][f][b] = [L EXCEPT !.r = Bounded(e.h, e.aw, e.rb)]
  BY DEF CostBoundBy
<1>2. e \in lookup(L, f, b)
  OBVIOUS
<1> HIDE DEF e
<1>3. e \in L.memo.entries /\ e.f = f /\ e.aw <= b /\ b < e.rb
  BY <1>2 DEF lookup
<1>4. QED
  BY <1>1, <1>3 DEF FoundBound

Inserting(f, x, lo, hi, made) ==
  IF made.full THEN made
  ELSE insert(made, f, Bounded(made.r, Most(lo.r.aw, costbound_safe_add(hi.r.aw, x)),
                               Least(lo.r.rb, costbound_safe_add(hi.r.rb, x))))

NodeBounded(below, L, f, b) ==
  LET d == L.nodes[f.at]
      x == Weight[d.var]
      lo == below[L][d.lo][b]
      hi == below[lo][d.hi][costbound_safe_sub(b, x)]
  IN  Inserting(f, x, lo, hi, getnode_raw(hi, d.var, lo.r.h, hi.r.h))

LEMMA BoundNode ==
  ASSUME NEW n \in Nat, n # 0, NEW below, NEW L \in Libraries, NEW f \in Edges, NEW b \in Weights,
         ~L.full, f # Const(0), f # Const(1), lookup(L, f, b) = {}
  PROVE  CostBoundBy(n, below)[L][f][b] = NodeBounded(below, L, f, b)
BY DEF CostBoundBy, NodeBounded, Inserting

\* M is L with the answer in its memo.
Noted(L, f, r, M) ==
  /\ M \in Libraries /\ M.nodes = L.nodes /\ M.r = r /\ M.full = L.full
  /\ M.generation = L.generation /\ M.table = L.table /\ M.cache = L.cache
  /\ MemoStep(L.memo, M.memo)
  /\ \A e \in M.memo.entries : e \in L.memo.entries \/ (e.f = f /\ e.aw = r.aw /\ e.rb = r.rb /\ e.h = r.h)

LEMMA Inserts ==
  ASSUME epoch \in Nat, NEW L \in Libraries, NEW f \in Edges, NEW r \in BoundAnswers
  PROVE  Noted(L, f, r, insert(L, f, r))
<1> DEFINE new == [f |-> f, aw |-> r.aw, rb |-> r.rb, h |-> r.h]
           es == {e \in L.memo.entries : e.f # f \/ e.aw # r.aw} \cup {new}
           m == [L.memo EXCEPT !.since = epoch, !.entries = es]
           M == insert(L, f, r)
<1>1. M = [L EXCEPT !.r = r, !.memo = m]
  BY DEF insert
<1>2. L.memo \in [generation : Nat, since : Nat, entries : SUBSET [f : Edges, aw : Int, rb : Int, h : Edges]]
  BY DEF Libraries
<1>3. /\ new \in [f : Edges, aw : Int, rb : Int, h : Edges]
      /\ new.f = f /\ new.aw = r.aw /\ new.rb = r.rb /\ new.h = r.h
  BY DEF BoundAnswers
<1> HIDE DEF new
<1>4. /\ es \in SUBSET [f : Edges, aw : Int, rb : Int, h : Edges]
      /\ \A e \in es : e \in L.memo.entries \/ e = new
  BY <1>2, <1>3
<1> HIDE DEF es
<1>5. /\ m \in [generation : Nat, since : Nat, entries : SUBSET [f : Edges, aw : Int, rb : Int, h : Edges]]
      /\ m.entries = es /\ m.since = epoch /\ m.generation = L.memo.generation
  BY <1>2, <1>4
<1> HIDE DEF m, M
<1>6. M \in Libraries /\ M.nodes = L.nodes /\ M.r = r /\ M.memo = m
  BY <1>1, <1>5 DEF Libraries
<1>7. M.full = L.full /\ M.generation = L.generation /\ M.table = L.table /\ M.cache = L.cache
  BY <1>1 DEF Libraries
<1>8. Noted(L, f, r, M)
  BY <1>3, <1>4, <1>5, <1>6, <1>7 DEF Noted, MemoStep
<1>9. QED
  BY <1>8 DEF M

LEMMA LevelNat == \A v \in Vars : LevelOf(v) \in Nat
BY Levels

\* An edge keeps its level and its sets from L on.
LEMMA OnwardKeeps ==
  ASSUME NEW L, NEW M, StoreOK(L.nodes), BOnward(L, M), NEW r, Live(L.nodes, r)
  PROVE  /\ Live(M.nodes, r) /\ EdgeLevel(M.nodes, r) = EdgeLevel(L.nodes, r)
         /\ \A s \in SUBSET Vars : Index(M.nodes, r, s) = Index(L.nodes, r, s)
BY GrownKeeps DEF BOnward

\* The answers for the children make the answer for the node.
LEMMA BoundHalves ==
  ASSUME epoch \in Nat, NEW b \in Weights, NEW L, BGood(L), ~L.full,
         NEW f, Live(L.nodes, f), ~f.const,
         NEW v, v = L.nodes[f.at].var, NEW c0, c0 = L.nodes[f.at].lo, NEW c1, c1 = L.nodes[f.at].hi,
         NEW lo, BDone(L, lo, c0, b), NEW hi, BDone(lo, hi, c1, costbound_safe_sub(b, Weight[v])),
         NEW made, made = getnode_raw(hi, v, lo.r.h, hi.r.h),
         NEW M, M = Inserting(f, Weight[v], lo, hi, made)
  PROVE  BDone(L, M, f, b)
<1> DEFINE x == Weight[v]
<1>1. StoreOK(L.nodes)
  BY DEF BGood
<1>2. hi \in Libraries /\ StoreOK(hi.nodes) /\ BoundsOK(hi.nodes, hi.memo.entries) /\ BGood(hi)
  BY DEF BDone, BGood
<1>3. BOnward(L, lo) /\ BOnward(lo, hi) /\ BOnward(L, hi)
  <2>1. BOnward(L, lo) /\ BOnward(lo, hi)
    BY DEF BDone
  <2>2. QED
    BY <2>1, BOnwardTrans
<1>4. CASE hi.full
  <2>1. made = hi /\ M = hi
    BY <1>4 DEF getnode_raw, Inserting
  <2>2. QED
    BY <1>2, <1>3, <1>4, <2>1 DEF BDone
<1>5. CASE ~hi.full
  <2> DEFINE h0 == lo.r.h
             aw0 == lo.r.aw
             rb0 == lo.r.rb
             h1 == hi.r.h
             aw1 == hi.r.aw
             rb1 == hi.r.rb
             a1 == costbound_safe_add(aw1, x)
             b1 == costbound_safe_add(rb1, x)
  <2>1. ~lo.full
    BY <1>5 DEF BDone
  <2>2. Light(lo.nodes, h0, aw0, rb0, L.nodes, c0) /\ Holds(b, aw0, rb0)
    BY <2>1 DEF BDone, Answered
  <2>3. Light(hi.nodes, h1, aw1, rb1, lo.nodes, c1) /\ Holds(costbound_safe_sub(b, x), aw1, rb1)
    BY <1>5 DEF BDone, Answered
  <2> HIDE DEF h0, aw0, rb0, h1, aw1, rb1
  <2>4. /\ v \in Vars /\ EdgeLevel(L.nodes, f) = LevelOf(v)
        /\ Live(L.nodes, c0) /\ EdgeLevel(L.nodes, c0) < LevelOf(v)
        /\ Live(L.nodes, c1) /\ EdgeLevel(L.nodes, c1) < LevelOf(v)
    <3>1. /\ L.nodes[f.at].var \in Vars
          /\ EdgeLevel(L.nodes, f) = LevelOf(L.nodes[f.at].var)
      BY <1>1, LiveNode
    <3>2. Live(L.nodes, L.nodes[f.at].lo) /\ EdgeLevel(L.nodes, L.nodes[f.at].lo) < EdgeLevel(L.nodes, f)
      BY <1>1, LiveNode
    <3>3. Live(L.nodes, L.nodes[f.at].hi) /\ EdgeLevel(L.nodes, L.nodes[f.at].hi) < EdgeLevel(L.nodes, f)
      BY <1>1, LiveNode
    <3>4. QED
      BY <3>1, <3>2, <3>3
  <2>5. /\ Live(lo.nodes, c1) /\ EdgeLevel(lo.nodes, c1) = EdgeLevel(L.nodes, c1)
        /\ \A s \in SUBSET Vars : Index(lo.nodes, c1, s) = Index(L.nodes, c1, s)
    <3>1. StoreOK(L.nodes) /\ Live(L.nodes, c1) /\ BOnward(L, lo)
      BY <1>1, <1>3, <2>4
    <3>2. QED
      BY <3>1, OnwardKeeps
  <2>6. StoreOK(lo.nodes) /\ Grown(lo.nodes, hi.nodes) /\ Live(lo.nodes, h0) /\ Live(hi.nodes, h1)
    BY <1>3, <2>2, <2>3 DEF BOnward, Grown, Light
  <2>7. /\ Live(hi.nodes, h0) /\ EdgeLevel(hi.nodes, h0) = EdgeLevel(lo.nodes, h0)
        /\ \A s \in SUBSET Vars : Index(hi.nodes, h0, s) = Index(lo.nodes, h0, s)
    BY <2>6, GrownKeeps
  <2>8. Light(hi.nodes, h0, aw0, rb0, L.nodes, c0)
    BY <2>2, <2>7, LightKept
  <2>9. Light(hi.nodes, h1, aw1, rb1, L.nodes, c1)
    BY <2>3, <2>5, <2>6, LightKept
  <2>10. LevelOf(v) \in Nat /\ EdgeLevel(L.nodes, c0) \in Nat /\ EdgeLevel(L.nodes, c1) \in Nat
    <3>1. LevelOf(v) \in Nat
      BY <2>4, LevelNat
    <3>2. EdgeLevel(L.nodes, c0) \in Nat
      <4>1. StoreOK(L.nodes) /\ Live(L.nodes, c0)
        BY <1>1, <2>4
      <4>2. EdgeLevel(L.nodes, c0) \in 0..Height
        BY <4>1, LiveLevel
      <4>3. QED
        BY <4>2, HeightNat
    <3>3. EdgeLevel(L.nodes, c1) \in Nat
      <4>1. StoreOK(L.nodes) /\ Live(L.nodes, c1)
        BY <1>1, <2>4
      <4>2. EdgeLevel(L.nodes, c1) \in 0..Height
        BY <4>1, LiveLevel
      <4>3. QED
        BY <4>2, HeightNat
    <3>4. QED
      BY <3>1, <3>2, <3>3
  <2>11. EdgeLevel(hi.nodes, h0) < LevelOf(v)
    <3>1. EdgeLevel(hi.nodes, h0) \in Nat
      BY <1>2, <2>7, LiveLevel, HeightNat
    <3>2. EdgeLevel(hi.nodes, h0) <= EdgeLevel(L.nodes, c0)
      BY <2>8 DEF Light
    <3>3. QED
      <4>1. PICK i, j, m : i = EdgeLevel(hi.nodes, h0) /\ j = EdgeLevel(L.nodes, c0) /\ m = LevelOf(v)
        OBVIOUS
      <4>2. i \in Nat /\ j \in Nat /\ m \in Nat /\ i <= j /\ j < m
        BY <2>4, <2>10, <3>1, <3>2, <4>1
      <4>3. i < m
        BY <4>2
      <4>4. QED
        BY <4>1, <4>3
  <2>12. EdgeLevel(hi.nodes, h1) < LevelOf(v)
    <3>1. EdgeLevel(hi.nodes, h1) \in Nat
      BY <1>2, <2>6, LiveLevel, HeightNat
    <3>2. EdgeLevel(hi.nodes, h1) <= EdgeLevel(L.nodes, c1)
      BY <2>9 DEF Light
    <3>3. QED
      <4>1. PICK i, j, m : i = EdgeLevel(hi.nodes, h1) /\ j = EdgeLevel(L.nodes, c1) /\ m = LevelOf(v)
        OBVIOUS
      <4>2. i \in Nat /\ j \in Nat /\ m \in Nat /\ i <= j /\ j < m
        BY <2>4, <2>10, <3>1, <3>2, <4>1
      <4>3. i < m
        BY <4>2
      <4>4. QED
        BY <4>1, <4>3
  <2>13. MadeNode(hi, v, h0, h1, made)
    <3>1. made = getnode_raw(hi, v, h0, h1)
      BY DEF h0, h1
    <3>2. QED
      BY <1>2, <1>5, <2>4, <2>6, <2>7, <2>11, <2>12, <3>1, GetNode
  <2>14. /\ made \in Libraries /\ StoreOK(made.nodes) /\ SameRest(hi, made) /\ Grown(hi.nodes, made.nodes)
         /\ BOnward(hi, made)
    BY <2>13 DEF MadeNode, SameRest, BOnward, Grown, MemoStep
  <2>15. BOnward(L, made)
    BY <1>3, <2>14, BOnwardTrans
  <2>16. BoundsOK(made.nodes, made.memo.entries)
    <3>1. BoundsOK(made.nodes, hi.memo.entries)
      BY <1>2, <2>14, BoundsKept
    <3>2. QED
      BY <2>14, <3>1 DEF SameRest
  <2>17. CASE made.full
    <3>1. M = made
      BY <2>17 DEF Inserting
    <3>2. QED
      BY <2>14, <2>15, <2>16, <2>17, <3>1 DEF BDone, BGood
  <2>18. CASE ~made.full
    <3> DEFINE aw == Most(aw0, a1)
               rb == Least(rb0, b1)
               ans == Bounded(made.r, aw, rb)
    <3>1. Joins(made.nodes, made.r, v, hi.nodes, h0, h1)
      BY <2>13, <2>18 DEF MadeNode
    <3>2. LowMoved(hi.nodes, h1, v, aw1, a1)
      BY <1>2, <2>4, <2>6, <2>9, <2>12, LowShift DEF Light
    <3>3. HighMoved(hi.nodes, h1, L.nodes, c1, v, rb1, b1)
      BY <1>1, <2>4, <2>9, HighShift DEF Light
    <3> HIDE DEF a1, b1
    <3>4. Holds(b, a1, b1) /\ a1 \in Weights /\ b1 \in Weights
      BY <2>3, <2>4, <3>2, <3>3, HoldsShift
    <3>5. aw0 \in Weights /\ rb0 \in Weights
      BY <2>8, LightEnds
    <3>6. Holds(b, aw, rb)
      BY <2>2, <3>4, <3>5, HoldsBoth
    <3>7. Light(made.nodes, made.r, aw, rb, L.nodes, f)
      BY <1>1, <1>2, <2>8, <2>9, <3>1, <3>2, <3>3, <3>4, LightNode
    <3> HIDE DEF aw, rb
    <3>8. aw \in Int /\ rb \in Int /\ made.r \in Edges
      <4>1. aw \in Weights /\ rb \in Weights
        BY <3>7, LightEnds
      <4>2. Live(made.nodes, made.r)
        BY <3>7 DEF Light
      <4>3. QED
        BY <4>1, <4>2, WeightEnds DEF Live
    <3>9. ans \in BoundAnswers /\ ans.h = made.r /\ ans.aw = aw /\ ans.rb = rb
      BY <3>8 DEF Bounded, BoundAnswers
    <3>10. M = insert(made, f, ans)
      BY <2>18 DEF Inserting, aw, rb, a1, b1, aw0, rb0, aw1, rb1
    <3> HIDE DEF ans
    <3>11. /\ Live(made.nodes, f) /\ EdgeLevel(made.nodes, f) = EdgeLevel(L.nodes, f)
           /\ \A s \in SUBSET Vars : Index(made.nodes, f, s) = Index(L.nodes, f, s)
      <4>1. Grown(L.nodes, made.nodes)
        BY <2>15 DEF BOnward
      <4>2. QED
        <5>1. PICK ns, ms : ns = L.nodes /\ ms = made.nodes
          OBVIOUS
        <5>2. StoreOK(ns) /\ Live(ns, f) /\ Grown(ns, ms)
          BY <1>1, <4>1, <5>1
        <5>3. /\ Live(ms, f) /\ EdgeLevel(ms, f) = EdgeLevel(ns, f)
              /\ \A s \in SUBSET Vars : Index(ms, f, s) = Index(ns, f, s)
          BY <5>2, GrownKeeps
        <5>4. QED
          BY <5>1, <5>3
    <3>12. Light(made.nodes, made.r, aw, rb, made.nodes, f)
      <4>1. Live(made.nodes, made.r)
        BY <3>7 DEF Light
      <4>2. QED
        BY <3>7, <3>11, <4>1, LightKept
    <3>13. Noted(made, f, ans, M)
      <4>1. f \in Edges
        BY <3>11 DEF Live
      <4>2. QED
        BY <2>14, <3>9, <3>10, <4>1, Inserts
    <3>14. BoundsOK(M.nodes, M.memo.entries)
      <4> SUFFICES ASSUME NEW e \in M.memo.entries
                   PROVE  BoundEntryOK(made.nodes, e)
        BY <3>13 DEF BoundsOK, Noted
      <4>1. CASE e \in made.memo.entries
        BY <2>16, <4>1 DEF BoundsOK
      <4>2. CASE e.f = f /\ e.aw = ans.aw /\ e.rb = ans.rb /\ e.h = ans.h
        BY <3>9, <3>11, <3>12, <4>2 DEF BoundEntryOK
      <4>3. QED
        BY <3>13, <4>1, <4>2 DEF Noted
    <3>15. BGood(M)
      BY <2>14, <3>13, <3>14 DEF BGood, Noted
    <3>16. BOnward(L, M)
      <4>1. BOnward(made, M)
        BY <2>14, <3>13 DEF BOnward, Noted, Grown
      <4>2. QED
        BY <2>15, <4>1, BOnwardTrans
    <3>17. Answered(M, L, f, b)
      BY <3>6, <3>7, <3>9, <3>13 DEF Answered, Noted
    <3>18. QED
      BY <3>15, <3>16, <3>17 DEF BDone
  <2>19. QED
    BY <2>17, <2>18
<1>6. QED
  BY <1>4, <1>5

BoundKeeps(n) ==
  \A L \in Libraries, f \in Edges, b \in Weights :
    BGood(L) /\ Live(L.nodes, f) /\ IsFamily(L.nodes, f) /\ EdgeLevel(L.nodes, f) <= n =>
      BDone(L, bddcostbound_rec[n][L][f][b], f, b)

\* A constant family is its own answer, or the empty one.
ConstAnswers(ns, b) ==
  /\ Light(ns, Const(0), WeightMin, WeightMax, ns, Const(0)) /\ Holds(b, WeightMin, WeightMax)
  /\ b >= 0 => Light(ns, Const(1), 0, WeightMax, ns, Const(1)) /\ Holds(b, 0, WeightMax)
  /\ ~(b >= 0) => Light(ns, Const(0), WeightMin, 0, ns, Const(1)) /\ Holds(b, WeightMin, 0)

LEMMA LightConst ==
  ASSUME NEW ns, StoreOK(ns), NEW b \in Weights
  PROVE  ConstAnswers(ns, b)
<1>1. /\ Const(0) \in Edges /\ Const(0).const = TRUE /\ Const(0).at = 0
      /\ Const(1) \in Edges /\ Const(1).const = TRUE /\ Const(1).at = 1
  BY DEF Const, Edges
<1>2. /\ Live(ns, Const(0)) /\ EdgeLevel(ns, Const(0)) = 0
      /\ Live(ns, Const(1)) /\ EdgeLevel(ns, Const(1)) = 0
  BY <1>1 DEF Live, EdgeLevel
<1>3. \A s \in SUBSET Vars : Index(ns, Const(0), s) = 0
  BY <1>1, <1>2, IndexConst
<1>4. \A s \in SUBSET Vars : Index(ns, Const(1), s) = IF s = {} THEN 1 ELSE 0
  BY <1>1, <1>2, IndexConst
<1>5. b \in Int /\ WeightMin <= b /\ b <= WeightMax /\ WeightMin < 0 /\ 0 < WeightMax /\ Cost({}) = 0
      /\ {} \in SUBSET Vars
  BY WeightEnds, CostAdds
<1>6. Light(ns, Const(0), WeightMin, WeightMax, ns, Const(0)) /\ Holds(b, WeightMin, WeightMax)
  BY <1>2, <1>3, <1>5 DEF Light, Holds, LowEnd, HighEnd
<1>7. b >= 0 => Light(ns, Const(1), 0, WeightMax, ns, Const(1)) /\ Holds(b, 0, WeightMax)
  <2>1. LowEnd(ns, Const(1), 0) /\ HighEnd(ns, Const(1), ns, Const(1), WeightMax)
    BY <1>4, <1>5 DEF LowEnd, HighEnd
  <2>2. QED
    BY <1>2, <1>4, <1>5, <2>1 DEF Light, Holds
<1>8. ~(b >= 0) => Light(ns, Const(0), WeightMin, 0, ns, Const(1)) /\ Holds(b, WeightMin, 0)
  <2>1. LowEnd(ns, Const(0), WeightMin) /\ HighEnd(ns, Const(0), ns, Const(1), 0)
    BY <1>3, <1>4, <1>5 DEF LowEnd, HighEnd
  <2>2. QED
    BY <1>2, <1>3, <1>4, <1>5, <2>1 DEF Light, Holds
<1>9. QED
  BY <1>6, <1>7, <1>8 DEF ConstAnswers

LEMMA BoundFlat ==
  ASSUME NEW n \in Nat, NEW below, NEW b \in Weights,
         NEW L \in Libraries, BGood(L), NEW f \in Edges, Live(L.nodes, f), IsFamily(L.nodes, f),
         NEW M, M = CostBoundBy(n, below)[L][f][b],
         L.full \/ f.const \/ lookup(L, f, b) # {}
  PROVE  BDone(L, M, f, b)
<1>1. StoreOK(L.nodes) /\ BoundsOK(L.nodes, L.memo.entries)
  BY DEF BGood
<1>2. BOnward(L, L)
  BY <1>1 DEF BOnward, Grown, MemoStep
<1>3. CASE L.full
  <2>1. M = L
    BY <1>3 DEF CostBoundBy
  <2>2. QED
    BY <1>2, <1>3, <2>1 DEF BDone
<1>4. ASSUME NEW h, NEW aw, NEW rb, Light(L.nodes, h, aw, rb, L.nodes, f), Holds(b, aw, rb),
             M = [L EXCEPT !.r = Bounded(h, aw, rb)]
      PROVE  BDone(L, M, f, b)
  <2> DEFINE r == Bounded(h, aw, rb)
  <2>1. aw \in Int /\ rb \in Int /\ h \in Edges
    BY <1>4, LightEnds, WeightEnds DEF Light, Live
  <2>2. r \in BoundAnswers /\ r.h = h /\ r.aw = aw /\ r.rb = rb
    BY <2>1 DEF Bounded, BoundAnswers
  <2>3. M = [L EXCEPT !.r = r]
    BY <1>4
  <2> HIDE DEF r
  <2>4. M \in Libraries /\ M.nodes = L.nodes /\ M.table = L.table /\ M.cache = L.cache /\ M.r = r
    BY <2>2, <2>3 DEF Libraries
  <2>5. M.generation = L.generation /\ M.memo = L.memo /\ M.full = L.full
    BY <2>3 DEF Libraries
  <2>6. Answered(M, L, f, b)
    BY <1>4, <2>2, <2>4 DEF Answered
  <2>7. BGood(M) /\ BOnward(L, M)
    BY <1>1, <1>2, <2>4, <2>5 DEF BGood, BOnward
  <2>8. QED
    BY <2>5, <2>6, <2>7 DEF BDone
<1>5. f = Const(0) \/ f = Const(1) => f.const = TRUE
  BY DEF Const
<1>6. CASE ~L.full /\ f.const
  <2>1. f.at \in {0, 1}
    <3>1. Index(L.nodes, f, {}) = f.at
      BY <1>1, <1>6, IndexConst
    <3>2. QED
      BY <3>1 DEF IsFamily
  <2>2. f = Const(0) \/ f = Const(1)
    BY <1>6, <2>1 DEF Edges, Const
  <2> ConstAnswers(L.nodes, b)
    BY <1>1, LightConst
  <2> ConstBound(L, f, b, M)
    BY <1>6, BoundConst
  <2>3. CASE f = Const(0)
    <3>1. M = [L EXCEPT !.r = Bounded(f, WeightMin, WeightMax)]
      BY <2>3 DEF ConstBound
    <3>2. Light(L.nodes, f, WeightMin, WeightMax, L.nodes, f) /\ Holds(b, WeightMin, WeightMax)
      BY <2>3 DEF ConstAnswers
    <3>3. QED
      BY <1>4, <3>1, <3>2
  <2>4. CASE f = Const(1) /\ b >= 0
    <3>1. M = [L EXCEPT !.r = Bounded(f, 0, WeightMax)]
      BY <2>4 DEF ConstBound
    <3>2. Light(L.nodes, f, 0, WeightMax, L.nodes, f) /\ Holds(b, 0, WeightMax)
      BY <2>4 DEF ConstAnswers
    <3>3. QED
      BY <1>4, <3>1, <3>2
  <2>5. CASE f = Const(1) /\ ~(b >= 0)
    <3>1. M = [L EXCEPT !.r = Bounded(Const(0), WeightMin, 0)]
      BY <2>5 DEF ConstBound
    <3>2. Light(L.nodes, Const(0), WeightMin, 0, L.nodes, f) /\ Holds(b, WeightMin, 0)
      BY <2>5 DEF ConstAnswers
    <3>3. QED
      BY <1>4, <3>1, <3>2
  <2>6. QED
    BY <2>2, <2>3, <2>4, <2>5
<1>7. CASE ~L.full /\ ~f.const
  <2>1. FoundBound(L, f, b, M)
    BY <1>5, <1>7, BoundCached
  <2>2. PICK e \in L.memo.entries : e.f = f /\ e.aw <= b /\ b < e.rb /\ M = [L EXCEPT !.r = Bounded(e.h, e.aw, e.rb)]
    BY <2>1 DEF FoundBound
  <2>3. Light(L.nodes, e.h, e.aw, e.rb, L.nodes, f)
    BY <1>1, <2>2 DEF BoundsOK, BoundEntryOK
  <2>4. Holds(b, e.aw, e.rb)
    BY <2>2 DEF Holds
  <2>5. QED
    BY <1>4, <2>2, <2>3, <2>4
<1>8. QED
  BY <1>3, <1>6, <1>7

LEMMA BoundStep ==
  ASSUME epoch \in Nat, NEW n \in Nat, BoundKeeps(n)
  PROVE  BoundKeeps(n + 1)
<1> SUFFICES ASSUME NEW L \in Libraries, NEW f \in Edges, NEW b \in Weights,
                    BGood(L), Live(L.nodes, f), IsFamily(L.nodes, f), EdgeLevel(L.nodes, f) <= n + 1
             PROVE  BDone(L, bddcostbound_rec[n + 1][L][f][b], f, b)
  BY DEF BoundKeeps
<1> DEFINE below == bddcostbound_rec[n]
           M == CostBoundBy(n + 1, below)[L][f][b]
<1>1. bddcostbound_rec[n + 1][L][f][b] = M
  BY CostBoundUnfolds
<1>2. n + 1 \in Nat /\ n + 1 # 0
  OBVIOUS
<1>3. CASE L.full \/ f.const \/ lookup(L, f, b) # {}
  <2>1. BDone(L, M, f, b)
    BY <1>2, <1>3, BoundFlat
  <2>2. QED
    BY <1>1, <2>1
<1>4. CASE ~L.full /\ ~f.const /\ lookup(L, f, b) = {}
  <2> DEFINE d == L.nodes[f.at]
             c0 == d.lo
             c1 == d.hi
             x == Weight[d.var]
             y == costbound_safe_sub(b, x)
             lo == below[L][c0][b]
             hi == below[lo][c1][y]
             made == getnode_raw(hi, d.var, lo.r.h, hi.r.h)
  <2>1. M = Inserting(f, x, lo, hi, made)
    <3>1. f # Const(0) /\ f # Const(1)
      BY <1>4 DEF Const
    <3>2. M = NodeBounded(below, L, f, b)
      BY <1>2, <1>4, <3>1, BoundNode
    <3>3. QED
      BY <3>2 DEF NodeBounded
  <2>2. StoreOK(L.nodes)
    BY DEF BGood
  <2>3. /\ Live(L.nodes, c0) /\ EdgeLevel(L.nodes, c0) < EdgeLevel(L.nodes, f)
        /\ Live(L.nodes, c1) /\ EdgeLevel(L.nodes, c1) < EdgeLevel(L.nodes, f)
        /\ d.var \in Vars
    BY <1>4, <2>2, LiveNode
  <2>4. EdgeLevel(L.nodes, f) \in Nat
    BY <2>2, LiveLevel, HeightNat
  <2>5. IsFamily(L.nodes, c0) /\ IsFamily(L.nodes, c1)
    BY <1>4, <2>2, FamilyChildren
  <2>6. y \in Weights
    <3>1. x \in Int /\ WeightMin < x /\ x < WeightMax
      BY <2>3, CostAdds
    <3>2. QED
      BY <3>1, SafeSub
  <2> HIDE DEF c0, c1, y
  <2>7. EdgeLevel(L.nodes, c0) <= n /\ c0 \in Edges
    <3>1. EdgeLevel(L.nodes, c0) \in Nat /\ c0 \in Edges
      BY <2>2, <2>3, LiveLevel, HeightNat
    <3>2. QED
      BY <2>3, <2>4, <3>1
  <2>8. EdgeLevel(L.nodes, c1) <= n /\ c1 \in Edges
    <3>1. EdgeLevel(L.nodes, c1) \in Nat /\ c1 \in Edges
      BY <2>2, <2>3, LiveLevel, HeightNat
    <3>2. QED
      BY <2>3, <2>4, <3>1
  <2>9. BDone(L, lo, c0, b)
    BY <2>3, <2>5, <2>7 DEF BoundKeeps
  <2> HIDE DEF lo
  <2>10. BGood(lo) /\ lo \in Libraries /\ Grown(L.nodes, lo.nodes)
    BY <2>9 DEF BDone, BGood, BOnward
  <2>11. Live(lo.nodes, c1) /\ EdgeLevel(lo.nodes, c1) <= n /\ IsFamily(lo.nodes, c1)
    <3>1. /\ Live(lo.nodes, c1) /\ EdgeLevel(lo.nodes, c1) = EdgeLevel(L.nodes, c1)
          /\ \A s \in SUBSET Vars : Index(lo.nodes, c1, s) = Index(L.nodes, c1, s)
      BY <2>2, <2>3, <2>10, GrownKeeps
    <3>2. QED
      BY <2>5, <2>8, <3>1 DEF IsFamily
  <2>12. BDone(lo, hi, c1, y)
    BY <2>6, <2>8, <2>10, <2>11 DEF BoundKeeps
  <2> HIDE DEF hi, M
  <2>13. BDone(L, M, f, b)
    BY <1>4, <2>1, <2>9, <2>12, BoundHalves DEF c0, c1, y
  <2>14. QED
    BY <1>1, <2>13
<1>5. QED
  BY <1>3, <1>4

LEMMA BoundRight ==
  ASSUME epoch \in Nat
  PROVE  \A n \in Nat : BoundKeeps(n)
<1> DEFINE S == {n \in Nat : BoundKeeps(n)}
<1>1. BoundKeeps(0)
  <2> SUFFICES ASSUME NEW L \in Libraries, NEW f \in Edges, NEW b \in Weights,
                      BGood(L), Live(L.nodes, f), IsFamily(L.nodes, f), EdgeLevel(L.nodes, f) <= 0
               PROVE  BDone(L, bddcostbound_rec[0][L][f][b], f, b)
    BY DEF BoundKeeps
  <2>1. StoreOK(L.nodes)
    BY DEF BGood
  <2>2. f.const
    BY <2>1, LiveLevel, HeightNat
  <2>3. bddcostbound_rec[0] = CostBoundBy(0, <<>>)
    BY CostBoundUnfolds
  <2>4. BDone(L, CostBoundBy(0, <<>>)[L][f][b], f, b)
    BY <2>2, BoundFlat
  <2>5. QED
    BY <2>3, <2>4
<1>2. 0 \in S /\ \A n \in Nat : n \in S => n + 1 \in S
  BY <1>1, BoundStep
<1> HIDE DEF S
<1>3. Nat \subseteq S
  BY <1>2, Induct
<1>4. QED
  BY <1>3 DEF S

-----------------------------------------------------------------------------
(***************************************************************************)
(* exact_count: a node has as many sets as its two children.               *)
(***************************************************************************)
SetsOf(ns, f) == {s \in SUBSET Vars : Index(ns, f, s) # 0}
SizeOf(ns, f) == Cardinality(SetsOf(ns, f))

LEMMA SetsFinite ==
  ASSUME NEW ns, NEW f
  PROVE  IsFiniteSet(SetsOf(ns, f)) /\ SizeOf(ns, f) \in Nat
<1>1. IsFiniteSet(SUBSET Vars)
  BY FamilyAssumption, FS_SUBSET
<1>2. SetsOf(ns, f) \in SUBSET (SUBSET Vars)
  BY DEF SetsOf
<1>3. IsFiniteSet(SetsOf(ns, f))
  BY <1>1, <1>2, FS_Subset
<1>4. QED
  BY <1>3, FS_CardinalityType DEF SizeOf

LEMMA SizeConst ==
  ASSUME NEW ns, StoreOK(ns), NEW f, Live(ns, f), f.const, IsFamily(ns, f)
  PROVE  SizeOf(ns, f) = f.at
<1>1. \A s \in SUBSET Vars : Index(ns, f, s) = IF s = {} THEN f.at ELSE 0
  BY IndexConst
<1>2. {} \in SUBSET Vars
  OBVIOUS
<1>3. f.at \in {0, 1}
  BY <1>1, <1>2 DEF IsFamily
<1>4. CASE f.at = 0
  <2>1. SetsOf(ns, f) = {}
    BY <1>1, <1>4 DEF SetsOf
  <2>2. QED
    BY <1>4, <2>1, FS_EmptySet DEF SizeOf
<1>5. CASE f.at = 1
  <2>1. SetsOf(ns, f) = {{}}
    BY <1>1, <1>2, <1>5 DEF SetsOf
  <2>2. QED
    BY <1>5, <2>1, FS_Singleton DEF SizeOf
<1>6. QED
  BY <1>3, <1>4, <1>5

LEMMA SizeNode ==
  ASSUME NEW ns, StoreOK(ns), NEW f, Live(ns, f), ~f.const
  PROVE  SizeOf(ns, f) = SizeOf(ns, ns[f.at].lo) + SizeOf(ns, ns[f.at].hi)
<1> DEFINE v == ns[f.at].var
           c0 == ns[f.at].lo
           c1 == ns[f.at].hi
           A == SetsOf(ns, f)
           A0 == SetsOf(ns, c0)
           A1 == SetsOf(ns, c1)
           B == {s \in A : v \in s}
           with == [t \in A1 |-> t \cup {v}]
<1>1. /\ v \in Vars /\ EdgeLevel(ns, f) = LevelOf(v)
      /\ Live(ns, c0) /\ EdgeLevel(ns, c0) < LevelOf(v)
      /\ Live(ns, c1) /\ EdgeLevel(ns, c1) < LevelOf(v)
  BY LiveNode
<1>2. \A s \in SUBSET Vars : v \notin s => Index(ns, f, s) = Index(ns, c0, s)
  BY IndexLoHi
<1>3. \A s \in SUBSET Vars : v \in s => Index(ns, f, s) = Index(ns, c1, s \ {v})
  BY IndexLoHi
<1>4. c0 \in Edges /\ c1 \in Edges
  BY <1>1 DEF Live
<1> HIDE DEF v, c0, c1
<1>5. \A s \in SUBSET Vars : v \in s => Index(ns, c0, s) = 0 /\ Index(ns, c1, s) = 0
  <2> SUFFICES ASSUME NEW s \in SUBSET Vars, v \in s
               PROVE  Index(ns, c0, s) = 0 /\ Index(ns, c1, s) = 0
    OBVIOUS
  <2>1. QED
    BY <1>1, <1>4, IndexAbove
<1>6. A0 = {s \in A : v \notin s}
  BY <1>2, <1>5 DEF SetsOf
<1>7. A = A0 \cup B /\ A0 \cap B = {}
  BY <1>6
<1>8. \A t \in A1 : t \in SUBSET Vars /\ v \notin t /\ t \cup {v} \in B
  <2> SUFFICES ASSUME NEW t \in A1
               PROVE  t \in SUBSET Vars /\ v \notin t /\ t \cup {v} \in B
    OBVIOUS
  <2>1. t \in SUBSET Vars /\ Index(ns, c1, t) # 0
    BY DEF SetsOf
  <2>2. v \notin t
    BY <1>5, <2>1
  <2>3. t \cup {v} \in SUBSET Vars /\ v \in t \cup {v} /\ (t \cup {v}) \ {v} = t
    BY <1>1, <2>1, <2>2
  <2>4. Index(ns, f, t \cup {v}) # 0
    BY <1>3, <2>1, <2>3
  <2>5. QED
    BY <2>1, <2>2, <2>3, <2>4 DEF SetsOf
<1>9. \A s \in B : s \ {v} \in A1 /\ (s \ {v}) \cup {v} = s
  BY <1>3 DEF SetsOf
<1>10. with \in Bijection(A1, B)
  <2>1. with \in [A1 -> B]
    BY <1>8
  <2>2. \A t, u \in A1 : with[t] = with[u] => t = u
    <3> SUFFICES ASSUME NEW t \in A1, NEW u \in A1, t \cup {v} = u \cup {v}
                 PROVE  t = u
      OBVIOUS
    <3>1. v \notin t /\ v \notin u
      BY <1>8
    <3>2. QED
      BY <3>1
  <2>3. \A s \in B : \E t \in A1 : with[t] = s
    BY <1>9
  <2> HIDE DEF with, A1, B
  <2>4. QED
    BY <2>1, <2>2, <2>3 DEF Bijection, Injection, Surjection, IsInjective
<1>11. IsFiniteSet(A) /\ IsFiniteSet(A0) /\ IsFiniteSet(A1)
  BY SetsFinite
<1> HIDE DEF A, A0, A1
<1>12. IsFiniteSet(B) /\ Cardinality(B) = Cardinality(A1)
  <2>1. ExistsBijection(A1, B)
    BY <1>10 DEF ExistsBijection
  <2> HIDE DEF B, with
  <2>2. QED
    BY <1>11, <2>1, FS_Bijection
<1> HIDE DEF B
<1>13. Cardinality(A0 \cup B) = Cardinality(A0) + Cardinality(B) - Cardinality(A0 \cap B)
  BY <1>11, <1>12, FS_Union
<1>14. Cardinality(A0 \cap B) = 0
  BY <1>7, FS_EmptySet
<1>15. Cardinality(A0) \in Nat /\ Cardinality(A1) \in Nat
  BY <1>11, FS_CardinalityType
<1>16. Cardinality(A) = Cardinality(A0) + Cardinality(A1)
  BY <1>7, <1>12, <1>13, <1>14, <1>15
<1>17. QED
  BY <1>16 DEF SizeOf, A, A0, A1, c0, c1

\* The memo has the sizes of nodes of K only, the nodes of its diagram.
CountEntryOK(ns, K, e) ==
  Live(ns, e[1]) /\ ~e[1].const /\ Within(e[1], K) /\ e[2] = SizeOf(ns, e[1])

CountMapOK(ns, K, map) ==
  map \in SUBSET (Edges \X Nat) /\ \A e \in map : CountEntryOK(ns, K, e)

CountedIn(map, f) == f.const \/ \E e \in map : e[1] = f

CountDone(ns, K, map, res, f) == CountMapOK(ns, K, res) /\ map \subseteq res /\ CountedIn(res, f)

LEMMA CountedSize ==
  ASSUME NEW ns, StoreOK(ns), NEW K, NEW map, CountMapOK(ns, K, map),
         NEW f, Live(ns, f), IsFamily(ns, f), CountedIn(map, f)
  PROVE  Counted(map, f) = SizeOf(ns, f)
<1>1. CASE f.const
  BY <1>1, SizeConst DEF Counted
<1>2. CASE ~f.const
  <2> DEFINE e == CHOOSE e \in map : e[1] = f
  <2>1. e \in map /\ e[1] = f
    BY <1>2 DEF CountedIn
  <2>2. Counted(map, f) = e[2]
    BY <1>2 DEF Counted
  <2> HIDE DEF e
  <2>3. e[2] = SizeOf(ns, f)
    BY <2>1 DEF CountMapOK, CountEntryOK
  <2>4. QED
    BY <2>2, <2>3
<1>3. QED
  BY <1>1, <1>2

\* The cases of ExactCountBy.
LEMMA CountFlat ==
  ASSUME NEW n \in Nat, NEW below, NEW map \in SUBSET (Edges \X Nat), NEW f \in Edges, CountedIn(map, f)
  PROVE  ExactCountBy(n, below)[map][f] = map
BY DEF ExactCountBy, CountedIn

NodeCounted(below, ns, map, f) ==
  LET d == ns[f.at]
      both == below[below[map][d.lo]][d.hi]
  IN  both \cup {<<f, Counted(both, d.lo) + Counted(both, d.hi)>>}

LEMMA CountNode ==
  ASSUME NEW n \in Nat, n # 0, NEW below, NEW map \in SUBSET (Edges \X Nat), NEW f \in Edges,
         ~CountedIn(map, f)
  PROVE  ExactCountBy(n, below)[map][f] = NodeCounted(below, nodes, map, f)
BY DEF ExactCountBy, CountedIn, NodeCounted

CountKeeps(n, K) ==
  \A map \in SUBSET (Edges \X Nat), f \in Edges :
    (/\ CountMapOK(nodes, K, map) /\ Live(nodes, f) /\ IsFamily(nodes, f) /\ Within(f, K)
     /\ EdgeLevel(nodes, f) <= n) =>
      CountDone(nodes, K, map, bddexactcount_rec[n][map][f], f)

\* The counts of the children make the count of the node.
LEMMA CountHalves ==
  ASSUME NEW ns, StoreOK(ns), NEW K, NEW f, Live(ns, f), ~f.const, IsFamily(ns, f), Within(f, K),
         NEW c0, c0 = ns[f.at].lo, NEW c1, c1 = ns[f.at].hi,
         NEW map, NEW one, CountDone(ns, K, map, one, c0), NEW both, CountDone(ns, K, one, both, c1),
         NEW M, M = both \cup {<<f, Counted(both, c0) + Counted(both, c1)>>}
  PROVE  CountDone(ns, K, map, M, f)
<1>1. /\ Live(ns, c0) /\ Live(ns, c1) /\ IsFamily(ns, c0) /\ IsFamily(ns, c1)
  <2>1. Live(ns, ns[f.at].lo) /\ Live(ns, ns[f.at].hi)
    BY LiveNode
  <2>2. IsFamily(ns, ns[f.at].lo) /\ IsFamily(ns, ns[f.at].hi)
    BY FamilyChildren
  <2>3. QED
    BY <2>1, <2>2
<1>2. CountMapOK(ns, K, both) /\ map \subseteq both /\ CountedIn(both, c0) /\ CountedIn(both, c1)
  BY DEF CountDone, CountedIn
<1>3. Counted(both, c0) = SizeOf(ns, c0)
  BY <1>1, <1>2, CountedSize
<1>4. Counted(both, c1) = SizeOf(ns, c1)
  BY <1>1, <1>2, CountedSize
<1>5. SizeOf(ns, f) = SizeOf(ns, c0) + SizeOf(ns, c1) /\ SizeOf(ns, f) \in Nat
  <2>1. SizeOf(ns, f) = SizeOf(ns, ns[f.at].lo) + SizeOf(ns, ns[f.at].hi)
    BY SizeNode
  <2>2. QED
    BY <2>1, SetsFinite
<1> DEFINE e == <<f, SizeOf(ns, f)>>
<1>6. M = both \cup {e}
  BY <1>3, <1>4, <1>5
<1>7. e \in Edges \X Nat /\ e[1] = f /\ e[2] = SizeOf(ns, f)
  BY <1>5 DEF Live
<1> HIDE DEF e
<1>8. CountEntryOK(ns, K, e)
  BY <1>7 DEF CountEntryOK
<1>9. CountMapOK(ns, K, M)
  <2>1. M \in SUBSET (Edges \X Nat)
    BY <1>2, <1>6, <1>7 DEF CountMapOK
  <2>2. QED
    BY <1>2, <1>6, <1>8, <2>1 DEF CountMapOK
<1>10. CountedIn(M, f)
  BY <1>6, <1>7 DEF CountedIn
<1>11. QED
  BY <1>2, <1>6, <1>9, <1>10 DEF CountDone

LEMMA CountStep ==
  ASSUME StoreOK(nodes), NEW K, Closed(nodes, K), NEW n \in Nat, CountKeeps(n, K)
  PROVE  CountKeeps(n + 1, K)
<1> SUFFICES ASSUME NEW map \in SUBSET (Edges \X Nat), NEW f \in Edges,
                    CountMapOK(nodes, K, map), Live(nodes, f), IsFamily(nodes, f), Within(f, K),
                    EdgeLevel(nodes, f) <= n + 1
             PROVE  CountDone(nodes, K, map, bddexactcount_rec[n + 1][map][f], f)
  BY DEF CountKeeps
<1> DEFINE below == bddexactcount_rec[n]
           M == ExactCountBy(n + 1, below)[map][f]
<1>1. bddexactcount_rec[n + 1][map][f] = M
  BY ExactCountUnfolds
<1>2. n + 1 \in Nat /\ n + 1 # 0
  OBVIOUS
<1>3. CASE CountedIn(map, f)
  <2>1. M = map
    BY <1>2, <1>3, CountFlat
  <2>2. QED
    BY <1>1, <1>3, <2>1 DEF CountDone
<1>4. CASE ~CountedIn(map, f)
  <2> DEFINE d == nodes[f.at]
             c0 == d.lo
             c1 == d.hi
             one == below[map][c0]
             both == below[one][c1]
  <2>1. M = both \cup {<<f, Counted(both, c0) + Counted(both, c1)>>}
    <3>1. M = NodeCounted(below, nodes, map, f)
      BY <1>2, <1>4, CountNode
    <3>2. QED
      BY <3>1 DEF NodeCounted
  <2>2. ~f.const
    BY <1>4 DEF CountedIn
  <2>3. /\ Live(nodes, c0) /\ EdgeLevel(nodes, c0) < EdgeLevel(nodes, f)
        /\ Live(nodes, c1) /\ EdgeLevel(nodes, c1) < EdgeLevel(nodes, f)
    BY <2>2, LiveNode
  <2>4. EdgeLevel(nodes, f) \in Nat
    BY LiveLevel, HeightNat
  <2>5. IsFamily(nodes, c0) /\ IsFamily(nodes, c1)
    BY <2>2, FamilyChildren
  <2>6. Within(c0, K) /\ Within(c1, K)
    BY <2>2 DEF Within, Closed
  <2> HIDE DEF c0, c1
  <2>7. EdgeLevel(nodes, c0) <= n /\ c0 \in Edges
    <3>1. EdgeLevel(nodes, c0) \in Nat /\ c0 \in Edges
      BY <2>3, LiveLevel, HeightNat
    <3>2. QED
      BY <2>3, <2>4, <3>1
  <2>8. EdgeLevel(nodes, c1) <= n /\ c1 \in Edges
    <3>1. EdgeLevel(nodes, c1) \in Nat /\ c1 \in Edges
      BY <2>3, LiveLevel, HeightNat
    <3>2. QED
      BY <2>3, <2>4, <3>1
  <2>9. CountDone(nodes, K, map, one, c0)
    BY <2>3, <2>5, <2>6, <2>7 DEF CountKeeps
  <2> HIDE DEF one
  <2>10. CountDone(nodes, K, one, both, c1)
    BY <2>3, <2>5, <2>6, <2>8, <2>9 DEF CountKeeps, CountDone, CountMapOK
  <2> HIDE DEF both, M
  <2>11. CountDone(nodes, K, map, M, f)
    BY <2>1, <2>2, <2>9, <2>10, CountHalves DEF c0, c1
  <2>12. QED
    BY <1>1, <2>11
<1>5. QED
  BY <1>3, <1>4

LEMMA CountRight ==
  ASSUME StoreOK(nodes), NEW K, Closed(nodes, K)
  PROVE  \A n \in Nat : CountKeeps(n, K)
<1> DEFINE S == {n \in Nat : CountKeeps(n, K)}
<1>1. CountKeeps(0, K)
  <2> SUFFICES ASSUME NEW map \in SUBSET (Edges \X Nat), NEW f \in Edges,
                      CountMapOK(nodes, K, map), Live(nodes, f), IsFamily(nodes, f), Within(f, K),
                      EdgeLevel(nodes, f) <= 0
               PROVE  CountDone(nodes, K, map, bddexactcount_rec[0][map][f], f)
    BY DEF CountKeeps
  <2>1. f.const
    BY LiveLevel, HeightNat
  <2>2. bddexactcount_rec[0] = ExactCountBy(0, <<>>)
    BY ExactCountUnfolds
  <2>3. CountedIn(map, f)
    BY <2>1 DEF CountedIn
  <2>4. ExactCountBy(0, <<>>)[map][f] = map
    BY <2>3, CountFlat
  <2>5. QED
    BY <2>2, <2>3, <2>4 DEF CountDone
<1>2. 0 \in S /\ \A n \in Nat : n \in S => n + 1 \in S
  BY <1>1, CountStep
<1> HIDE DEF S
<1>3. Nat \subseteq S
  BY <1>2, Induct
<1>4. QED
  BY <1>3 DEF S
=============================================================================
