-------------------------- MODULE NodeTableProofs ---------------------------
(***************************************************************************)
(* Proofs about the variable order and the node table, for every number of *)
(* variables and slots: first the two maps of VarOrder, then what each     *)
(* operation on the node table preserves, then what a diagram means.       *)
(***************************************************************************)
EXTENDS Semantics, FiniteSetTheorems, TLAPS

(***************************************************************************)
(* Proofs about VarOrder, for every number of variables.                   *)
(***************************************************************************)
VarOrderInv == VarOrderTypeOK /\ LevelsInverse

\* Levels and variables used are numbers of the same range.
LEMMA OrderRanges ==
  ASSUME VarOrderTypeOK
  PROVE  /\ varcount \in Nat
         /\ \A v \in VarsUsed : v \in Int /\ 1 <= v /\ v <= varcount
         /\ \A v \in VarsUsed : var2level[v] \in VarsUsed
         /\ \A l \in VarsUsed : level2var[l] \in VarsUsed
<1>1. varcount \in Nat
  BY VarMaxAssumption DEF VarOrderTypeOK
<1>2. \A v \in VarsUsed : v \in Int /\ 1 <= v /\ v <= varcount
  BY <1>1 DEF VarsUsed
<1>3. /\ \A v \in VarsUsed : var2level[v] \in VarsUsed
      /\ \A l \in VarsUsed : level2var[l] \in VarsUsed
  BY DEF VarOrderTypeOK
<1>4. QED
  BY <1>1, <1>2, <1>3

\* The variable that holds level l after the creation of a variable at lev.
HolderOf(lev, l) ==
  IF l < lev THEN level2var[l]
  ELSE IF l = lev THEN varcount + 1
  ELSE level2var[l - 1]

\* Every level has its variable after a creation in the middle.
LEMMA ShiftedOnto ==
  ASSUME VarOrderInv, NEW lev \in 1..(varcount + 1),
         NEW l \in 1..(varcount + 1)
  PROVE  /\ HolderOf(lev, l) \in 1..(varcount + 1)
         /\ Shifted(lev)[HolderOf(lev, l)] = l
<1> USE DEF VarOrderInv, VarOrderTypeOK, LevelsInverse, VarsUsed, HolderOf,
            Shifted
<1>1. CASE l < lev
  <2>1. l \in 1..varcount
    BY <1>1
  <2>2. level2var[l] \in 1..varcount /\ var2level[level2var[l]] = l
    BY <2>1
  <2>3. QED
    BY <1>1, <2>2
<1>2. CASE l = lev
  BY <1>2
<1>3. CASE l > lev
  <2>1. l - 1 \in 1..varcount
    BY <1>3
  <2>2. /\ level2var[l - 1] \in 1..varcount
        /\ var2level[level2var[l - 1]] = l - 1
    BY <2>1
  <2>3. QED
    BY <1>3, <2>2
<1>4. QED
  BY <1>1, <1>2, <1>3

LEMMA RoomMadeOnce ==
  ASSUME NEW a \in Int, NEW b \in Int, NEW lev \in Int,
         (IF a >= lev THEN a + 1 ELSE a) = (IF b >= lev THEN b + 1 ELSE b)
  PROVE  a = b
OBVIOUS

\* No two variables share a level after a creation in the middle.
LEMMA ShiftedOneToOne ==
  ASSUME VarOrderInv, NEW lev \in 1..(varcount + 1),
         NEW u \in 1..(varcount + 1), NEW v \in 1..(varcount + 1),
         Shifted(lev)[u] = Shifted(lev)[v]
  PROVE  u = v
<1> USE DEF VarOrderInv, VarOrderTypeOK, LevelsInverse, VarsUsed, Shifted
<1>1. CASE u \in VarsUsed /\ v \in VarsUsed
  <2>1. /\ var2level[u] \in VarsUsed /\ var2level[v] \in VarsUsed
        /\ var2level[u] \in Int /\ var2level[v] \in Int
    BY <1>1, OrderRanges
  <2>2. Shifted(lev)[u] = IF var2level[u] >= lev THEN var2level[u] + 1
                          ELSE var2level[u]
    BY <1>1
  <2>3. Shifted(lev)[v] = IF var2level[v] >= lev THEN var2level[v] + 1
                          ELSE var2level[v]
    BY <1>1
  <2>4. var2level[u] = var2level[v]
    <3>1. (IF var2level[u] >= lev THEN var2level[u] + 1 ELSE var2level[u])
          = (IF var2level[v] >= lev THEN var2level[v] + 1 ELSE var2level[v])
      <4> HIDE DEF Shifted
      <4> QED
        BY <2>2, <2>3
    <3>2. lev \in Int /\ var2level[u] \in Int /\ var2level[v] \in Int
      BY <2>1
    <3> HIDE DEF Shifted, VarOrderInv, VarOrderTypeOK, LevelsInverse, VarsUsed
    <3>3. QED
      BY <3>1, <3>2, RoomMadeOnce
  <2>5. QED
    BY <1>1, <2>4
<1>2. CASE u \in VarsUsed /\ v \notin VarsUsed
  BY <1>2
<1>3. CASE u \notin VarsUsed /\ v \in VarsUsed
  BY <1>3
<1>4. CASE u \notin VarsUsed /\ v \notin VarsUsed
  BY <1>4
<1>5. QED
  BY <1>1, <1>2, <1>3, <1>4

LEMMA NewVarOfLevInverse ==
  ASSUME VarOrderInv, NEW lev \in 1..(varcount + 1), NewVarOfLev(lev)
  PROVE  VarOrderInv'
<1> DEFINE n == varcount + 1
           V == Shifted(lev)
           L == [l \in 1..n |-> CHOOSE v \in 1..n : V[v] = l]
<1>1. n \in Nat /\ varcount \in Nat /\ n \in 0..VarMax
  BY VarMaxAssumption DEF VarOrderInv, VarOrderTypeOK, NewVarOfLev
<1>2. varcount' = n /\ var2level' = V /\ level2var' = L /\ VarsUsed' = 1..n
  BY DEF NewVarOfLev, VarsUsed
<1>3. V \in [1..n -> 1..n]
  <2>1. \A v \in 1..n : V[v] \in 1..n
    <3> TAKE v \in 1..n
    <3>1. CASE v \in VarsUsed
      <4>1. var2level[v] \in 1..varcount
        BY <3>1 DEF VarOrderInv, VarOrderTypeOK, VarsUsed
      <4> QED
        BY <3>1, <4>1, <1>1 DEF Shifted
    <3>2. CASE v \notin VarsUsed
      BY <3>2, <1>1 DEF Shifted
    <3> QED
      BY <3>1, <3>2
  <2> QED
    BY <2>1 DEF Shifted
<1>4. \A l \in 1..n : L[l] \in 1..n /\ V[L[l]] = l
  <2> TAKE l \in 1..n
  <2>1. \E v \in 1..n : V[v] = l
    BY ShiftedOnto
  <2>2. L[l] = CHOOSE v \in 1..n : V[v] = l
    OBVIOUS
  <2> QED
    BY <2>1, <2>2
<1>5. \A v \in 1..n : L[V[v]] = v
  <2> TAKE v \in 1..n
  <2>1. V[v] \in 1..n /\ L[V[v]] \in 1..n /\ V[L[V[v]]] = V[v]
    BY <1>3, <1>4
  <2> QED
    BY <2>1, ShiftedOneToOne
<1>6. L \in [1..n -> 1..n]
  BY <1>4
<1> HIDE DEF V, L, n
<1>7. QED
  BY <1>1, <1>2, <1>3, <1>4, <1>5, <1>6
     DEF VarOrderInv, VarOrderTypeOK, LevelsInverse

LEMMA NewVarInverse ==
  ASSUME VarOrderInv, NewVar
  PROVE  VarOrderInv'
<1> DEFINE n == varcount + 1
<1>1. /\ varcount \in Nat /\ n \in 0..VarMax
      /\ \A v \in VarsUsed : v \in 1..varcount
      /\ \A v \in VarsUsed : var2level[v] \in 1..varcount
      /\ \A l \in VarsUsed : level2var[l] \in 1..varcount
  BY OrderRanges, VarMaxAssumption DEF VarOrderInv, NewVar, VarsUsed
<1>2. VarsUsed' = 1..n /\ \A v \in 1..n : v \in VarsUsed \/ v = n
  BY <1>1 DEF NewVar, VarsUsed
<1>3. VarOrderTypeOK'
  BY <1>1, <1>2 DEF NewVar, VarOrderTypeOK
<1>4. ASSUME NEW v \in 1..n
      PROVE  level2var'[var2level'[v]] = v /\ var2level'[level2var'[v]] = v
  <2>1. CASE v = n
    BY <2>1, <1>1 DEF NewVar, VarsUsed
  <2>2. CASE v \in VarsUsed
    BY <2>2, <1>1 DEF NewVar, VarsUsed, VarOrderInv, LevelsInverse
  <2> QED
    BY <2>1, <2>2, <1>2
<1>5. QED
  BY <1>2, <1>3, <1>4 DEF VarOrderInv, LevelsInverse

LEMMA ForgetVarsInverse ==
  ASSUME VarOrderInv, ForgetVars
  PROVE  VarOrderInv'
BY VarMaxAssumption
   DEF VarOrderInv, VarOrderTypeOK, LevelsInverse, VarsUsed, ForgetVars

(***************************************************************************)
(* bddlevofvar and bddvaroflev stay inverse to each other, whatever number *)
(* of variables is created and in whatever places of the order             *)
(* (bddnewvar, bddnewvaroflev).                                            *)
(***************************************************************************)
THEOREM LevelsAlwaysInverse ==
  VarOrderSpec => [](VarOrderTypeOK /\ LevelsInverse)
<1>1. VarOrderInit => VarOrderInv
  BY VarMaxAssumption
     DEF VarOrderInit, VarOrderInv, VarOrderTypeOK, LevelsInverse, VarsUsed
<1>2. VarOrderInv /\ [VarOrderNext]_orderVars => VarOrderInv'
  <2> SUFFICES ASSUME VarOrderInv, [VarOrderNext]_orderVars
               PROVE  VarOrderInv'
    OBVIOUS
  <2>1. CASE NewVar
    BY <2>1, NewVarInverse
  <2>2. ASSUME NEW lev \in 1..(varcount + 1), NewVarOfLev(lev)
        PROVE  VarOrderInv'
    BY <2>2, NewVarOfLevInverse
  <2>3. CASE ForgetVars
    BY <2>3, ForgetVarsInverse
  <2>4. CASE UNCHANGED orderVars
    BY <2>4 DEF orderVars, VarOrderInv, VarOrderTypeOK, LevelsInverse, VarsUsed
  <2>5. QED
    BY <2>1, <2>2, <2>3, <2>4 DEF VarOrderNext
<1>3. VarOrderInv => VarOrderTypeOK /\ LevelsInverse
  BY DEF VarOrderInv
<1>4. QED
  BY <1>1, <1>2, <1>3, PTL DEF VarOrderSpec

\* No step swaps two existing variables.
LEMMA NeverSwapped ==
  ASSUME VarOrderTypeOK, VarOrderNext
  PROVE  RelativeOrderStep
<1> SUFFICES ASSUME varcount' # 0, NEW u \in VarsUsed, NEW v \in VarsUsed
             PROVE  (var2level[u] < var2level[v])
                      <=> (var2level'[u] < var2level'[v])
  BY DEF RelativeOrderStep
<1>0. /\ varcount \in Nat
      /\ u \in 1..(varcount + 1) /\ v \in 1..(varcount + 1)
      /\ var2level[u] \in Int /\ var2level[v] \in Int
  BY OrderRanges
<1>1. CASE NewVar
  BY <1>1, <1>0 DEF NewVar
<1>2. ASSUME NEW lev \in 1..(varcount + 1), NewVarOfLev(lev)
      PROVE  (var2level[u] < var2level[v])
               <=> (var2level'[u] < var2level'[v])
  BY <1>2, <1>0 DEF NewVarOfLev, Shifted
<1>3. CASE ForgetVars
  BY <1>3 DEF ForgetVars
<1>4. QED
  BY <1>1, <1>2, <1>3 DEF VarOrderNext

(***************************************************************************)
(* No creation swaps two existing variables (bddnewvaroflev shifts levels  *)
(* by one, and only upwards).                                              *)
(***************************************************************************)
THEOREM OrderNeverSwapped == VarOrderSpec => RelativeOrderKept
<1>1. VarOrderTypeOK /\ [VarOrderNext]_orderVars => [RelativeOrderStep]_orderVars
  BY NeverSwapped
<1>2. QED
  BY <1>1, LevelsAlwaysInverse, PTL DEF VarOrderSpec, RelativeOrderKept

-----------------------------------------------------------------------------
(***************************************************************************)
(* What each operation on the node table preserves.                        *)
(***************************************************************************)
\* A step that keeps the nodes of A in their slots, as they are.
Keeps(A) == \A n \in A : n \in Allocated' /\ nodes'[n] = nodes[n]

\* An edge to a constant or to a node of A.
Within(A, e) == e \in Edges /\ (e.node # 0 => e.node \in A)

\* No node of A has a child outside A.
SelfContained(A) ==
  \A n \in A : Within(A, nodes[n].lo) /\ Within(A, nodes[n].hi)

\* Sound, IsReduced and Level of an edge after a step.
SoundNext(e) == e \in Edges /\ (e.node # 0 => e.node \in Allocated')
ReducedNext(e) == IF e.node = 0 THEN e # Null ELSE nodes'[e.node].red
LevelNext(e) == IF e.node = 0 THEN 0 ELSE var2level'[nodes'[e.node].var]

-----------------------------------------------------------------------------
\* Complementing an edge changes neither where it points nor its level.
LEMMA NotFacts ==
  ASSUME NEW e \in Edges
  PROVE  /\ Not(e) \in Edges
         /\ Not(e).node = e.node
         /\ IsReduced(Not(e)) = IsReduced(e)
         /\ Level(Not(e)) = Level(e)
<1>1. Not(e) \in Edges /\ Not(e).node = e.node
  BY NodeTableAssumption DEF Edges, Consts, Not
<1>2. (Not(e) = Null) <=> (e = Null)
  BY NodeTableAssumption DEF Edges, Consts, Not, Null, Const
<1>3. QED
  BY <1>1, <1>2 DEF IsReduced, Level

LEMMA NormalFacts ==
  ASSUME NEW k, NEW lo \in Edges, NEW hi \in Edges
  PROVE  /\ NormalLo(k, lo) \in Edges
         /\ NormalHi(k, lo, hi) \in Edges
         /\ NormalLo(k, lo).node = lo.node
         /\ NormalHi(k, lo, hi).node = hi.node
         /\ IsReduced(NormalLo(k, lo)) = IsReduced(lo)
         /\ IsReduced(NormalHi(k, lo, hi)) = IsReduced(hi)
         /\ Level(NormalLo(k, lo)) = Level(lo)
         /\ Level(NormalHi(k, lo, hi)) = Level(hi)
BY NotFacts DEF NormalLo, NormalHi

\* An edge to a node that stays where it is stays sound, reduced and at its
\* level.
LEMMA KeptEdge ==
  ASSUME NEW A, Keeps(A), UNCHANGED var2level, NEW e, Within(A, e)
  PROVE  /\ SoundNext(e)
         /\ ReducedNext(e) = IsReduced(e)
         /\ LevelNext(e) = Level(e)
BY DEF Keeps, Within, IsReduced, Level, SoundNext, ReducedNext, LevelNext

LEMMA AllSelfContained ==
  ASSUME ChildrenSound
  PROVE  SelfContained(Allocated)
BY DEF ChildrenSound, SelfContained, Sound, Within

\* A slot just allocated held no node, and no other slot changes hands.
LEMMA AllocateFacts ==
  ASSUME NodeTableTypeOK, NEW n \in Slots, Allocate(n)
  PROVE  /\ n \notin Allocated
         /\ Allocated' = Allocated \cup {n}
         /\ count' \in 1..NodeMax
         /\ used' \in 0..count'
         /\ free' \subseteq 1..used'
<1> USE NodeTableAssumption DEF NodeTableTypeOK, Slots, Allocated
<1>1. CASE AllocateFromFree(n)
  BY <1>1 DEF AllocateFromFree
<1>2. CASE AllocateFresh(n)
  <2>1. used' = used + 1 /\ n = used + 1 /\ free = {} /\ free' = {}
    BY <1>2 DEF AllocateFresh
  <2>2. count' \in 1..NodeMax /\ used + 1 <= count'
    BY <1>2 DEF AllocateFresh, GrownCount
  <2>3. QED
    BY <2>1, <2>2
<1>3. QED
  BY <1>1, <1>2 DEF Allocate

-----------------------------------------------------------------------------
\* The node getnode_raw writes is well formed, and reduced unless it is of
\* the unreduced kind.
LEMMA NewRecFacts ==
  ASSUME VarOrderTypeOK, NEW k, NEW v \in VarsUsed,
         NEW lo \in Edges, NEW hi \in Edges
  PROVE  /\ NewRec(k, v, lo, hi) \in NodeRecs
         /\ NewRec(k, v, lo, hi).var = v
         /\ NewRec(k, v, lo, hi).lo = NormalLo(k, lo)
         /\ NewRec(k, v, lo, hi).hi = NormalHi(k, lo, hi)
         /\ NewRec(k, v, lo, hi).red
              = (k # "unreduced" /\ IsReduced(lo) /\ IsReduced(hi))
<1>1. NormalLo(k, lo) \in Edges /\ NormalHi(k, lo, hi) \in Edges
  BY NormalFacts
<1>2. v \in 0..VarMax
  BY VarMaxAssumption DEF VarOrderTypeOK, VarsUsed
<1>3. (k # "unreduced" /\ IsReduced(lo) /\ IsReduced(hi)) \in BOOLEAN
  OBVIOUS
<1>4. QED
  BY <1>1, <1>2, <1>3 DEF NewRec, NodeRecs

\* The level of each child of a new reduced node is below its own.
LEMMA AcceptedLevels ==
  ASSUME VarOrderTypeOK, NEW k \in Kinds \ {"unreduced"}, NEW v \in VarsUsed,
         NEW lo, NEW hi, Accepts(k, v, lo, hi)
  PROVE  Level(lo) < var2level[v] /\ Level(hi) < var2level[v]
<1>1. var2level[v] \in Int
  BY OrderRanges
<1>2. QED
  BY <1>1 DEF Accepts, Kinds

(***************************************************************************)
(* The effect of writing a node to a slot n while the nodes of A stay and  *)
(* all others go: A is every node when the slot comes from allocate_node,  *)
(* the marked ones when a sweep had to make room first.                    *)
(***************************************************************************)
LEMMA WriteNode ==
  ASSUME VarOrderTypeOK, UNCHANGED orderVars, StoreInv,
         NEW A \in SUBSET Allocated, SelfContained(A), Keeps(A),
         NEW k \in Kinds, NEW v \in VarsUsed, NEW lo, NEW hi,
         Within(A, lo), Within(A, hi), Accepts(k, v, lo, hi),
         k # "unreduced" => IsReduced(lo) /\ IsReduced(hi),
         Existing(k, v, lo, hi) = {},
         NEW n \in Slots, n \notin A, Allocated' = A \cup {n},
         count' \in 1..NodeMax, used' \in 0..count', free' \subseteq 1..used',
         nodes' \in [Slots -> NodeRecs], nodes'[n] = NewRec(k, v, lo, hi),
         table' = {m \in A : nodes[m].red}
                    \cup (IF k = "unreduced" THEN {} ELSE {n})
  PROVE  /\ StoreInv'
         /\ SoundNext(Ref(k, lo, n))
         /\ k # "unreduced" => ReducedNext(Ref(k, lo, n))
<1> DEFINE rec == NewRec(k, v, lo, hi)
<1>1. Allocated \subseteq Slots /\ table = ReducedNodes
      /\ UNCHANGED <<varcount, var2level>>
  BY NodeTableAssumption
     DEF StoreInv, NodeTableTypeOK, Allocated, Slots, TableExact, orderVars
<1>2. /\ rec.var = v
      /\ rec.lo = NormalLo(k, lo) /\ rec.hi = NormalHi(k, lo, hi)
      /\ rec.red = (k # "unreduced" /\ IsReduced(lo) /\ IsReduced(hi))
      /\ Within(A, rec.lo) /\ Within(A, rec.hi)
  BY NewRecFacts, NormalFacts DEF Within
<1>3. rec.red <=> k # "unreduced"
  BY <1>2
<1>4. ReducedNodes' = {m \in A : nodes[m].red}
                        \cup (IF k = "unreduced" THEN {} ELSE {n})
  BY <1>3 DEF ReducedNodes, Keeps
<1>5. NodeTableTypeOK'
  <2>1. table' \subseteq Allocated'
    BY <1>4 DEF ReducedNodes
  <2>2. QED
    BY <2>1 DEF NodeTableTypeOK
<1>6. ChildrenSound'
  <2> SUFFICES ASSUME NEW m \in Allocated'
               PROVE  /\ nodes'[m].var \in VarsUsed'
                      /\ SoundNext(nodes'[m].lo) /\ SoundNext(nodes'[m].hi)
    BY DEF ChildrenSound, Sound, SoundNext
  <2>0. VarsUsed' = VarsUsed
    BY <1>1 DEF VarsUsed
  <2>1. CASE m = n
    BY <2>1, <2>0, <1>1, <1>2, KeptEdge
  <2>2. CASE m \in A
    <3>1. nodes'[m] = nodes[m]
      BY <2>2 DEF Keeps
    <3>2. nodes[m].var \in VarsUsed
      BY <2>2 DEF StoreInv, ChildrenSound
    <3>3. Within(A, nodes[m].lo) /\ Within(A, nodes[m].hi)
      BY <2>2 DEF SelfContained
    <3>4. QED
      BY <3>1, <3>2, <3>3, <2>0, <1>1, KeptEdge
  <2>3. QED
    BY <2>1, <2>2
<1>7. NoDuplicates'
  <2> SUFFICES ASSUME NEW m1 \in ReducedNodes', NEW m2 \in ReducedNodes',
                      nodes'[m1].var = nodes'[m2].var,
                      nodes'[m1].lo = nodes'[m2].lo,
                      nodes'[m1].hi = nodes'[m2].hi
               PROVE  m1 = m2
    BY DEF NoDuplicates
  <2>1. \A m \in A : nodes'[m] = nodes[m]
    BY DEF Keeps
  <2>2. \A m \in A : nodes[m].red => m \in ReducedNodes
    BY DEF ReducedNodes
  <2>3. CASE m1 \in A /\ m2 \in A
    <3>1. m1 \in ReducedNodes /\ m2 \in ReducedNodes
      BY <1>4, <2>2, <2>3
    <3>2. QED
      BY <2>1, <2>3, <3>1 DEF StoreInv, NoDuplicates
  <2>4. k # "unreduced" =>
          \A m \in ReducedNodes :
            ~ (nodes[m].var = rec.var /\ nodes[m].lo = rec.lo
               /\ nodes[m].hi = rec.hi)
    BY <1>1, <1>2 DEF Existing, Lookup
  <2>5. QED
    BY <1>4, <2>1, <2>2, <2>3, <2>4
<1>8. TableExact'
  BY <1>4 DEF TableExact
<1>9. Ordered'
  <2> SUFFICES ASSUME NEW m \in ReducedNodes'
               PROVE  \A e \in {nodes'[m].lo, nodes'[m].hi} :
                        /\ ReducedNext(e)
                        /\ LevelNext(e) < var2level'[nodes'[m].var]
    BY DEF Ordered, IsReduced, Level, ReducedNext, LevelNext
  <2>1. CASE m \in A /\ nodes[m].red
    <3>1. nodes'[m] = nodes[m]
      BY <2>1 DEF Keeps
    <3>2. \A e \in {nodes[m].lo, nodes[m].hi} :
            IsReduced(e) /\ Level(e) < var2level[nodes[m].var]
      BY <2>1 DEF StoreInv, Ordered, ReducedNodes
    <3>3. Within(A, nodes[m].lo) /\ Within(A, nodes[m].hi)
      BY <2>1 DEF SelfContained
    <3>4. QED
      BY <3>1, <3>2, <3>3, <1>1, KeptEdge
  <2>2. CASE m = n /\ k # "unreduced"
    <3>1. lo \in Edges /\ hi \in Edges
      BY DEF Within
    <3>2. IsReduced(rec.lo) /\ IsReduced(rec.hi)
      BY <2>2, <3>1, <1>2, NormalFacts
    <3>3. Level(rec.lo) < var2level[v] /\ Level(rec.hi) < var2level[v]
      BY <2>2, <3>1, <1>2, NormalFacts, AcceptedLevels
    <3>4. QED
      BY <2>2, <3>2, <3>3, <1>1, <1>2, KeptEdge
  <2>3. QED
    BY <2>1, <2>2, <1>4
<1>10. SoundNext(Ref(k, lo, n))
  BY DEF SoundNext, Ref, Edges, Slots
<1>11. k # "unreduced" => ReducedNext(Ref(k, lo, n))
  BY <1>3 DEF ReducedNext, Ref, Slots
<1>12. QED
  BY <1>5, <1>6, <1>7, <1>8, <1>9, <1>10, <1>11 DEF StoreInv

(***************************************************************************)
(* The nodes of A stay, all others go and none is written: a sweep, and    *)
(* with A = Allocated a step that touches no node.                         *)
(***************************************************************************)
LEMMA KeepNodes ==
  ASSUME UNCHANGED orderVars, StoreInv,
         NEW A \in SUBSET Allocated, SelfContained(A), Keeps(A),
         Allocated' = A, nodes' \in [Slots -> NodeRecs],
         count' \in 1..NodeMax, used' \in 0..count', free' \subseteq 1..used',
         table' = {m \in A : nodes[m].red}
  PROVE  StoreInv'
<1>1. UNCHANGED <<varcount, var2level>> /\ VarsUsed' = VarsUsed
  BY DEF orderVars, VarsUsed
<1>2. \A m \in A : nodes'[m] = nodes[m]
  BY DEF Keeps
<1>3. ReducedNodes' = {m \in A : nodes[m].red}
  BY <1>2 DEF ReducedNodes
<1>4. NodeTableTypeOK'
  BY DEF NodeTableTypeOK
<1>5. ChildrenSound'
  <2> SUFFICES ASSUME NEW m \in A
               PROVE  /\ nodes'[m].var \in VarsUsed'
                      /\ SoundNext(nodes'[m].lo) /\ SoundNext(nodes'[m].hi)
    BY DEF ChildrenSound, Sound, SoundNext
  <2>1. nodes[m].var \in VarsUsed
    BY DEF StoreInv, ChildrenSound
  <2>2. Within(A, nodes[m].lo) /\ Within(A, nodes[m].hi)
    BY DEF SelfContained
  <2>3. QED
    BY <1>1, <1>2, <2>1, <2>2, KeptEdge
<1>6. NoDuplicates'
  <2>1. ReducedNodes' \subseteq ReducedNodes /\ ReducedNodes' \subseteq A
    BY <1>3 DEF ReducedNodes
  <2>2. QED
    BY <1>2, <2>1 DEF StoreInv, NoDuplicates
<1>7. TableExact'
  BY <1>3 DEF TableExact
<1>8. Ordered'
  <2> SUFFICES ASSUME NEW m \in A, nodes[m].red
               PROVE  \A e \in {nodes'[m].lo, nodes'[m].hi} :
                        /\ ReducedNext(e)
                        /\ LevelNext(e) < var2level'[nodes'[m].var]
    BY <1>3 DEF Ordered, IsReduced, Level, ReducedNext, LevelNext
  <2>1. \A e \in {nodes[m].lo, nodes[m].hi} :
          IsReduced(e) /\ Level(e) < var2level[nodes[m].var]
    BY DEF StoreInv, Ordered, ReducedNodes
  <2>2. Within(A, nodes[m].lo) /\ Within(A, nodes[m].hi)
    BY DEF SelfContained
  <2>3. QED
    BY <1>1, <1>2, <2>1, <2>2, KeptEdge
<1>9. QED
  BY <1>4, <1>5, <1>6, <1>7, <1>8 DEF StoreInv

\* A step that touches neither the order nor the table.
LEMMA TableUnchanged ==
  ASSUME StoreInv, UNCHANGED <<orderVars, tableVars>>
  PROVE  StoreInv' /\ Keeps(Allocated)
<1>1. Keeps(Allocated) /\ Allocated' = Allocated
  BY DEF tableVars, Keeps, Allocated
<1>2. table' = {m \in Allocated : nodes[m].red}
  BY DEF tableVars, StoreInv, TableExact, ReducedNodes
<1>3. SelfContained(Allocated)
  BY AllSelfContained DEF StoreInv
<1>4. UNCHANGED orderVars
  OBVIOUS
<1>5. /\ nodes' \in [Slots -> NodeRecs] /\ count' \in 1..NodeMax
      /\ used' \in 0..count' /\ free' \subseteq 1..used'
  BY DEF tableVars, StoreInv, NodeTableTypeOK
<1>6. QED
  BY <1>1, <1>2, <1>3, <1>4, <1>5, KeepNodes

(***************************************************************************)
(* getnode_raw: whichever of its three cases applies, every node stays and *)
(* the edge returned is sound, and reduced if the kind is.                 *)
(***************************************************************************)
LEMMA MakeKeeps ==
  ASSUME VarOrderTypeOK, UNCHANGED orderVars, StoreInv,
         NEW k \in Kinds, NEW v \in VarsUsed, NEW lo, NEW hi,
         Sound(lo), Sound(hi), Accepts(k, v, lo, hi),
         k # "unreduced" => IsReduced(lo) /\ IsReduced(hi),
         NEW r, Make(k, v, lo, hi, r)
  PROVE  /\ StoreInv'
         /\ Keeps(Allocated)
         /\ SoundNext(r)
         /\ k # "unreduced" => ReducedNext(r)
<1>0. Within(Allocated, lo) /\ Within(Allocated, hi)
  BY DEF Sound, Within
<1>1. UNCHANGED var2level
  BY DEF orderVars
<1>2. CASE MakeRedundant(k, lo, hi, r)
  <2>1. r = lo /\ UNCHANGED tableVars
    BY <1>2 DEF MakeRedundant
  <2>2. StoreInv' /\ Keeps(Allocated)
    BY <2>1, TableUnchanged
  <2>3. QED
    BY <2>1, <2>2, <1>0, <1>1, KeptEdge
<1>3. CASE MakeFound(k, v, lo, hi, r)
  <2>1. PICK n \in Existing(k, v, lo, hi) : r = Ref(k, lo, n)
    BY <1>3 DEF MakeFound
  <2>2. k # "unreduced" /\ n \in ReducedNodes
    BY <2>1 DEF Existing, Lookup, StoreInv, TableExact
  <2>3. n \in Allocated /\ nodes[n].red
    BY <2>2 DEF ReducedNodes
  <2>4. n \in Slots /\ n # 0
    BY <2>3, NodeTableAssumption
       DEF StoreInv, NodeTableTypeOK, Allocated, Slots
  <2>5. Within(Allocated, r) /\ IsReduced(r)
    BY <2>1, <2>3, <2>4 DEF Ref, Within, IsReduced, Edges
  <2>6. StoreInv' /\ Keeps(Allocated)
    BY <1>3, TableUnchanged DEF MakeFound
  <2>7. QED
    BY <2>5, <2>6, <1>1, KeptEdge
<1>4. CASE MakeNew(k, v, lo, hi, r)
  <2>1. PICK n \in Slots :
          /\ Allocate(n)
          /\ nodes' = [nodes EXCEPT ![n] = NewRec(k, v, lo, hi)]
          /\ table' = IF k = "unreduced" THEN table ELSE table \cup {n}
          /\ r = Ref(k, lo, n)
    BY <1>4 DEF MakeNew
  <2>2. /\ n \notin Allocated /\ Allocated' = Allocated \cup {n}
        /\ count' \in 1..NodeMax /\ used' \in 0..count'
        /\ free' \subseteq 1..used'
    BY <2>1, AllocateFacts DEF StoreInv
  <2>3. nodes \in [Slots -> NodeRecs] /\ Allocated \subseteq Slots
    BY NodeTableAssumption DEF StoreInv, NodeTableTypeOK, Allocated, Slots
  <2>4. NewRec(k, v, lo, hi) \in NodeRecs
    BY <1>0, NewRecFacts DEF Within
  <2>5. nodes' \in [Slots -> NodeRecs] /\ nodes'[n] = NewRec(k, v, lo, hi)
    BY <2>1, <2>3, <2>4
  <2>6. Keeps(Allocated)
    BY <2>1, <2>2, <2>3 DEF Keeps
  <2>7. table' = {m \in Allocated : nodes[m].red}
                   \cup (IF k = "unreduced" THEN {} ELSE {n})
    BY <2>1 DEF StoreInv, TableExact, ReducedNodes
  <2>8. SelfContained(Allocated) /\ Allocated \in SUBSET Allocated
    BY AllSelfContained DEF StoreInv
  <2>9. Existing(k, v, lo, hi) = {}
    BY <1>4 DEF MakeNew
  <2>10. /\ StoreInv'
         /\ SoundNext(Ref(k, lo, n))
         /\ k # "unreduced" => ReducedNext(Ref(k, lo, n))
    BY <1>0, <2>2, <2>5, <2>6, <2>7, <2>8, <2>9, WriteNode
  <2>11. QED
    BY <2>1, <2>6, <2>10
<1>5. QED
  BY <1>2, <1>3, <1>4 DEF Make

\* A failed insertion gives the slot back: no node comes or goes.
LEMMA RolledBackKeeps ==
  ASSUME UNCHANGED orderVars, StoreInv, NEW k, NEW v, NEW lo, NEW hi,
         MakeRolledBack(k, v, lo, hi)
  PROVE  StoreInv' /\ Keeps(Allocated)
<1>1. /\ nodes \in [Slots -> NodeRecs] /\ count \in 1..NodeMax
      /\ used \in 0..count /\ free \subseteq 1..used
      /\ NodeMax \in Nat \ {0}
  BY NodeTableAssumption DEF StoreInv, NodeTableTypeOK
<1>2. count' \in 1..NodeMax /\ count <= count'
  BY <1>1 DEF MakeRolledBack, GrownCount
<1>3. /\ used' \in 0..count /\ free' \subseteq 1..used'
      /\ (1..used') \ free' = (1..used) \ free
  <2>1. CASE UNCHANGED <<used, free>>
    BY <1>1, <2>1
  <2>2. CASE used \in free /\ used' = used - 1 /\ free' = free \ {used}
    <3>1. used \in Nat \ {0} /\ used - 1 \in Nat /\ count \in Nat
      BY <1>1, <2>2
    <3>2. 1..used = (1..(used - 1)) \cup {used}
      BY <3>1
    <3>3. used \notin 1..(used - 1)
      BY <3>1
    <3>4. used' \in 0..count
      BY <1>1, <2>2, <3>1
    <3>5. QED
      BY <1>1, <2>2, <3>2, <3>3, <3>4
  <2>3. QED
    BY <2>1, <2>2 DEF MakeRolledBack
<1>4. used' \in 0..count'
  BY <1>1, <1>2, <1>3
<1>5. Allocated' = Allocated
  BY <1>3 DEF Allocated
<1>6. UNCHANGED <<nodes, table>>
  BY DEF MakeRolledBack
<1>7. Keeps(Allocated)
  BY <1>5, <1>6 DEF Keeps
<1>8. table' = {m \in Allocated : nodes[m].red}
  BY <1>6 DEF StoreInv, TableExact, ReducedNodes
<1>9. SelfContained(Allocated) /\ Allocated \in SUBSET Allocated
  BY AllSelfContained DEF StoreInv
<1>10. nodes' \in [Slots -> NodeRecs] /\ free' \subseteq 1..used'
  BY <1>1, <1>3, <1>6
<1>11. QED
  BY <1>2, <1>4, <1>5, <1>7, <1>8, <1>9, <1>10, KeepNodes

-----------------------------------------------------------------------------
(***************************************************************************)
(* The mark phase: started from edges that are sound it marks only slots   *)
(* that hold a node, all it was started from, and with a node its children.*)
(***************************************************************************)
LEMMA ReachFacts ==
  ASSUME NodeTableTypeOK, ChildrenSound,
         NEW R, R \cap (1..used) \subseteq Allocated
  PROVE  /\ Reach(R) \in SUBSET Allocated
         /\ R \cap (1..used) \subseteq Reach(R)
         /\ SelfContained(Reach(R))
<1>1. Allocated \in SUBSET (1..used)
  BY DEF Allocated
<1>2. Closed(Allocated)
  <2> SUFFICES ASSUME NEW n \in Allocated, NEW m \in Children(n)
               PROVE  m \in Allocated
    BY DEF Closed
  <2>1. m \in 1..used /\ m # 0
    BY DEF Children
  <2>2. m = nodes[n].lo.node \/ m = nodes[n].hi.node
    BY DEF Children
  <2>3. QED
    BY <2>1, <2>2 DEF ChildrenSound, Sound
<1>3. Reach(R) \in SUBSET Allocated
  BY <1>1, <1>2 DEF Reach
<1>4. R \cap (1..used) \subseteq Reach(R)
  BY DEF Reach
<1>5. \A n \in Reach(R) : Children(n) \subseteq Reach(R)
  <2> SUFFICES ASSUME NEW n \in Reach(R), NEW m \in Children(n),
                      NEW S \in SUBSET (1..used),
                      R \cap (1..used) \subseteq S, Closed(S)
               PROVE  m \in 1..used /\ m \in S
    BY DEF Reach, Children
  <2>1. n \in S
    BY DEF Reach
  <2>2. QED
    BY <2>1 DEF Closed, Children
<1>6. SelfContained(Reach(R))
  <2> SUFFICES ASSUME NEW n \in Reach(R)
               PROVE  /\ Within(Reach(R), nodes[n].lo)
                      /\ Within(Reach(R), nodes[n].hi)
    BY DEF SelfContained
  <2>1. Sound(nodes[n].lo) /\ Sound(nodes[n].hi)
    BY <1>3 DEF ChildrenSound
  <2>2. \A e \in {nodes[n].lo, nodes[n].hi} :
          e.node # 0 => e.node \in Children(n)
    BY <1>1, <2>1 DEF Sound, Children
  <2>3. QED
    BY <1>5, <2>1, <2>2 DEF Sound, Within
<1>7. QED
  BY <1>3, <1>4, <1>6

\* A sweep keeps what was marked and frees the rest.
LEMMA SweepKeeps ==
  ASSUME UNCHANGED orderVars, StoreInv,
         NEW live \in SUBSET Allocated, SelfContained(live), Sweep(live)
  PROVE  StoreInv' /\ Keeps(live) /\ Allocated' = live
<1>1. live \subseteq 1..used /\ live \subseteq Slots
  BY NodeTableAssumption DEF StoreInv, NodeTableTypeOK, Allocated, Slots
<1>2. /\ used' = used /\ count' = count /\ free' = (1..used) \ live
      /\ table' = {n \in live : nodes[n].red}
  BY DEF Sweep
<1>3. Allocated' = live
  BY <1>1, <1>2 DEF Allocated
<1>4. Keeps(live)
  BY <1>1, <1>3 DEF Keeps, Sweep
<1>5. Junk \in NodeRecs
  BY NodeTableAssumption, VarMaxAssumption
     DEF Junk, NodeRecs, Edges, Consts, Null, Const
<1>6. nodes' \in [Slots -> NodeRecs]
  BY <1>5 DEF Sweep, StoreInv, NodeTableTypeOK
<1>7. count' \in 1..NodeMax /\ used' \in 0..count' /\ free' \subseteq 1..used'
  BY <1>2 DEF StoreInv, NodeTableTypeOK
<1>8. QED
  BY <1>2, <1>3, <1>4, <1>6, <1>7, KeepNodes

\* Collecting on the spot and using the first slot freed.
LEMMA MakeAfterSweepKeeps ==
  ASSUME VarOrderTypeOK, UNCHANGED orderVars, StoreInv,
         NEW live \in SUBSET Allocated, SelfContained(live),
         NEW k \in Kinds, NEW v \in VarsUsed, NEW lo, NEW hi,
         Within(live, lo), Within(live, hi), Accepts(k, v, lo, hi),
         k # "unreduced" => IsReduced(lo) /\ IsReduced(hi),
         NEW r, MakeAfterSweep(live, k, v, lo, hi, r)
  PROVE  /\ StoreInv'
         /\ Keeps(live)
         /\ SoundNext(r)
         /\ k # "unreduced" => ReducedNext(r)
<1>1. PICK n \in (1..used) \ live :
        /\ nodes' = [m \in Slots |->
                       IF m = n THEN NewRec(k, v, lo, hi)
                       ELSE IF m \in live \/ m > used THEN nodes[m] ELSE Junk]
        /\ table' = {m \in live : nodes[m].red} \cup
                    (IF k = "unreduced" THEN {} ELSE {n})
        /\ free' = (1..used) \ (live \cup {n})
        /\ r = Ref(k, lo, n)
  BY DEF MakeAfterSweep
<1>2. /\ live \subseteq 1..used /\ 1..used \subseteq Slots
      /\ nodes \in [Slots -> NodeRecs]
  BY NodeTableAssumption DEF StoreInv, NodeTableTypeOK, Allocated, Slots
<1>3. used' = used /\ count' = count
  BY DEF MakeAfterSweep
<1>4. Allocated' = live \cup {n}
  BY <1>1, <1>2, <1>3 DEF Allocated
<1>5. Keeps(live)
  BY <1>1, <1>2, <1>4 DEF Keeps
<1>6. Junk \in NodeRecs
  BY NodeTableAssumption, VarMaxAssumption
     DEF Junk, NodeRecs, Edges, Consts, Null, Const
<1>7. NewRec(k, v, lo, hi) \in NodeRecs
  BY NewRecFacts DEF Within
<1>8. nodes' \in [Slots -> NodeRecs] /\ nodes'[n] = NewRec(k, v, lo, hi)
  BY <1>1, <1>2, <1>6, <1>7
<1>9. count' \in 1..NodeMax /\ used' \in 0..count' /\ free' \subseteq 1..used'
  BY <1>1, <1>3 DEF StoreInv, NodeTableTypeOK
<1>10. Existing(k, v, lo, hi) = {}
  BY DEF MakeAfterSweep
<1>11. n \in Slots /\ n \notin live
  BY <1>2
<1>12. /\ StoreInv'
       /\ SoundNext(Ref(k, lo, n))
       /\ k # "unreduced" => ReducedNext(Ref(k, lo, n))
  BY <1>1, <1>4, <1>5, <1>8, <1>9, <1>10, <1>11, WriteNode
<1>13. QED
  BY <1>1, <1>5, <1>12

-----------------------------------------------------------------------------
\* set_child0 and set_child1: the node keeps its variable and its flag.
LEMMA OverwriteKeeps ==
  ASSUME UNCHANGED orderVars, StoreInv,
         NEW n \in Allocated, ~ nodes[n].red,
         NEW rec \in NodeRecs, Overwrite(n, rec),
         rec.var = nodes[n].var, ~ rec.red,
         Sound(rec.lo), Sound(rec.hi)
  PROVE  /\ StoreInv'
         /\ \A e : Sound(e) => SoundNext(e) /\ ReducedNext(e) = IsReduced(e)
<1>1. Allocated \subseteq Slots /\ nodes \in [Slots -> NodeRecs]
  BY NodeTableAssumption DEF StoreInv, NodeTableTypeOK, Allocated, Slots
<1>2. /\ nodes' = [nodes EXCEPT ![n] = rec]
      /\ UNCHANGED <<used, count, free, table, varcount, var2level>>
  BY DEF Overwrite, orderVars
<1>3. Allocated' = Allocated /\ VarsUsed' = VarsUsed
  BY <1>2 DEF Allocated, VarsUsed
<1>4. nodes'[n] = rec /\ \A m \in Slots \ {n} : nodes'[m] = nodes[m]
  BY <1>1, <1>2
<1>5. \A m \in Allocated : /\ nodes'[m].var = nodes[m].var
                           /\ nodes'[m].red <=> nodes[m].red
  BY <1>1, <1>4
<1>6. \A m \in Allocated : nodes'[m].red \in BOOLEAN /\ nodes[m].red \in BOOLEAN
  BY <1>1, <1>4 DEF NodeRecs
<1>7. ASSUME NEW e, Sound(e)
      PROVE  /\ SoundNext(e) /\ ReducedNext(e) = IsReduced(e)
             /\ LevelNext(e) = Level(e)
  BY <1>2, <1>3, <1>5, <1>6, <1>7
     DEF Sound, SoundNext, ReducedNext, IsReduced, LevelNext, Level
<1>8. ReducedNodes' = ReducedNodes
      /\ \A m \in ReducedNodes : m \in Allocated /\ nodes'[m] = nodes[m]
  BY <1>1, <1>3, <1>4, <1>5 DEF ReducedNodes
<1>9. NodeTableTypeOK'
  BY <1>1, <1>2, <1>3 DEF StoreInv, NodeTableTypeOK
<1>10. ChildrenSound'
  <2> SUFFICES ASSUME NEW m \in Allocated
               PROVE  /\ nodes'[m].var \in VarsUsed
                      /\ SoundNext(nodes'[m].lo) /\ SoundNext(nodes'[m].hi)
    BY <1>3 DEF ChildrenSound, Sound, SoundNext
  <2>1. CASE m = n
    BY <2>1, <1>4, <1>7 DEF StoreInv, ChildrenSound
  <2>2. CASE m # n
    BY <2>2, <1>1, <1>4, <1>7 DEF StoreInv, ChildrenSound
  <2>3. QED
    BY <2>1, <2>2
<1>11. NoDuplicates' /\ TableExact'
  BY <1>2, <1>8 DEF StoreInv, NoDuplicates, TableExact
<1>12. Ordered'
  <2> SUFFICES ASSUME NEW m \in ReducedNodes
               PROVE  \A e \in {nodes'[m].lo, nodes'[m].hi} :
                        /\ ReducedNext(e)
                        /\ LevelNext(e) < var2level'[nodes'[m].var]
    BY <1>8 DEF Ordered, IsReduced, Level, ReducedNext, LevelNext
  <2>1. \A e \in {nodes[m].lo, nodes[m].hi} :
          Sound(e) /\ IsReduced(e) /\ Level(e) < var2level[nodes[m].var]
    BY <1>8 DEF StoreInv, ChildrenSound, Ordered
  <2>2. QED
    BY <1>2, <1>7, <1>8, <2>1
<1>13. QED
  BY <1>7, <1>9, <1>10, <1>11, <1>12 DEF StoreInv

(***************************************************************************)
(* A new variable, on top of the order or in the middle of it, moves the   *)
(* levels under the existing nodes, and they stay ordered.                 *)
(***************************************************************************)
LEMMA NewLevelsKeep ==
  ASSUME StoreInv, UNCHANGED tableVars, VarsUsed \subseteq VarsUsed',
         \A v \in VarsUsed : var2level'[v] > 0,
         \A u, v \in VarsUsed :
            var2level[u] < var2level[v] => var2level'[u] < var2level'[v]
  PROVE  StoreInv' /\ Keeps(Allocated)
<1>1. UNCHANGED <<nodes, used, count, free, table>>
  BY DEF tableVars
<1>2. Allocated' = Allocated /\ ReducedNodes' = ReducedNodes
  BY <1>1 DEF Allocated, ReducedNodes
<1>3. NodeTableTypeOK' /\ NoDuplicates' /\ TableExact'
  BY <1>1, <1>2 DEF StoreInv, NodeTableTypeOK, NoDuplicates, TableExact
<1>4. ChildrenSound'
  BY <1>1, <1>2 DEF StoreInv, ChildrenSound, Sound
<1>5. Ordered'
  <2> SUFFICES ASSUME NEW m \in ReducedNodes,
                      NEW e \in {nodes[m].lo, nodes[m].hi}
               PROVE  ReducedNext(e) /\ LevelNext(e) < var2level'[nodes[m].var]
    BY <1>1, <1>2 DEF Ordered, IsReduced, Level, ReducedNext, LevelNext
  <2>1. Sound(e) /\ IsReduced(e) /\ Level(e) < var2level[nodes[m].var]
        /\ nodes[m].var \in VarsUsed
    BY DEF StoreInv, ChildrenSound, Ordered, ReducedNodes
  <2>2. ReducedNext(e)
    BY <1>1, <2>1 DEF IsReduced, ReducedNext
  <2>3. CASE e.node = 0
    BY <2>1, <2>2, <2>3 DEF LevelNext
  <2>4. CASE e.node # 0
    <3>1. nodes[e.node].var \in VarsUsed
      BY <2>1, <2>4 DEF Sound, StoreInv, ChildrenSound
    <3>2. QED
      BY <1>1, <2>1, <2>2, <2>4, <3>1 DEF Level, LevelNext
  <2>5. QED
    BY <2>3, <2>4
<1>6. Keeps(Allocated)
  BY <1>1, <1>2 DEF Keeps
<1>7. QED
  BY <1>3, <1>4, <1>5, <1>6 DEF StoreInv

LEMMA NewVarKeeps ==
  ASSUME VarOrderInv, StoreInv, UNCHANGED tableVars,
         NewVar \/ \E lev \in 1..(varcount + 1) : NewVarOfLev(lev)
  PROVE  StoreInv' /\ Keeps(Allocated)
<1>1. VarOrderTypeOK /\ VarOrderInv' /\ varcount \in Nat
      /\ varcount' = varcount + 1
  BY NewVarInverse, NewVarOfLevInverse, OrderRanges
     DEF VarOrderInv, NewVar, NewVarOfLev
<1>2. VarsUsed \subseteq VarsUsed'
  BY <1>1 DEF VarsUsed
<1>3. \A v \in VarsUsed : var2level'[v] > 0
  <2>1. \A v \in VarsUsed' : var2level'[v] \in VarsUsed'
    BY <1>1 DEF VarOrderInv, VarOrderTypeOK
  <2>2. \A l \in VarsUsed' : l > 0
    BY <1>1 DEF VarsUsed
  <2>3. QED
    BY <1>2, <2>1, <2>2
<1>4. \A u, v \in VarsUsed :
        var2level[u] < var2level[v] => var2level'[u] < var2level'[v]
  BY <1>1, NeverSwapped DEF RelativeOrderStep, VarOrderNext
<1>5. QED
  BY <1>2, <1>3, <1>4, NewLevelsKeep

\* bddfinal and bddinit leave an empty, well-formed table.
LEMMA ResetKeeps ==
  ASSUME ResetTable
  PROVE  StoreInv' /\ Allocated' = {}
<1>1. Allocated' = {}
  BY DEF ResetTable, Allocated
<1>2. Junk \in NodeRecs
  BY NodeTableAssumption, VarMaxAssumption
     DEF Junk, NodeRecs, Edges, Consts, Null, Const
<1>3. NodeTableTypeOK'
  BY <1>1, <1>2, NodeTableAssumption DEF ResetTable, NodeTableTypeOK
<1>4. ReducedNodes' = {} /\ table' = {}
  BY <1>1 DEF ReducedNodes, ResetTable
<1>5. QED
  BY <1>1, <1>3, <1>4
     DEF StoreInv, ChildrenSound, NoDuplicates, TableExact, Ordered

-----------------------------------------------------------------------------
(***************************************************************************)
(* What a diagram means depends on nothing but its nodes and the order of  *)
(* its variables, and a function or family has one diagram only.           *)
(*                                                                         *)
(* The proofs are by induction on the level of an edge, as a minimal       *)
(* counterexample: the levels of the edges that violate the claim have a   *)
(* least element (NatMin), and the children of that edge are lower.        *)
(***************************************************************************)

\* A set of numbers has a least element: there is no injection of a finite
\* set into a smaller one.
LEMMA NatMin ==
  ASSUME NEW T, T \subseteq Nat, T # {}
  PROVE  \E x \in T : \A y \in T : x <= y
<1> SUFFICES ASSUME \A x \in T : \E y \in T : y < x PROVE FALSE
  OBVIOUS
<1>1. PICK n \in T : TRUE
  OBVIOUS
<1> DEFINE U == {u \in 0..n : \A t \in T : u < t}
           s == [u \in U |-> u + 1]
<1>2. 0 \in U
  OBVIOUS
<1>3. \A u \in U : u + 1 \in U \ {0}
  OBVIOUS
<1>4. IsFiniteSet(U) /\ IsFiniteSet(U \ {0})
  <2>1. IsFiniteSet(0..n)
    BY FS_Interval
  <2>2. U \subseteq 0..n /\ U \ {0} \subseteq 0..n
    OBVIOUS
  <2>3. QED
    BY <2>1, <2>2, FS_Subset
<1>5. Cardinality(U) <= Cardinality(U \ {0})
  <2>1. s \in Injection(U, U \ {0})
    BY <1>3 DEF Injection, IsInjective
  <2> HIDE DEF U, s
  <2>2. QED
    BY <1>4, <2>1, FS_Injection
<1>6. Cardinality(U \ {0}) = Cardinality(U) - 1
  BY <1>2, <1>4, FS_RemoveElement
<1>7. Cardinality(U) \in Nat
  BY <1>4, FS_CardinalityType
<1>8. QED
  BY <1>5, <1>6, <1>7

IsWalk(P, E, next, out, f) ==
  f = [p \in P |-> IF p \in E THEN out[p] ELSE f[next[p]]]

\* A walk: from p to next[p] until it is at an end.
LEMMA WalkEnds ==
  ASSUME NEW P, NEW E, NEW next \in [P -> P], NEW out
  PROVE  \E f : IsWalk(P, E, next, out, f)
<1> DEFINE Onward(S) == \A q \in S : q \notin E => next[q] \in S
           R(p) == {q \in P : \A S \in SUBSET P : p \in S /\ Onward(S) => q \in S}
           end(p) == CHOOSE q \in P : q \in R(p) /\ q \in E
           f == [p \in P |-> out[end(p)]]
<1>1. ASSUME NEW p \in P, p \in E
      PROVE  R(p) = {p}
  <2>1. {p} \in SUBSET P /\ p \in {p} /\ Onward({p})
    BY <1>1
  <2>2. R(p) \subseteq {p}
    BY <2>1
  <2>3. QED
    BY <2>2
<1>2. ASSUME NEW p \in P, p \notin E
      PROVE  R(p) \subseteq {p} \cup R(next[p])
  <2> SUFFICES ASSUME NEW q \in R(p), q # p, NEW S \in SUBSET P,
                      next[p] \in S, Onward(S)
               PROVE  q \in S
    BY <1>2
  <2>1. S \cup {p} \in SUBSET P /\ Onward(S \cup {p})
    BY <1>2
  <2>2. QED
    BY <2>1
<1>3. ASSUME NEW p \in P, p \notin E
      PROVE  R(next[p]) \subseteq R(p)
  BY <1>3
<1>4. ASSUME NEW p \in P, p \notin E
      PROVE  \A q \in P : (q \in R(p) /\ q \in E) <=> (q \in R(next[p]) /\ q \in E)
  BY <1>2, <1>3, <1>4
<1>5. ASSUME NEW p \in P
      PROVE  f[p] = IF p \in E THEN out[p] ELSE f[next[p]]
  <2>1. CASE p \in E
    <3>1. end(p) = p
      BY <1>1, <2>1
    <3>2. QED
      BY <2>1, <3>1
  <2>2. CASE p \notin E
    <3>1. end(p) = end(next[p])
      BY <1>4, <2>2
    <3>2. next[p] \in P
      OBVIOUS
    <3> HIDE DEF R, end
    <3>3. f[p] = out[end(p)] /\ f[next[p]] = out[end(next[p])]
      BY <3>2
    <3>4. QED
      BY <2>2, <3>1, <3>3
  <2>3. QED
    BY <2>1, <2>2
<1>6. f = [p \in P |-> IF p \in E THEN out[p] ELSE f[next[p]]]
  <2> HIDE DEF R, end
  <2>1. QED
    BY <1>5
<1>7. QED
  <2> HIDE DEF f
  <2>1. IsWalk(P, E, next, out, f)
    BY <1>6 DEF IsWalk
  <2>2. QED
    BY <2>1

LEMMA ChildIsEdge ==
  ASSUME NodeTableTypeOK, NEW k, NEW e \in Edges, e.node # 0, NEW b
  PROVE  ChildOf(k, e, b) \in Edges
<1>1. e.node \in Slots
  BY DEF Edges, Consts
<1>2. nodes[e.node].lo \in Edges /\ nodes[e.node].hi \in Edges
  BY <1>1 DEF NodeTableTypeOK, NodeRecs
<1>3. QED
  BY <1>2, NotFacts DEF ChildOf

LEMMA ValueEqn ==
  ASSUME NodeTableTypeOK, NEW k, NEW e \in Edges, NEW a \in Assignments
  PROVE  Value(k, e, a) =
           IF ZeroSuppressed(k) /\ ~ NoneSkipped(e, a) THEN 0
           ELSE IF e.node = 0 THEN e.comp
           ELSE LET v == nodes[e.node].var
                IN  Value(k, ChildOf(k, e, IF v \in a THEN 1 ELSE 0),
                          IF ZeroSuppressed(k) THEN a \ {v} ELSE a)
<1> DEFINE
     P == Edges \X Assignments
     Skips(p) == ZeroSuppressed(k) /\ ~ NoneSkipped(p[1], p[2])
     E == {p \in P : Skips(p) \/ p[1].node = 0}
     var(p) == nodes[p[1].node].var
     onward(p) == <<ChildOf(k, p[1], IF var(p) \in p[2] THEN 1 ELSE 0),
                    IF ZeroSuppressed(k) THEN p[2] \ {var(p)} ELSE p[2]>>
     next == [p \in P |-> IF p \in E THEN p ELSE onward(p)]
     out == [p \in P |-> IF Skips(p) THEN 0 ELSE p[1].comp]
     val == CHOOSE f : IsWalk(P, E, next, out, f)
<1>1. next \in [P -> P]
  <2>1. ASSUME NEW p \in P
        PROVE  onward(p) \in P \/ p[1].node = 0
    <3>1. p[1] \in Edges /\ p[2] \in Assignments
      OBVIOUS
    <3>2. p[1].node # 0 => ChildOf(k, p[1], 0) \in Edges /\ ChildOf(k, p[1], 1) \in Edges
      BY <3>1, ChildIsEdge
    <3>3. p[2] \ {var(p)} \in Assignments
      BY <3>1 DEF Assignments
    <3>4. QED
      BY <3>1, <3>2, <3>3
  <2>2. QED
    BY <2>1
<1>2. \E f : IsWalk(P, E, next, out, f)
  <2> HIDE DEF P, E, next, out
  <2>1. QED
    BY <1>1, WalkEnds
<1>3. IsWalk(P, E, next, out, val)
  <2> HIDE DEF P, E, next, out
  <2>1. QED
    BY <1>2
<1>4. \A x \in Edges, b \in Assignments : Value(k, x, b) = val[<<x, b>>]
  BY ZenonT(60) DEF Value, IsWalk
<1>5. \A p \in P : val[p] = IF p \in E THEN out[p] ELSE val[next[p]]
  <2> HIDE DEF P, E, next, out, val
  <2>1. QED
    BY <1>3 DEF IsWalk
<1>6. QED
  <2> DEFINE p == <<e, a>>
  <2>1. p \in P /\ p[1] = e /\ p[2] = a
    OBVIOUS
  <2>2. CASE p \in E
    <3>1. Value(k, e, a) = IF Skips(p) THEN 0 ELSE e.comp
      <4>1. Value(k, e, a) = out[p]
       <5> HIDE DEF E, out, next, val
       <5> QED
        BY <1>4, <1>5, <2>1, <2>2
      <4>2. QED
        BY <4>1, <2>1
    <3>2. QED
      BY <3>1, <2>1, <2>2
  <2>3. CASE p \notin E
    <3>1. Value(k, e, a) = val[onward(p)]
      <4>1. Value(k, e, a) = val[next[p]]
       <5> HIDE DEF E, out, next, val
       <5> QED
        BY <1>4, <1>5, <2>1, <2>3
      <4>2. QED
        BY <4>1, <2>1, <2>3
    <3>2. onward(p) \in P
      BY <1>1, <2>1, <2>3
    <3>3. QED
      <4> HIDE DEF val
      <4> QED
      BY <3>1, <3>2, <1>4, <2>1, <2>3
  <2>4. QED
    BY <2>2, <2>3

\* The value of an edge in terms of those of its children.
Unfolded(k, e, a) ==
  IF ZeroSuppressed(k) /\ ~ NoneSkipped(e, a) THEN 0
  ELSE IF e.node = 0 THEN e.comp
  ELSE LET v == nodes[e.node].var
       IN  Value(k, ChildOf(k, e, IF v \in a THEN 1 ELSE 0),
                 IF ZeroSuppressed(k) THEN a \ {v} ELSE a)

ValueUnfolds ==
  \A k : \A e \in Edges : \A a \in Assignments :
    Value(k, e, a) = Unfolded(k, e, a)

LEMMA Unfolding == NodeTableTypeOK => ValueUnfolds
BY ValueEqn DEF ValueUnfolds, Unfolded

LEMMA UnfoldingNext == NodeTableTypeOK' => ValueUnfolds'
BY Unfolding, PTL

-----------------------------------------------------------------------------
LevelsPositive == \A v \in VarsUsed : var2level[v] \in Nat /\ var2level[v] > 0

LEMMA PositiveLevels == VarOrderInv => LevelsPositive
BY OrderRanges DEF VarOrderInv, LevelsPositive, VarsUsed

LEMMA PositiveLevelsNext == VarOrderInv' => LevelsPositive'
BY PositiveLevels, PTL

\* The reduced nodes are closed under children.
LEMMA ReducedClosed ==
  ASSUME StoreInv
  PROVE  SelfContained(ReducedNodes)
<1> SUFFICES ASSUME NEW n \in ReducedNodes, NEW e \in {nodes[n].lo, nodes[n].hi}
             PROVE  Within(ReducedNodes, e)
  BY DEF SelfContained
<1>1. Sound(e) /\ IsReduced(e)
  BY DEF StoreInv, ChildrenSound, Ordered, ReducedNodes
<1>2. QED
  BY <1>1 DEF Sound, IsReduced, Within, ReducedNodes

\* Going down from a reduced node: the levels decrease to 0.
LEMMA DescentFacts ==
  ASSUME VarOrderInv, StoreInv, NEW A \in SUBSET ReducedNodes,
         SelfContained(A), NEW e, Within(A, e)
  PROVE  /\ e \in Edges /\ Level(e) \in Nat
         /\ e.node = 0 => Level(e) = 0
         /\ e.node # 0 =>
              /\ nodes[e.node].var \in VarsUsed
              /\ Level(e) = var2level[nodes[e.node].var] /\ Level(e) > 0
              /\ \A k, b : /\ Within(A, ChildOf(k, e, b))
                           /\ Level(ChildOf(k, e, b)) < Level(e)
<1>1. CASE e.node = 0
  BY <1>1 DEF Within, Level
<1>2. CASE e.node # 0
  <2>1. e.node \in A /\ e.node \in ReducedNodes /\ e \in Edges
    BY <1>2 DEF Within
  <2>2. nodes[e.node].var \in VarsUsed
    BY <2>1 DEF StoreInv, ChildrenSound, ReducedNodes
  <2>3. Level(e) = var2level[nodes[e.node].var]
        /\ Level(e) \in Nat /\ Level(e) > 0
    BY <1>2, <2>2, OrderRanges DEF Level, VarOrderInv, VarsUsed
  <2>4. ASSUME NEW k, NEW b
        PROVE  /\ Within(A, ChildOf(k, e, b))
               /\ Level(ChildOf(k, e, b)) < Level(e)
    <3>1. PICK c \in {nodes[e.node].lo, nodes[e.node].hi} :
            ChildOf(k, e, b) \in {c, Not(c)}
      BY DEF ChildOf
    <3>2. Within(A, c) /\ Level(c) < Level(e)
      BY <2>1, <2>3 DEF SelfContained, StoreInv, Ordered
    <3>3. QED
      BY <3>1, <3>2, NotFacts DEF Within
  <2>5. QED
    BY <1>2, <2>1, <2>2, <2>3, <2>4
<1>3. QED
  BY <1>1, <1>2

-----------------------------------------------------------------------------
(***************************************************************************)
(* A step that keeps the nodes under an edge, and the order of the         *)
(* variables there were, keeps what the edge means.                        *)
(***************************************************************************)
LEMMA ValueKept ==
  ASSUME VarOrderInv, StoreInv, VarOrderInv', StoreInv',
         NEW A \in SUBSET ReducedNodes, SelfContained(A),
         \A n \in A : nodes'[n] = nodes[n],
         VarsUsed \subseteq VarsUsed',
         \A u, v \in VarsUsed :
            (var2level[u] < var2level[v]) <=> (var2level'[u] < var2level'[v]),
         NEW k
  PROVE  \A e : \A a \in Assignments :
            Within(A, e) => Value(k, e, a)' = Value(k, e, a)
<1> DEFINE Wrong(e, a) == /\ Within(A, e) /\ a \in Assignments
                          /\ Value(k, e, a)' # Value(k, e, a)
           T == {l \in Nat : \E e, a : Wrong(e, a) /\ l = Level(e)}
<1> SUFFICES ASSUME T # {} PROVE FALSE
  BY DescentFacts
<1>1. PICK l \in T : \A m \in T : l <= m
  BY NatMin
<1>2. PICK e, a : Wrong(e, a) /\ l = Level(e)
  OBVIOUS
<1>3. \A d : Within(A, d) /\ Level(d) < l =>
        \A b \in Assignments : Value(k, d, b)' = Value(k, d, b)
  BY <1>1, DescentFacts
<1>4. /\ e \in Edges /\ a \in Assignments /\ a \in Assignments'
      /\ ValueUnfolds /\ ValueUnfolds'
  BY <1>2, Unfolding, UnfoldingNext DEF Within, Assignments, StoreInv
<1>5. Value(k, e, a) = Unfolded(k, e, a) /\ Value(k, e, a)' = Unfolded(k, e, a)'
  BY <1>4 DEF ValueUnfolds
<1>6. NoneSkipped(e, a)' <=> NoneSkipped(e, a)
  <2>1. \A u \in a : u \in VarsUsed /\ u \in VarsUsed'
    BY <1>4 DEF Assignments
  <2>2. \A u \in a : /\ var2level[u] \in Int /\ var2level[u] > 0
                     /\ var2level'[u] \in Int /\ var2level'[u] > 0
    BY <2>1, PositiveLevels, PositiveLevelsNext DEF LevelsPositive
  <2>3. CASE e.node = 0
    <3>1. Level(e) = 0 /\ Level(e)' = 0
      BY <2>3 DEF Level
    <3>2. QED
      BY <2>2, <3>1 DEF NoneSkipped
  <2>4. CASE e.node # 0
    <3> DEFINE w == nodes[e.node].var
    <3>1. nodes'[e.node] = nodes[e.node]
      BY <1>2, <2>4 DEF Within
    <3>2. w \in VarsUsed /\ Level(e) = var2level[w] /\ Level(e)' = var2level'[w]
      BY <1>2, <2>4, <3>1, DescentFacts DEF Level
    <3>3. var2level[w] \in Int /\ var2level'[w] \in Int
      BY <3>2, PositiveLevels, PositiveLevelsNext DEF LevelsPositive, VarOrderInv
    <3>4. \A u \in a : (var2level[u] <= var2level[w])
                       <=> (var2level'[u] <= var2level'[w])
      BY <2>1, <2>2, <3>2, <3>3
    <3>5. QED
      BY <3>2, <3>4 DEF NoneSkipped
  <2>5. QED
    BY <2>3, <2>4
<1>7. CASE e.node = 0
  BY <1>2, <1>5, <1>6, <1>7 DEF Unfolded
<1>8. CASE e.node # 0
  <2> DEFINE side == IF nodes[e.node].var \in a THEN 1 ELSE 0
  <2>1. nodes'[e.node] = nodes[e.node]
    BY <1>2, <1>8 DEF Within
  <2>2. PICK d : d = ChildOf(k, e, side)
    OBVIOUS
  <2>3. ChildOf(k, e, side)' = d
    BY <2>1, <2>2 DEF ChildOf
  <2>4. PICK b : b = IF ZeroSuppressed(k) THEN a \ {nodes[e.node].var} ELSE a
    OBVIOUS
  <2>5. Value(k, d, b)' = Value(k, d, b)
    <3>1. Within(A, d) /\ Level(d) < l
      BY <1>2, <1>8, <2>2, DescentFacts
    <3>2. b \in Assignments
      BY <1>4, <2>4 DEF Assignments
    <3>3. QED
      BY <1>3, <3>1, <3>2
  <2>6. /\ Unfolded(k, e, a) = IF ZeroSuppressed(k) /\ ~ NoneSkipped(e, a)
                              THEN 0 ELSE Value(k, d, b)
        /\ Unfolded(k, e, a)' = IF ZeroSuppressed(k) /\ ~ NoneSkipped(e, a)'
                               THEN 0 ELSE Value(k, d, b)'
    BY <1>8, <2>1, <2>2, <2>3, <2>4 DEF Unfolded
  <2>7. QED
    BY <1>2, <1>5, <1>6, <2>5, <2>6
<1>9. QED
  BY <1>7, <1>8

-----------------------------------------------------------------------------
(***************************************************************************)
(* A diagram that skips no value for its skipped variables does not depend *)
(* on a variable above it.                                                 *)
(***************************************************************************)
LEMMA UnreadVariable ==
  ASSUME VarOrderInv, StoreInv, NEW k, ~ ZeroSuppressed(k), NEW v \in VarsUsed
  PROVE  \A e : \A a \in Assignments :
            Within(ReducedNodes, e) /\ Level(e) < var2level[v] =>
              Value(k, e, a \cup {v}) = Value(k, e, a \ {v})
<1> DEFINE Wrong(e, a) ==
             /\ Within(ReducedNodes, e) /\ Level(e) < var2level[v]
             /\ a \in Assignments
             /\ Value(k, e, a \cup {v}) # Value(k, e, a \ {v})
           T == {l \in Nat : \E e, a : Wrong(e, a) /\ l = Level(e)}
<1>0. SelfContained(ReducedNodes)
  BY ReducedClosed
<1> SUFFICES ASSUME T # {} PROVE FALSE
  BY <1>0, DescentFacts
<1>1. PICK l \in T : \A m \in T : l <= m
  BY NatMin
<1>2. PICK e, a : Wrong(e, a) /\ l = Level(e)
  OBVIOUS
<1>3. \A d : Within(ReducedNodes, d) /\ Level(d) < l =>
        Value(k, d, a \cup {v}) = Value(k, d, a \ {v})
  <2> SUFFICES ASSUME NEW d, Within(ReducedNodes, d), Level(d) < l
               PROVE  ~ Wrong(d, a) /\ Level(d) < var2level[v]
    BY <1>2
  <2>1. Level(d) \in Nat /\ Level(e) \in Nat /\ var2level[v] \in Nat
    BY <1>0, <1>2, DescentFacts, PositiveLevels DEF LevelsPositive
  <2>2. Level(d) \notin T
    <3> HIDE DEF T
    <3> QED
      BY <1>1, <1>2, <2>1
  <2>3. ~ Wrong(d, a)
    <3> HIDE DEF Wrong
    <3> QED
      BY <2>1, <2>2
  <2>4. Level(d) < var2level[v]
    BY <1>2, <2>1
  <2>5. QED
    BY <2>3, <2>4
<1>4. /\ e \in Edges /\ ValueUnfolds
      /\ a \cup {v} \in Assignments /\ a \ {v} \in Assignments
  BY <1>2, Unfolding DEF Within, Assignments, StoreInv
<1>5. /\ Value(k, e, a \cup {v}) = Unfolded(k, e, a \cup {v})
      /\ Value(k, e, a \ {v}) = Unfolded(k, e, a \ {v})
  BY <1>4 DEF ValueUnfolds
<1>6. CASE e.node = 0
  BY <1>2, <1>5, <1>6 DEF Unfolded
<1>7. CASE e.node # 0
  <2> DEFINE u == nodes[e.node].var
             d == ChildOf(k, e, IF u \in a THEN 1 ELSE 0)
  <2>1. Level(e) = var2level[u] /\ Level(e) \in Nat
    BY <1>0, <1>2, <1>7, DescentFacts
  <2>2. u # v
    BY <1>2, <2>1
  <2>3. Within(ReducedNodes, d) /\ Level(d) < l
    BY <1>0, <1>2, <1>7, DescentFacts
  <2>4. /\ Unfolded(k, e, a \cup {v}) = Value(k, d, a \cup {v})
        /\ Unfolded(k, e, a \ {v}) = Value(k, d, a \ {v})
    BY <1>7, <2>2 DEF Unfolded
  <2>5. QED
    BY <1>2, <1>3, <1>5, <2>3, <2>4
<1>8. QED
  BY <1>6, <1>7

-----------------------------------------------------------------------------
\* Every level is visited (QDD).
Full(S) ==
  \A n \in S : \A child \in {nodes[n].lo, nodes[n].hi} :
    Level(child) = var2level[nodes[n].var] - 1

\* Two edges of a kind that mean the same.
Twins(k, S, e, g) ==
  /\ OfKind(k, S, e) /\ OfKind(k, S, g)
  /\ k = "qdd" => Level(e) = Level(g)
  /\ \A a \in Assignments : Value(k, e, a) = Value(k, g, a)

LEMMA KindFacts ==
  ASSUME VarOrderInv, StoreInv, NEW k \in Reducing, NEW S, Diagrams(k, S),
         NEW e, OfKind(k, S, e)
  PROVE  /\ Within(S, e) /\ Level(e) \in Nat
         /\ S \in SUBSET ReducedNodes /\ SelfContained(S)
         /\ e.node = 0 => Level(e) = 0 /\ e \in ConstsOf(k)
         /\ e.node # 0 =>
              /\ e \in Edges /\ e.node \in S /\ e.comp \in {0, 1}
              /\ nodes[e.node].var \in VarsUsed
              /\ Level(e) = var2level[nodes[e.node].var] /\ Level(e) > 0
              /\ \A b : /\ OfKind(k, S, ChildOf(k, e, b))
                        /\ Level(ChildOf(k, e, b)) < Level(e)
<1>1. \A x : OfKind(k, S, x) => Within(S, x)
  BY NodeTableAssumption
     DEF OfKind, Within, Edges, Consts, ConstsOf, True, False, Const
<1>2. S \in SUBSET ReducedNodes /\ SelfContained(S)
  BY <1>1 DEF Diagrams, SelfContained
<1>3. e.node # 0 => \A b : OfKind(k, S, ChildOf(k, e, b))
  <2> SUFFICES ASSUME e.node # 0, NEW b
               PROVE  OfKind(k, S, ChildOf(k, e, b))
    OBVIOUS
  <2>1. PICK c \in {nodes[e.node].lo, nodes[e.node].hi} :
          \/ ChildOf(k, e, b) = c
          \/ k \in {"bdd", "zdd", "qdd"} /\ ChildOf(k, e, b) = Not(c)
    BY DEF ChildOf
  <2>2. OfKind(k, S, c)
    BY DEF OfKind, Diagrams
  <2>3. CASE k \in {"bdd", "zdd", "qdd"}
    <3>1. OfKind(k, S, Not(c))
      BY <2>2, <2>3, <1>1, NotFacts
         DEF OfKind, Within, ConstsOf, True, False, Const, Not
    <3>2. QED
      BY <2>1, <2>2, <3>1
  <2>4. QED
    BY <2>1, <2>2, <2>3
<1>4. QED
  BY <1>1, <1>2, <1>3, DescentFacts DEF OfKind, Edges, Consts

(***************************************************************************)
(* What the children of an edge mean, from what the edge means: its value  *)
(* with its variable set or not.                                           *)
(***************************************************************************)
LEMMA CofactorValue ==
  ASSUME VarOrderInv, StoreInv, NEW k \in Reducing, NEW S, Diagrams(k, S),
         NEW e, OfKind(k, S, e), e.node # 0,
         NEW v, v = nodes[e.node].var, NEW a \in Assignments
  PROVE  /\ ~ ZeroSuppressed(k) =>
              /\ Value(k, ChildOf(k, e, 1), a) = Value(k, e, a \cup {v})
              /\ Value(k, ChildOf(k, e, 0), a) = Value(k, e, a \ {v})
         /\ ZeroSuppressed(k) =>
              IF \A u \in a : var2level[u] < Level(e)
              THEN /\ Value(k, ChildOf(k, e, 1), a) = Value(k, e, a \cup {v})
                   /\ Value(k, ChildOf(k, e, 0), a) = Value(k, e, a)
              ELSE /\ Value(k, ChildOf(k, e, 1), a) = 0
                   /\ Value(k, ChildOf(k, e, 0), a) = 0
<1> DEFINE c(b) == ChildOf(k, e, b)
<1>1. /\ v \in VarsUsed /\ e \in Edges
      /\ Level(e) = var2level[v] /\ Level(e) \in Nat
      /\ \A b : /\ OfKind(k, S, c(b)) /\ Level(c(b)) < Level(e)
                /\ Level(c(b)) \in Nat
                /\ Within(ReducedNodes, c(b)) /\ c(b) \in Edges
  <2>1. \A x : OfKind(k, S, x) => /\ Within(ReducedNodes, x) /\ Level(x) \in Nat
                                 /\ x \in Edges
    BY KindFacts DEF Within
  <2>2. QED
    BY <2>1, KindFacts
<1>2. /\ a \cup {v} \in Assignments /\ a \ {v} \in Assignments
      /\ ValueUnfolds
  BY <1>1, Unfolding DEF Assignments, StoreInv
<1>3. \A x \in Edges, b \in Assignments : Value(k, x, b) = Unfolded(k, x, b)
  BY <1>2 DEF ValueUnfolds
<1>4. ASSUME ~ ZeroSuppressed(k)
      PROVE  /\ Value(k, c(1), a) = Value(k, e, a \cup {v})
             /\ Value(k, c(0), a) = Value(k, e, a \ {v})
  <2>1. \A b : Value(k, c(b), a \cup {v}) = Value(k, c(b), a \ {v})
    BY <1>1, <1>4, UnreadVariable
  <2>2. a = a \cup {v} \/ a = a \ {v}
    OBVIOUS
  <2>3. /\ Unfolded(k, e, a \cup {v}) = Value(k, c(1), a \cup {v})
        /\ Unfolded(k, e, a \ {v}) = Value(k, c(0), a \ {v})
    BY <1>4 DEF Unfolded
  <2>4. QED
    <3> HIDE DEF c
    <3> QED
      BY <1>1, <1>2, <1>3, <2>1, <2>2, <2>3
<1>5. ASSUME ZeroSuppressed(k), \A u \in a : var2level[u] < Level(e)
      PROVE  /\ Value(k, c(1), a) = Value(k, e, a \cup {v})
             /\ Value(k, c(0), a) = Value(k, e, a)
  <2>1. v \notin a
    BY <1>1, <1>5
  <2>2. \A u \in a : var2level[u] \in Nat
    BY PositiveLevels DEF LevelsPositive, Assignments
  <2>3. NoneSkipped(e, a) /\ NoneSkipped(e, a \cup {v})
    BY <1>1, <1>5, <2>2 DEF NoneSkipped
  <2>4. (a \cup {v}) \ {v} = a /\ a \ {v} = a
    BY <2>1
  <2>5. /\ Unfolded(k, e, a \cup {v}) = Value(k, c(1), a)
        /\ Unfolded(k, e, a) = Value(k, c(0), a)
    BY <2>1, <2>3, <2>4, <1>5 DEF Unfolded
  <2>6. QED
    BY <1>1, <1>2, <1>3, <2>5
<1>6. ASSUME ZeroSuppressed(k), ~ \A u \in a : var2level[u] < Level(e)
      PROVE  \A b : Value(k, c(b), a) = 0
  <2>1. PICK u \in a : ~ (var2level[u] < Level(e))
    BY <1>6
  <2>2. var2level[u] \in Nat
    BY PositiveLevels DEF LevelsPositive, Assignments
  <2>3. \A b : ~ NoneSkipped(c(b), a)
    <3> HIDE DEF c
    <3> QED
      BY <1>1, <2>1, <2>2 DEF NoneSkipped
  <2>4. \A b : Unfolded(k, c(b), a) = 0
    BY <2>3, <1>6 DEF Unfolded
  <2>5. QED
    BY <1>1, <1>3, <2>4
<1>7. QED
  BY <1>4, <1>5, <1>6

\* Twins at one level have twins for children.
LEMMA CofactorTwins ==
  ASSUME VarOrderInv, StoreInv, NEW k \in Reducing, NEW S, Diagrams(k, S),
         k = "qdd" => Full(S),
         NEW e, NEW g, Twins(k, S, e, g),
         e.node # 0, g.node # 0, Level(e) = Level(g)
  PROVE  /\ nodes[e.node].var = nodes[g.node].var
         /\ \A b \in {0, 1} : Twins(k, S, ChildOf(k, e, b), ChildOf(k, g, b))
<1> DEFINE v == nodes[e.node].var
<1>1. /\ OfKind(k, S, e) /\ OfKind(k, S, g)
      /\ v \in VarsUsed /\ nodes[g.node].var \in VarsUsed
      /\ Level(e) = var2level[v] /\ Level(g) = var2level[nodes[g.node].var]
  BY KindFacts DEF Twins
<1>2. v = nodes[g.node].var
  <2> DEFINE w == nodes[g.node].var
  <2>1. var2level[v] = var2level[w]
    BY <1>1
  <2>2. level2var[var2level[v]] = v /\ level2var[var2level[w]] = w
    BY <1>1 DEF VarOrderInv, LevelsInverse
  <2>3. QED
    BY <2>1, <2>2
<1>3. ASSUME NEW b \in {0, 1}, NEW a \in Assignments
      PROVE  Value(k, ChildOf(k, e, b), a) = Value(k, ChildOf(k, g, b), a)
  <2>1. /\ a \cup {v} \in Assignments /\ a \ {v} \in Assignments
    BY <1>1 DEF Assignments
  <2>2. \A x \in Assignments : Value(k, e, x) = Value(k, g, x)
    BY DEF Twins
  <2>3. CASE ZeroSuppressed(k)
    BY <1>1, <1>2, <2>1, <2>2, <2>3, CofactorValue
  <2>4. CASE ~ ZeroSuppressed(k)
    BY <1>1, <1>2, <2>1, <2>2, <2>4, CofactorValue
  <2>5. QED
    BY <2>3, <2>4
<1>4. ASSUME NEW b \in {0, 1}, k = "qdd"
      PROVE  Level(ChildOf(k, e, b)) = Level(ChildOf(k, g, b))
  <2>1. ASSUME NEW x, OfKind(k, S, x), x.node # 0
        PROVE  Level(ChildOf(k, x, b)) = Level(x) - 1
    <3>1. PICK c \in {nodes[x.node].lo, nodes[x.node].hi} :
            ChildOf(k, x, b) \in {c, Not(c)}
      BY DEF ChildOf
    <3>2. x.node \in S
      BY <2>1 DEF OfKind
    <3>3. Level(c) = var2level[nodes[x.node].var] - 1
      BY <1>4, <3>2 DEF Full
    <3>4. c \in Edges
      BY <3>2, <2>1, KindFacts DEF SelfContained, Within
    <3>5. QED
      BY <2>1, <3>1, <3>3, <3>4, NotFacts, KindFacts
  <2>2. QED
    BY <1>1, <2>1
<1>5. \A b \in {0, 1} : OfKind(k, S, ChildOf(k, e, b))
                       /\ OfKind(k, S, ChildOf(k, g, b))
  BY <1>1, KindFacts
<1>6. QED
  BY <1>2, <1>3, <1>4, <1>5 DEF Twins

LEMMA NotInjective ==
  ASSUME NEW e \in Edges, NEW g \in Edges, Not(e) = Not(g)
  PROVE  e = g
BY NodeTableAssumption DEF Not, Edges, Consts

\* Two edges of one variable with the same children are one: the complement
\* is seen on the lo side, and the node is the only one of its kind.
LEMMA SameChildren ==
  ASSUME VarOrderInv, StoreInv, NEW k \in Reducing, NEW S, Diagrams(k, S),
         NEW e, NEW g, OfKind(k, S, e), OfKind(k, S, g),
         e.node # 0, g.node # 0, nodes[e.node].var = nodes[g.node].var,
         ChildOf(k, e, 0) = ChildOf(k, g, 0), ChildOf(k, e, 1) = ChildOf(k, g, 1)
  PROVE  e = g
<1> DEFINE m == nodes[e.node]
           n == nodes[g.node]
<1>1. /\ e \in Edges /\ g \in Edges /\ e.node \in S /\ g.node \in S
      /\ e.comp \in {0, 1} /\ g.comp \in {0, 1}
  BY KindFacts
<1>2. /\ m.lo \in Edges /\ m.hi \in Edges /\ n.lo \in Edges /\ n.hi \in Edges
  BY <1>1, KindFacts DEF SelfContained, Within
<1>3. e.comp = g.comp /\ m.lo = n.lo /\ m.hi = n.hi
  <2>1. CASE k \in {"mtbdd", "mtzdd"}
    BY <2>1 DEF OfKind, ChildOf
  <2>2. CASE k \in {"bdd", "zdd", "qdd"}
    <3>1. m.lo.comp = 0 /\ n.lo.comp = 0
      BY <1>1, <2>2 DEF Diagrams, NormalPair
    <3>2. ChildOf(k, e, 0).comp = e.comp /\ ChildOf(k, g, 0).comp = g.comp
      BY <1>1, <1>2, <2>2, <3>1 DEF ChildOf, Not, Edges, Consts
    <3>3. e.comp = g.comp
      BY <3>2
    <3>4. m.lo = n.lo
      BY <1>1, <1>2, <2>2, <3>3, NotInjective DEF ChildOf
    <3>5. m.hi = n.hi
      BY <1>1, <1>2, <2>2, <3>3, NotInjective DEF ChildOf
    <3>6. QED
      BY <3>3, <3>4, <3>5
  <2>3. QED
    BY <2>1, <2>2 DEF Reducing, Kinds
<1>4. e.node = g.node
  BY <1>1, <1>3 DEF StoreInv, NoDuplicates, Diagrams
<1>5. QED
  BY <1>1, <1>3, <1>4 DEF Edges, Consts

\* An edge with a twin below it has twins for children, or its hi child has
\* the empty family for one.
LEMMA LowerTwin ==
  ASSUME VarOrderInv, StoreInv, NEW k \in Reducing, NEW S, Diagrams(k, S),
         NEW e, NEW g, Twins(k, S, e, g), Level(g) < Level(e)
  PROVE  /\ e.node # 0 /\ k # "qdd"
         /\ ~ ZeroSuppressed(k) =>
              \A b \in {0, 1} : Twins(k, S, ChildOf(k, e, b), g)
         /\ ZeroSuppressed(k) => Twins(k, S, ChildOf(k, e, 1), False)
<1> DEFINE v == nodes[e.node].var
<1>1. /\ OfKind(k, S, e) /\ OfKind(k, S, g) /\ k # "qdd" /\ e.node # 0
      /\ Level(g) \in Nat /\ Level(e) \in Nat
      /\ Within(ReducedNodes, g) /\ g \in Edges
  <2>1. OfKind(k, S, e) /\ OfKind(k, S, g)
    BY DEF Twins
  <2>2. Level(g) \in Nat /\ Level(e) \in Nat
    BY <2>1, KindFacts
  <2>3. Within(ReducedNodes, g)
    BY <2>1, KindFacts DEF Within
  <2>4. QED
    BY <2>1, <2>2, <2>3, KindFacts DEF Twins, Within
<1>2. /\ v \in VarsUsed /\ Level(e) = var2level[v]
      /\ \A b \in {0, 1} : OfKind(k, S, ChildOf(k, e, b))
  BY <1>1, KindFacts
<1>3. \A a \in Assignments : Value(k, e, a) = Value(k, g, a)
  BY DEF Twins
<1>4. \A a \in Assignments : a \cup {v} \in Assignments /\ a \ {v} \in Assignments
  BY <1>2 DEF Assignments
<1>5. ASSUME ~ ZeroSuppressed(k), NEW b \in {0, 1}
      PROVE  Twins(k, S, ChildOf(k, e, b), g)
  <2>1. ASSUME NEW a \in Assignments
        PROVE  Value(k, ChildOf(k, e, b), a) = Value(k, g, a)
    <3>1. Value(k, g, a \cup {v}) = Value(k, g, a \ {v})
      BY <1>1, <1>2, <1>5, UnreadVariable
    <3>2. a = a \cup {v} \/ a = a \ {v}
      OBVIOUS
    <3>3. /\ Value(k, ChildOf(k, e, 1), a) = Value(k, e, a \cup {v})
          /\ Value(k, ChildOf(k, e, 0), a) = Value(k, e, a \ {v})
      BY <1>1, <1>5, CofactorValue
    <3>4. QED
      <4> HIDE DEF v
      <4> QED
        BY <1>3, <1>4, <3>1, <3>2, <3>3
  <2>2. QED
    BY <1>1, <1>2, <2>1 DEF Twins
<1>6. ASSUME ZeroSuppressed(k)
      PROVE  Twins(k, S, ChildOf(k, e, 1), False)
  <2>1. \A x \in Edges, a \in Assignments : Value(k, x, a) = Unfolded(k, x, a)
    BY Unfolding DEF ValueUnfolds, StoreInv
  <2>2. False \in Edges /\ False.node = 0 /\ False.comp = 0
    BY NodeTableAssumption DEF False, Const, Edges, Consts
  <2>3. \A a \in Assignments : Value(k, False, a) = 0
    BY <2>1, <2>2, <1>6 DEF Unfolded
  <2>4. OfKind(k, S, False)
    <3>0. 0 \in 0..TermMax
      BY NodeTableAssumption
    <3>1. False \in ConstsOf(k)
      BY <3>0 DEF ConstsOf, False, Const
    <3>2. QED
      BY <2>2, <3>1 DEF OfKind
  <2>5. ASSUME NEW a \in Assignments
        PROVE  Value(k, ChildOf(k, e, 1), a) = 0
    <3>1. ~ NoneSkipped(g, a \cup {v})
      BY <1>1, <1>2 DEF NoneSkipped
    <3>2. Value(k, g, a \cup {v}) = 0
      BY <1>1, <1>4, <1>6, <2>1, <3>1 DEF Unfolded
    <3>3. Value(k, e, a \cup {v}) = 0
      BY <1>3, <1>4, <3>2
    <3>4. Value(k, ChildOf(k, e, 1), a) \in {0, Value(k, e, a \cup {v})}
      <4>1. v = nodes[e.node].var
        OBVIOUS
      <4> HIDE DEF v
      <4>2. CASE \A u \in a : var2level[u] < Level(e)
        BY <1>1, <1>6, <4>1, <4>2, CofactorValue
      <4>3. CASE ~ \A u \in a : var2level[u] < Level(e)
        <5>1. Value(k, ChildOf(k, e, 1), a) = 0
          BY <1>1, <1>6, <4>1, <4>3, CofactorValue
        <5>2. QED
          BY <5>1
      <4>4. QED
        BY <4>2, <4>3
    <3>5. QED
      <4> HIDE DEF v
      <4> QED
        BY <3>3, <3>4
  <2>6. QED
    BY <1>1, <1>2, <2>3, <2>4, <2>5 DEF Twins
<1>7. QED
  BY <1>1, <1>5, <1>6

-----------------------------------------------------------------------------
(***************************************************************************)
(* Canonicity of the edges of a kind.                                      *)
(***************************************************************************)
LEMMA TwinsAreEqual ==
  ASSUME VarOrderInv, StoreInv, NEW k \in Reducing, NEW S, Diagrams(k, S),
         k = "qdd" => Full(S)
  PROVE  \A e, g : Twins(k, S, e, g) => e = g
<1> DEFINE Wrong(e, g) ==
             Twins(k, S, e, g) /\ Level(g) <= Level(e) /\ e # g
           T == {l \in Nat : \E e, g : Wrong(e, g) /\ l = Level(e)}
<1>0. \A e, g : Twins(k, S, e, g) =>
        /\ Twins(k, S, g, e)
        /\ OfKind(k, S, e) /\ OfKind(k, S, g)
        /\ Level(e) \in Nat /\ Level(g) \in Nat
  BY KindFacts DEF Twins
<1> SUFFICES ASSUME T # {} PROVE FALSE
  <2> SUFFICES ASSUME NEW e, NEW g, Twins(k, S, e, g), e # g
               PROVE  Wrong(e, g) \/ Wrong(g, e)
    BY <1>0
  <2>1. QED
    BY <1>0
<1>1. PICK l \in T : \A m \in T : l <= m
  BY NatMin
<1>2. PICK e, g : Wrong(e, g) /\ l = Level(e)
  OBVIOUS
<1>3. ASSUME NEW x, NEW y, Twins(k, S, x, y), Level(x) < l, Level(y) < l
      PROVE  x = y
  <2> SUFFICES ASSUME x # y PROVE FALSE
    OBVIOUS
  <2>1. Level(x) \in Nat /\ Level(y) \in Nat /\ Twins(k, S, y, x) /\ l \in Nat
    BY <1>0, <1>3
  <2>2. Level(x) \notin T /\ Level(y) \notin T
    <3> HIDE DEF T
    <3> QED
      BY <1>1, <1>3, <2>1
  <2>3. ~ Wrong(x, y) /\ ~ Wrong(y, x)
    <3> HIDE DEF Wrong
    <3> QED
      BY <2>1, <2>2
  <2>4. QED
    BY <1>3, <2>1, <2>3
<1>4. /\ OfKind(k, S, e) /\ OfKind(k, S, g) /\ Twins(k, S, e, g) /\ e # g
      /\ Level(e) \in Nat /\ Level(g) \in Nat /\ l = Level(e)
      /\ Level(g) <= Level(e)
  BY <1>0, <1>2
<1>5. CASE Level(g) < Level(e)
  <2>1. e.node # 0 /\ k # "qdd"
    BY <1>4, <1>5, LowerTwin
  <2>2. /\ Level(ChildOf(k, e, 0)) < l /\ Level(ChildOf(k, e, 1)) < l
        /\ e.node \in S
    BY <1>4, <2>1, KindFacts
  <2>3. /\ nodes[e.node].lo \in Edges /\ nodes[e.node].hi \in Edges
        /\ NormalPair(k, nodes[e.node].lo, nodes[e.node].hi)
    <3>1. SelfContained(S)
      BY <1>4, KindFacts
    <3>2. /\ Within(S, nodes[e.node].lo)
          /\ Within(S, nodes[e.node].hi)
      BY <2>2, <3>1 DEF SelfContained
    <3>3. NormalPair(k, nodes[e.node].lo, nodes[e.node].hi)
      BY <2>2 DEF Diagrams
    <3>4. QED
      BY <3>2, <3>3 DEF Within
  <2>4. CASE ~ ZeroSuppressed(k)
    <3>1. ChildOf(k, e, 0) = ChildOf(k, e, 1)
      BY <1>3, <1>4, <1>5, <2>2, <2>4, LowerTwin
    <3>2. nodes[e.node].lo = nodes[e.node].hi
      BY <2>3, <2>4, <3>1, NotInjective DEF ChildOf, ZeroSuppressed
    <3>3. k \in {"bdd", "mtbdd"}
      BY <2>1, <2>4 DEF ZeroSuppressed, Reducing, Kinds
    <3>4. QED
      BY <2>3, <3>2, <3>3 DEF NormalPair
  <2>5. CASE ZeroSuppressed(k)
    <3>1. Level(False) = 0 /\ Level(ChildOf(k, e, 1)) \in Nat
      BY <1>4, <2>1, KindFacts DEF Level, False, Const
    <3>2. ChildOf(k, e, 1) = False
      BY <1>3, <1>4, <1>5, <2>2, <2>5, <3>1, LowerTwin
    <3>3. nodes[e.node].hi = False
      BY <2>5, <3>2 DEF ChildOf, ZeroSuppressed
    <3>4. QED
      BY <2>3, <2>5, <3>3 DEF NormalPair, ZeroSuppressed
  <2>6. QED
    BY <2>4, <2>5
<1>6. CASE Level(g) = Level(e) /\ Level(e) > 0
  <2>1. e.node # 0 /\ g.node # 0
    BY <1>4, <1>6, KindFacts
  <2>2. /\ nodes[e.node].var = nodes[g.node].var
        /\ \A b \in {0, 1} : Twins(k, S, ChildOf(k, e, b), ChildOf(k, g, b))
    BY <1>4, <1>6, <2>1, CofactorTwins
  <2>3. \A b \in {0, 1} : /\ Level(ChildOf(k, e, b)) < l
                          /\ Level(ChildOf(k, g, b)) < l
    BY <1>4, <1>6, <2>1, KindFacts
  <2>4. \A b \in {0, 1} : ChildOf(k, e, b) = ChildOf(k, g, b)
    BY <1>3, <2>2, <2>3
  <2>5. QED
    BY <1>4, <2>1, <2>2, <2>4, SameChildren
<1>7. CASE Level(g) = Level(e) /\ Level(e) = 0
  <2>1. e.node = 0 /\ g.node = 0 /\ e \in Edges /\ g \in Edges
    BY <1>4, <1>7, KindFacts DEF Within
  <2>2. {} \in Assignments /\ NoneSkipped(e, {}) /\ NoneSkipped(g, {})
    BY DEF Assignments, NoneSkipped
  <2>3. Value(k, e, {}) = Unfolded(k, e, {}) /\ Value(k, g, {}) = Unfolded(k, g, {})
    BY <2>1, <2>2, Unfolding DEF ValueUnfolds, StoreInv
  <2>4. e.comp = g.comp
    BY <1>4, <2>1, <2>2, <2>3 DEF Unfolded, Twins
  <2>5. QED
    BY <1>4, <2>1, <2>4 DEF Edges, Consts
<1>8. QED
  BY <1>4, <1>5, <1>6, <1>7
-----------------------------------------------------------------------------
(***************************************************************************)
(* How the diagrams of a kind get from one state to the next.              *)
(***************************************************************************)
SameLevels == \A v \in VarsUsed : var2level'[v] = var2level[v]

LEMMA EdgeOfKind ==
  ASSUME NEW k, NEW S, NEW e, OfKind(k, S, e)
  PROVE  /\ e \in Edges
         /\ e.node # 0 => e.node \in S
         /\ k \in {"bdd", "zdd", "qdd"} => e.comp \in {0, 1}
BY NodeTableAssumption DEF OfKind, Edges, Consts, ConstsOf, True, False, Const

LEMMA NotOfKind ==
  ASSUME NEW k \in {"bdd", "zdd", "qdd"}, NEW S, NEW e, OfKind(k, S, e)
  PROVE  OfKind(k, S, Not(e))
<1>1. CASE e.node = 0
  BY <1>1 DEF OfKind, ConstsOf, True, False, Const, Not
<1>2. CASE e.node # 0
  BY <1>2, NotFacts DEF OfKind
<1>3. QED
  BY <1>1, <1>2

LEMMA ChildOfKind ==
  ASSUME NEW k \in Reducing, NEW S, Diagrams(k, S),
         NEW e, OfKind(k, S, e), e.node # 0, NEW b
  PROVE  OfKind(k, S, ChildOf(k, e, b))
<1>1. PICK c \in {nodes[e.node].lo, nodes[e.node].hi} :
        \/ ChildOf(k, e, b) = c
        \/ k \in {"bdd", "zdd", "qdd"} /\ ChildOf(k, e, b) = Not(c)
  BY DEF ChildOf
<1>2. OfKind(k, S, c)
  BY DEF OfKind, Diagrams
<1>3. QED
  BY <1>1, <1>2, NotOfKind

\* The two edges getnode stores, for children that are not redundant.
LEMMA NormalPairMade ==
  ASSUME NEW k \in Reducing, NEW S, NEW lo, NEW hi,
         OfKind(k, S, lo), OfKind(k, S, hi), ~ Redundant(k, lo, hi)
  PROVE  /\ OfKind(k, S, NormalLo(k, lo)) /\ OfKind(k, S, NormalHi(k, lo, hi))
         /\ NormalPair(k, NormalLo(k, lo), NormalHi(k, lo, hi))
<1>1. /\ lo \in Edges /\ hi \in Edges
      /\ k \in {"bdd", "zdd", "qdd"} => lo.comp \in {0, 1}
  BY EdgeOfKind
<1>2. OfKind(k, S, NormalLo(k, lo)) /\ OfKind(k, S, NormalHi(k, lo, hi))
  BY NotOfKind DEF NormalLo, NormalHi, Flips
<1>3. k \in {"bdd", "mtbdd"} => NormalLo(k, lo) # NormalHi(k, lo, hi)
  BY <1>1, NotInjective DEF Redundant, NormalLo, NormalHi, Flips
<1>4. k \in {"zdd", "mtzdd"} => NormalHi(k, lo, hi) # False
  BY DEF Redundant, NormalHi, Flips
<1>5. k \in {"bdd", "zdd", "qdd"} => NormalLo(k, lo).comp = 0
  BY <1>1 DEF NormalLo, Flips, Not, Edges, Consts
<1>6. QED
  BY <1>2, <1>3, <1>4, <1>5 DEF NormalPair

-----------------------------------------------------------------------------
(***************************************************************************)
(* A step that keeps the nodes of A keeps the diagrams made of them.       *)
(***************************************************************************)
LEMMA DiagramsKept ==
  ASSUME VarOrderInv, StoreInv, NEW k \in Reducing, NEW S, NEW full \in BOOLEAN,
         Diagrams(k, S), full => k = "qdd" /\ Full(S) /\ SameLevels,
         NEW A, SelfContained(A), Keeps(A)
  PROVE  \E S2 :
           /\ Diagrams(k, S2)' /\ (full => k = "qdd" /\ Full(S2)')
           /\ \A e : OfKind(k, S, e) /\ Within(A, e) => OfKind(k, S2, e)
           /\ S2 = S \cap A
<1>1. PICK S2 : S2 = S \cap A
  OBVIOUS
<1>2. \A e : OfKind(k, S, e) /\ Within(A, e) => OfKind(k, S2, e)
  BY <1>1 DEF OfKind, Within
<1>3. \A n \in S2 : n \in ReducedNodes' /\ nodes'[n] = nodes[n] /\ n \in ReducedNodes
  BY <1>1 DEF Keeps, Diagrams, ReducedNodes
<1>4. \A n \in S2 : /\ OfKind(k, S2, nodes[n].lo) /\ OfKind(k, S2, nodes[n].hi)
                    /\ NormalPair(k, nodes[n].lo, nodes[n].hi)
  BY <1>1, <1>2 DEF SelfContained, Diagrams
<1>5. Diagrams(k, S2)'
  BY <1>3, <1>4 DEF Diagrams
<1>6. ASSUME full
      PROVE  Full(S2)'
  <2> SUFFICES ASSUME NEW n \in S2, NEW c \in {nodes[n].lo, nodes[n].hi}
               PROVE  LevelNext(c) = var2level'[nodes[n].var] - 1
    BY <1>3 DEF Full, Level, LevelNext
  <2>1. Level(c) = var2level[nodes[n].var] - 1
    BY <1>1, <1>6 DEF Full
  <2>2. nodes[n].var \in VarsUsed
    BY <1>3 DEF StoreInv, ChildrenSound, ReducedNodes
  <2>3. LevelNext(c) = Level(c)
    <3>1. CASE c.node = 0
      BY <3>1 DEF Level, LevelNext
    <3>2. CASE c.node # 0
      <4>1. c.node \in S2
        BY <1>4, <3>2 DEF OfKind
      <4>2. nodes'[c.node] = nodes[c.node] /\ nodes[c.node].var \in VarsUsed
        BY <1>3, <4>1 DEF StoreInv, ChildrenSound, ReducedNodes
      <4>3. QED
        BY <1>6, <3>2, <4>2 DEF Level, LevelNext, SameLevels
    <3>3. QED
      BY <3>1, <3>2
  <2>4. QED
    BY <1>6, <2>1, <2>2, <2>3 DEF SameLevels
<1>7. QED
  BY <1>1, <1>2, <1>5, <1>6

(***************************************************************************)
(* The node getnode returns a reference to, found or made, extends them.   *)
(***************************************************************************)
LEMMA NodeJoins ==
  ASSUME VarOrderInv, UNCHANGED orderVars, StoreInv, StoreInv',
         NEW k \in Reducing, NEW S, NEW full \in BOOLEAN,
         Diagrams(k, S), full => k = "qdd" /\ Full(S),
         NEW A \in SUBSET Allocated, SelfContained(A), Keeps(A),
         NEW v \in VarsUsed, NEW lo, NEW hi,
         OfKind(k, S, lo), OfKind(k, S, hi), Within(A, lo), Within(A, hi),
         Accepts(k, v, lo, hi), ~ Redundant(k, lo, hi),
         NEW n, n \in Allocated', nodes'[n].red, nodes'[n].var = v,
         nodes'[n].lo = NormalLo(k, lo), nodes'[n].hi = NormalHi(k, lo, hi)
  PROVE  \E S2 :
           /\ Diagrams(k, S2)' /\ (full => k = "qdd" /\ Full(S2)')
           /\ OfKind(k, S2, Ref(k, lo, n))
           /\ \A e : OfKind(k, S, e) /\ Within(A, e) => OfKind(k, S2, e)
<1>1. SameLevels
  BY DEF SameLevels, orderVars
<1>2. PICK S1 :
        /\ Diagrams(k, S1)' /\ (full => k = "qdd" /\ Full(S1)')
        /\ \A e : OfKind(k, S, e) /\ Within(A, e) => OfKind(k, S1, e)
  BY <1>1, DiagramsKept
<1>3. PICK S2 : S2 = S1 \cup {n}
  OBVIOUS
<1>4. \A e : OfKind(k, S1, e) => OfKind(k, S2, e)
  BY <1>3 DEF OfKind
<1>5. n \in Slots /\ n # 0
  BY NodeTableAssumption DEF StoreInv, NodeTableTypeOK, Allocated, Slots
<1>6. OfKind(k, S2, Ref(k, lo, n))
  BY <1>3, <1>5 DEF OfKind, Ref, Edges, Flips
<1>7. /\ OfKind(k, S2, NormalLo(k, lo)) /\ OfKind(k, S2, NormalHi(k, lo, hi))
      /\ NormalPair(k, NormalLo(k, lo), NormalHi(k, lo, hi))
  BY <1>2, <1>4, NormalPairMade
<1>8. Diagrams(k, S2)'
  BY <1>2, <1>3, <1>4, <1>7 DEF Diagrams, ReducedNodes
<1>9. ASSUME full
      PROVE  Full(S2)'
  <2> SUFFICES ASSUME NEW c \in {NormalLo(k, lo), NormalHi(k, lo, hi)}
               PROVE  LevelNext(c) = var2level'[v] - 1
    <3>1. Full(S1)' /\ S2 = S1 \cup {n}
      BY <1>2, <1>3, <1>9
    <3>2. \A m \in S1 : \A c \in {nodes'[m].lo, nodes'[m].hi} :
            LevelNext(c) = var2level'[nodes'[m].var] - 1
      BY <3>1 DEF Full, Level, LevelNext
    <3>3. Full(S2)' <=>
            \A m \in S2 : \A c \in {nodes'[m].lo, nodes'[m].hi} :
              LevelNext(c) = var2level'[nodes'[m].var] - 1
      BY DEF Full, Level, LevelNext
    <3>4. QED
      BY <3>1, <3>2, <3>3
  <2>1. lo \in Edges /\ hi \in Edges
    BY EdgeOfKind
  <2>2. Level(c) = var2level[v] - 1
    BY <1>9, <2>1, NormalFacts DEF Accepts
  <2>3. Within(A, c)
    BY <2>1, NormalFacts DEF Within
  <2>4. QED
    BY <2>2, <2>3, KeptEdge DEF orderVars
<1>10. QED
  BY <1>2, <1>4, <1>6, <1>8, <1>9

\* The edges of diagrams of a reducing kind are good ones.
LEMMA KindGood ==
  ASSUME NEW k \in Reducing, NEW S, Diagrams(k, S), NEW e, OfKind(k, S, e)
  PROVE  /\ Within(S, e) /\ Within(ReducedNodes, e) /\ Within(Allocated, e)
         /\ Sound(e) /\ IsReduced(e)
<1>1. e \in Edges /\ (e.node # 0 => e.node \in S)
  BY EdgeOfKind
<1>2. S \subseteq ReducedNodes /\ ReducedNodes \subseteq Allocated
  BY DEF Diagrams, ReducedNodes
<1>3. e # Null
  BY NodeTableAssumption DEF OfKind, ConstsOf, True, False, Null, Const
<1>4. e.node # 0 => nodes[e.node].red
  BY <1>1, <1>2 DEF ReducedNodes
<1>5. QED
  BY <1>1, <1>2, <1>3, <1>4 DEF Within, Sound, IsReduced

LEMMA MakeJoins ==
  ASSUME VarOrderInv, StoreInv, UNCHANGED orderVars,
         NEW k \in Reducing, NEW S, NEW full \in BOOLEAN,
         Diagrams(k, S), full => k = "qdd" /\ Full(S),
         NEW v \in VarsUsed, NEW lo, NEW hi,
         OfKind(k, S, lo), OfKind(k, S, hi), Accepts(k, v, lo, hi),
         NEW r, Make(k, v, lo, hi, r)
  PROVE  \E S2 :
           /\ Diagrams(k, S2)' /\ (full => k = "qdd" /\ Full(S2)')
           /\ OfKind(k, S2, r)
           /\ \A e : OfKind(k, S, e) => OfKind(k, S2, e)
<1>1. /\ k \in Kinds /\ k # "unreduced"
      /\ VarOrderInv /\ VarOrderTypeOK /\ StoreInv
  BY DEF Reducing, VarOrderInv
<1>2. /\ Sound(lo) /\ Sound(hi) /\ IsReduced(lo) /\ IsReduced(hi)
      /\ Within(Allocated, lo) /\ Within(Allocated, hi)
      /\ \A e : OfKind(k, S, e) => Within(Allocated, e)
  BY KindGood
<1>3. StoreInv' /\ Keeps(Allocated) /\ SoundNext(r) /\ ReducedNext(r)
  BY <1>1, <1>2, MakeKeeps
<1>4. SelfContained(Allocated) /\ Allocated \in SUBSET Allocated
  BY <1>1, AllSelfContained DEF StoreInv
<1>5. CASE MakeRedundant(k, lo, hi, r)
  <2>1. r = lo
    BY <1>5 DEF MakeRedundant
  <2>2. SameLevels
    BY DEF SameLevels, orderVars
  <2>3. PICK A : A = Allocated
    OBVIOUS
  <2>4. QED
    BY <1>1, <1>2, <1>3, <1>4, <2>1, <2>2, <2>3, DiagramsKept
<1>6. ASSUME NEW n \in Slots, r = Ref(k, lo, n), ~ Redundant(k, lo, hi),
             nodes'[n].var = v, nodes'[n].lo = NormalLo(k, lo),
             nodes'[n].hi = NormalHi(k, lo, hi)
      PROVE  \E S2 :
           /\ Diagrams(k, S2)' /\ (full => k = "qdd" /\ Full(S2)')
           /\ OfKind(k, S2, r)
           /\ \A e : OfKind(k, S, e) => OfKind(k, S2, e)
  <2>1. n # 0 /\ r.node = n
    BY <1>6 DEF Slots, Ref
  <2>2. n \in Allocated' /\ nodes'[n].red
    BY <1>3, <2>1 DEF SoundNext, ReducedNext
  <2>3. PICK A : A = Allocated
    OBVIOUS
  <2>4. /\ A \in SUBSET Allocated /\ SelfContained(A) /\ Keeps(A)
        /\ Within(A, lo) /\ Within(A, hi)
        /\ \A e : OfKind(k, S, e) => Within(A, e)
    BY <1>2, <1>3, <1>4, <2>3
  <2>5. QED
    BY <1>1, <1>3, <1>6, <2>2, <2>4, NodeJoins
<1>7. CASE MakeFound(k, v, lo, hi, r)
  <2>1. PICK n \in Existing(k, v, lo, hi) : r = Ref(k, lo, n)
    BY <1>7 DEF MakeFound
  <2>2. /\ n \in table /\ nodes[n].var = v /\ nodes[n].lo = NormalLo(k, lo)
        /\ nodes[n].hi = NormalHi(k, lo, hi)
    BY <1>1, <2>1 DEF Existing, Lookup
  <2>3. n \in Slots
    BY <1>1, <2>2, NodeTableAssumption
       DEF StoreInv, NodeTableTypeOK, Allocated, Slots
  <2>4. nodes' = nodes /\ ~ Redundant(k, lo, hi)
    BY <1>7 DEF MakeFound, tableVars
  <2>5. QED
    BY <1>6, <2>1, <2>2, <2>3, <2>4
<1>8. CASE MakeNew(k, v, lo, hi, r)
  <2>1. PICK n \in Slots :
          /\ nodes' = [nodes EXCEPT ![n] = NewRec(k, v, lo, hi)]
          /\ r = Ref(k, lo, n)
    BY <1>8 DEF MakeNew
  <2>2. nodes'[n] = NewRec(k, v, lo, hi)
    BY <1>1, <2>1 DEF StoreInv, NodeTableTypeOK
  <2>3. ~ Redundant(k, lo, hi)
    BY <1>8 DEF MakeNew
  <2>4. QED
    BY <1>6, <2>1, <2>2, <2>3 DEF NewRec
<1>9. QED
  BY <1>5, <1>7, <1>8 DEF Make
=============================================================================
