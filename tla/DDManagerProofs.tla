-------------------------- MODULE DDManagerProofs ---------------------------
(***************************************************************************)
(* No step of the package loses or damages a node somebody still uses, and *)
(* what the objects mean: proofs about DDManager.                          *)
(***************************************************************************)
EXTENDS DDManager, NodeTableProofs

(***************************************************************************)
(* No step of the package loses or damages a node somebody still uses.     *)
(*                                                                         *)
(* The inductive invariant says that the variable order is consistent,     *)
(* that the node table is (StoreInv), and that everyone who holds an edge, *)
(* object, local variable or cache entry, holds a good one: to a constant  *)
(* or a slot that holds a node, reduced unless the holder's kind is        *)
(* "unreduced".                                                            *)
(***************************************************************************)
Good(k, e) == Sound(e) /\ ReducedKind(k, e)

GoodNext(k, e) ==
  SoundNext(e) /\ (k # "unreduced" /\ e # Null => ReducedNext(e))

\* The types of the holders; and no local variable outside an operation,
\* which is when the collector may run.
HolderTypeOK ==
  /\ root \in [Handles -> Edges]
  /\ cache \subseteq CacheRecs
  /\ attempt \in 0..2
  /\ gcDepth \in 0..DepthMax
  /\ gcDepth = 0 <=> Idle
  /\ args \subseteq Handles
  /\ temps \subseteq Kinds \X Edges
  /\ Idle => temps = {}

HoldersGood ==
  /\ \A h \in Handles : Good(KindOf[h], root[h])
  /\ \A t \in temps : Good(t[1], t[2])
  /\ \A c \in cache : Good(c.kind, c.f) /\ Good(c.kind, c.result)

HoldersGoodNext ==
  /\ \A h \in Handles : GoodNext(KindOf[h], root'[h])
  /\ \A t \in temps' : GoodNext(t[1], t[2])
  /\ \A c \in cache' : GoodNext(c.kind, c.f) /\ GoodNext(c.kind, c.result)

IInv == VarOrderInv /\ StoreInv /\ HolderTypeOK /\ HoldersGood

\* What every step is shown to do.
Safe == IInv' /\ LiveNodesStep

-----------------------------------------------------------------------------
LEMMA NextIInv ==
  ASSUME VarOrderInv', StoreInv', HolderTypeOK', HoldersGoodNext
  PROVE  IInv'
BY DEF IInv, HoldersGood, HoldersGoodNext, Good, GoodNext, Sound, SoundNext,
       ReducedKind, IsReduced, ReducedNext

\* Good edges into what a step keeps stay good.
LEMMA GoodKept ==
  ASSUME NEW A, Keeps(A), NEW k, NEW e, Within(A, e), Good(k, e)
  PROVE  GoodNext(k, e)
BY DEF Keeps, Within, Good, GoodNext, Sound, SoundNext, ReducedKind,
       IsReduced, ReducedNext

LEMMA GoodKeptAll ==
  ASSUME Keeps(Allocated)
  PROVE  \A k, e : Good(k, e) => GoodNext(k, e)
BY GoodKept DEF Good, Sound, Within

\* The marked nodes: among those allocated, closed, and under every object.
LEMMA LiveFacts ==
  ASSUME IInv
  PROVE  /\ Live \in SUBSET Allocated
         /\ SelfContained(Live)
         /\ \A h \in Handles : Within(Live, root[h])
<1> DEFINE R == {root[h].node : h \in Handles}
<1>1. \A h \in Handles : Sound(root[h])
  BY DEF IInv, HoldersGood, Good
<1>2. \A n \in 1..used : n # 0
  BY DEF IInv, StoreInv, NodeTableTypeOK
<1>3. R \cap (1..used) \subseteq Allocated
  BY <1>1, <1>2 DEF Sound
<1>4. /\ Live \in SUBSET Allocated
      /\ R \cap (1..used) \subseteq Live
      /\ SelfContained(Live)
  BY <1>3, ReachFacts DEF Live, IInv, StoreInv
<1>5. \A h \in Handles : Within(Live, root[h])
  <2> SUFFICES ASSUME NEW h \in Handles
               PROVE  Within(Live, root[h])
    OBVIOUS
  <2>1. root[h].node # 0 => root[h].node \in R \cap (1..used)
    BY <1>1 DEF Sound, Allocated
  <2>2. QED
    BY <1>1, <1>4, <2>1 DEF Sound, Within
<1>6. QED
  BY <1>4, <1>5

LEMMA LiveKept ==
  ASSUME IInv, Keeps(Live) \/ Keeps(Allocated)
  PROVE  LiveNodesStep
BY LiveFacts DEF Keeps, LiveNodesStep

(***************************************************************************)
(* Steps that keep every node: the holders need only be shown to get good  *)
(* edges.                                                                  *)
(***************************************************************************)
LEMMA SafeStep ==
  ASSUME IInv, VarOrderInv', StoreInv', Keeps(Allocated) \/ Keeps(Live),
         HolderTypeOK', HoldersGoodNext
  PROVE  Safe
BY NextIInv, LiveKept DEF Safe

\* Steps that leave the order and the table alone.
LEMMA SameTable ==
  ASSUME IInv, UNCHANGED <<orderVars, tableVars>>
  PROVE  /\ VarOrderInv' /\ StoreInv' /\ Keeps(Allocated)
         /\ \A k, e : Good(k, e) => GoodNext(k, e)
<1>1. VarOrderInv'
  BY DEF IInv, VarOrderInv, VarOrderTypeOK, LevelsInverse, VarsUsed, orderVars
<1>2. StoreInv' /\ Keeps(Allocated)
  BY TableUnchanged DEF IInv
<1>3. QED
  BY <1>1, <1>2, GoodKeptAll

LEMMA SameOrder ==
  ASSUME IInv, UNCHANGED orderVars
  PROVE  VarOrderInv' /\ VarOrderTypeOK
BY DEF IInv, VarOrderInv, VarOrderTypeOK, LevelsInverse, VarsUsed, orderVars

\* A collection keeps every object's diagram and forgets the cache.
LEMMA CollectFacts ==
  ASSUME IInv, UNCHANGED orderVars, Collect
  PROVE  /\ VarOrderInv' /\ StoreInv' /\ Keeps(Live) /\ cache' = {}
         /\ \A h \in Handles : GoodNext(KindOf[h], root[h])
<1>1. StoreInv' /\ Keeps(Live)
  BY LiveFacts, SweepKeeps DEF IInv, Collect
<1>2. \A h \in Handles : GoodNext(KindOf[h], root[h])
  BY <1>1, LiveFacts, GoodKept DEF IInv, HoldersGood
<1>3. QED
  BY <1>1, <1>2, SameOrder DEF Collect

\* The same if the collection may be skipped.
LEMMA MaybeCollect ==
  ASSUME IInv, UNCHANGED orderVars,
         Collect \/ UNCHANGED <<tableVars, cache>>
  PROVE  /\ VarOrderInv' /\ StoreInv' /\ (Keeps(Live) \/ Keeps(Allocated))
         /\ \A h \in Handles : GoodNext(KindOf[h], root[h])
         /\ cache' \subseteq CacheRecs
         /\ \A c \in cache' : GoodNext(c.kind, c.f) /\ GoodNext(c.kind, c.result)
<1>1. CASE Collect
  BY <1>1, CollectFacts
<1>2. CASE UNCHANGED <<tableVars, cache>>
  BY <1>2, SameTable DEF IInv, HoldersGood, HolderTypeOK
<1>3. QED
  BY <1>1, <1>2

\* Constants are good for the diagrams that may end in them.
LEMMA ConstGood ==
  ASSUME NEW k, NEW e \in ConstsOf(k) \cup {Null}
  PROVE  Good(k, e) /\ GoodNext(k, e) /\ e \in Edges
<1>1. e \in Edges /\ e.node = 0
  BY NodeTableAssumption
     DEF ConstsOf, Edges, Consts, True, False, Null, Const
<1>2. QED
  BY <1>1 DEF Good, GoodNext, Sound, SoundNext, ReducedKind, IsReduced,
              ReducedNext

\* Complementing keeps an edge good.
LEMMA NotGood ==
  ASSUME NEW k, NEW e, Good(k, e)
  PROVE  Good(k, Not(e)) /\ Not(e) \in Edges
<1>1. e \in Edges
  BY DEF Good, Sound
<1>2. Not(e) = Null => e = Null
  BY <1>1, NodeTableAssumption DEF Not, Edges, Consts, Null, Const
<1>3. e = Null => Not(e) = Null
  BY DEF Not, Null, Const
<1>4. QED
  BY <1>1, <1>2, <1>3, NotFacts DEF Good, Sound, ReducedKind

\* The children of a node are good for whoever holds the node.
LEMMA ChildGood ==
  ASSUME IInv, NEW k, NEW e, Good(k, e), e.node # 0, NEW b \in {0, 1}
  PROVE  Good(k, ChildOf(k, e, b)) /\ ChildOf(k, e, b) \in Edges
<1> DEFINE child == IF b = 0 THEN nodes[e.node].lo ELSE nodes[e.node].hi
<1>1. e.node \in Allocated
  BY DEF Good, Sound
<1>2. Sound(child)
  BY <1>1 DEF IInv, StoreInv, ChildrenSound
<1>3. k # "unreduced" => IsReduced(child)
  <2> SUFFICES ASSUME k # "unreduced" PROVE IsReduced(child)
    OBVIOUS
  <2>1. nodes[e.node].red
    BY DEF Good, ReducedKind, IsReduced, Null, Const
  <2>2. e.node \in ReducedNodes
    BY <1>1, <2>1 DEF ReducedNodes
  <2>3. QED
    BY <2>2 DEF IInv, StoreInv, Ordered
<1>4. Good(k, child) /\ child \in Edges
  BY <1>2, <1>3 DEF Good, ReducedKind, Sound
<1>5. QED
  BY <1>4, NotGood DEF ChildOf

-----------------------------------------------------------------------------
\* An object is given a good edge; nothing else changes.
LEMMA SetRootSafe ==
  ASSUME IInv, NEW h \in Handles, NEW e, Good(KindOf[h], e), SetRoot(h, e)
  PROVE  Safe
<1>1. /\ UNCHANGED <<orderVars, tableVars, cache, opVars>>
      /\ root' = [root EXCEPT ![h] = e]
  BY DEF SetRoot
<1>2. UNCHANGED <<attempt, gcDepth, args, temps>>
  BY <1>1 DEF opVars
<1>3. /\ VarOrderInv' /\ StoreInv' /\ Keeps(Allocated)
      /\ \A k, x : Good(k, x) => GoodNext(k, x)
  BY <1>1, SameTable
<1>4. e \in Edges
  BY DEF Good, Sound
<1>5. HolderTypeOK'
  BY <1>1, <1>2, <1>4 DEF IInv, HolderTypeOK, Idle
<1>6. \A g \in Handles : Good(KindOf[g], root'[g])
  BY <1>1 DEF IInv, HolderTypeOK, HoldersGood
<1>7. HoldersGoodNext
  BY <1>1, <1>2, <1>3, <1>6 DEF IInv, HoldersGood, HoldersGoodNext
<1>8. QED
  BY <1>3, <1>5, <1>7, SafeStep

LEMMA MoveSafe ==
  ASSUME IInv, NEW h \in Handles, NEW g \in Handles, Move(h, g)
  PROVE  Safe
<1>1. /\ UNCHANGED <<orderVars, tableVars, cache, opVars>>
      /\ root' = [[root EXCEPT ![h] = root[g]] EXCEPT ![g] = Null]
      /\ KindOf[h] = KindOf[g]
  BY DEF Move
<1>2. UNCHANGED <<attempt, gcDepth, args, temps>>
  BY <1>1 DEF opVars
<1>3. /\ VarOrderInv' /\ StoreInv' /\ Keeps(Allocated)
      /\ \A k, x : Good(k, x) => GoodNext(k, x)
  BY <1>1, SameTable
<1>4. Good(KindOf[g], Null) /\ Null \in Edges
  BY ConstGood
<1>5. HolderTypeOK'
  BY <1>1, <1>2, <1>4 DEF IInv, HolderTypeOK, Idle
<1>6. \A x \in Handles : Good(KindOf[x], root'[x])
  BY <1>1, <1>4 DEF IInv, HolderTypeOK, HoldersGood
<1>7. HoldersGoodNext
  BY <1>1, <1>2, <1>3, <1>6 DEF IInv, HoldersGood, HoldersGoodNext
<1>8. QED
  BY <1>3, <1>5, <1>7, SafeStep

(***************************************************************************)
(* set_child0 and set_child1: the only step that changes a node in use,    *)
(* and that node is not reduced.                                           *)
(***************************************************************************)
LEMMA SetChildSafe ==
  ASSUME IInv, NEW h \in Handles, NEW g \in Handles, NEW b \in {0, 1},
         SetChild(h, g, b)
  PROVE  Safe
<1> DEFINE n == root[h].node
           rec == IF b = 0 THEN [nodes[n] EXCEPT !.lo = root[g]]
                  ELSE [nodes[n] EXCEPT !.hi = root[g]]
<1>1. /\ UNCHANGED <<orderVars, root, cache, opVars>>
      /\ n # 0 /\ ~ nodes[n].red /\ Overwrite(n, rec)
  BY DEF SetChild
<1>2. UNCHANGED <<attempt, gcDepth, args, temps>>
  BY <1>1 DEF opVars
<1>3. Sound(root[h]) /\ Sound(root[g])
  BY DEF IInv, HoldersGood, Good
<1>4. n \in Allocated /\ root[g] \in Edges
  BY <1>1, <1>3 DEF Sound
<1>5. nodes[n] \in NodeRecs /\ Sound(nodes[n].lo) /\ Sound(nodes[n].hi)
  BY <1>4, NodeTableAssumption
     DEF IInv, StoreInv, ChildrenSound, NodeTableTypeOK, Allocated, Slots
<1>6. /\ rec \in NodeRecs /\ rec.var = nodes[n].var /\ rec.red = nodes[n].red
      /\ Sound(rec.lo) /\ Sound(rec.hi)
  BY <1>3, <1>4, <1>5 DEF NodeRecs
<1>7. /\ StoreInv'
      /\ \A e : Sound(e) => SoundNext(e) /\ ReducedNext(e) = IsReduced(e)
  <2> HIDE DEF n, rec
  <2>1. UNCHANGED orderVars /\ StoreInv /\ ~ rec.red
    BY <1>1, <1>6 DEF IInv
  <2>2. QED
    BY <1>1, <1>4, <1>6, <2>1, OverwriteKeeps
<1>8. VarOrderInv'
  BY <1>1, SameOrder
<1>9. HolderTypeOK'
  BY <1>1, <1>2 DEF IInv, HolderTypeOK, Idle
<1>10. \A k, e : Good(k, e) => GoodNext(k, e)
  BY <1>7 DEF Good, GoodNext, ReducedKind
<1>11. HoldersGoodNext
  BY <1>1, <1>2, <1>10 DEF IInv, HoldersGood, HoldersGoodNext
<1>12. LiveNodesStep
  <2> SUFFICES ASSUME NEW m \in Live, nodes[m].red
               PROVE  nodes'[m] = nodes[m]
    BY DEF LiveNodesStep
  <2>1. m # n
    BY <1>1
  <2>2. nodes' = [nodes EXCEPT ![n] = rec]
    BY <1>1 DEF Overwrite
  <2>3. m \in Slots /\ nodes \in [Slots -> NodeRecs]
    BY LiveFacts, NodeTableAssumption
       DEF IInv, StoreInv, NodeTableTypeOK, Allocated, Slots
  <2>4. QED
    BY <2>1, <2>2, <2>3
<1>13. QED
  BY <1>7, <1>8, <1>9, <1>11, <1>12, NextIInv DEF Safe

LEMMA ObjectStepSafe ==
  ASSUME IInv, ObjectStep
  PROVE  Safe
<1>1. PICK h \in Handles, g \in Handles :
        \/ \E e \in Consts : Construct(h, e)
        \/ Copy(h, g)
        \/ Move(h, g)
        \/ Destroy(h)
        \/ Negate(h, g)
        \/ \E b \in {0, 1} : TakeChild(h, g, b) \/ SetChild(h, g, b)
  BY DEF ObjectStep
<1>2. Good(KindOf[h], root[h]) /\ Good(KindOf[g], root[g])
  BY DEF IInv, HoldersGood
<1>3. ASSUME NEW e \in Consts, Construct(h, e)
      PROVE  Safe
  BY <1>3, ConstGood, SetRootSafe DEF Construct
<1>4. CASE Copy(h, g)
  BY <1>2, <1>4, SetRootSafe DEF Copy
<1>5. CASE Move(h, g)
  BY <1>5, MoveSafe
<1>6. CASE Destroy(h)
  BY <1>6, ConstGood, SetRootSafe DEF Destroy
<1>7. CASE Negate(h, g)
  BY <1>2, <1>7, NotGood, SetRootSafe DEF Negate
<1>8. ASSUME NEW b \in {0, 1}, TakeChild(h, g, b)
      PROVE  Safe
  BY <1>2, <1>8, ChildGood, SetRootSafe DEF TakeChild
<1>9. ASSUME NEW b \in {0, 1}, SetChild(h, g, b)
      PROVE  Safe
  BY <1>9, SetChildSafe
<1>10. QED
  BY <1>1, <1>3, <1>4, <1>5, <1>6, <1>7, <1>8, <1>9

-----------------------------------------------------------------------------
\* An explicit collection.
LEMMA GcSafe ==
  ASSUME IInv, Gc
  PROVE  Safe
<1>1. Idle /\ Collect /\ UNCHANGED <<orderVars, root, attempt, gcDepth, args, temps>>
  BY DEF Gc, opVars
<1>2. /\ VarOrderInv' /\ StoreInv' /\ Keeps(Live) /\ cache' = {}
      /\ \A h \in Handles : GoodNext(KindOf[h], root[h])
  BY <1>1, CollectFacts
<1>3. HolderTypeOK'
  BY <1>1, <1>2 DEF IInv, HolderTypeOK, Idle
<1>4. temps' = {}
  BY <1>1 DEF IInv, HolderTypeOK
<1>5. HoldersGoodNext
  BY <1>1, <1>2, <1>4 DEF HoldersGoodNext
<1>6. QED
  BY <1>2, <1>3, <1>5, SafeStep

-----------------------------------------------------------------------------
(***************************************************************************)
(* getnode called by the program: the operands are roots of objects, so a  *)
(* collection inside allocate_node cannot take them away.                  *)
(***************************************************************************)
LEMMA GetNodeSafe ==
  ASSUME IInv, NEW h \in Handles, NEW v \in VarsUsed, NEW lo, NEW hi,
         GetNode(h, v, lo, hi),
         Good(KindOf[h], lo), Good(KindOf[h], hi),
         Within(Live, lo), Within(Live, hi)
  PROVE  Safe
<1> DEFINE k == KindOf[h]
<1>1. PICK r : /\ root' = [root EXCEPT ![h] = r]
               /\ \/ Make(k, v, lo, hi, r) /\ UNCHANGED cache
                  \/ MakeAfterSweep(Live, k, v, lo, hi, r) /\ cache' = {}
  BY DEF GetNode
<1>2. /\ Idle /\ k # "unreduced" /\ Accepts(k, v, lo, hi) /\ k \in Kinds
      /\ UNCHANGED <<orderVars, opVars>>
  BY DDManagerAssumption DEF GetNode
<1>3. UNCHANGED <<attempt, gcDepth, args, temps>> /\ temps = {}
  BY <1>2 DEF opVars, IInv, HolderTypeOK
<1>4. IsReduced(lo) /\ IsReduced(hi) /\ Sound(lo) /\ Sound(hi)
  BY <1>2 DEF Good, ReducedKind, Accepts
<1>5. VarOrderTypeOK /\ VarOrderInv' /\ StoreInv
  BY <1>2, SameOrder DEF IInv
<1>6. root \in [Handles -> Edges]
  BY DEF IInv, HolderTypeOK
<1>7. ASSUME SoundNext(r), ReducedNext(r), StoreInv',
             Keeps(Allocated) \/ Keeps(Live),
             \A g \in Handles : GoodNext(KindOf[g], root[g]),
             cache' \subseteq CacheRecs,
             \A c \in cache' : /\ GoodNext(c.kind, c.f)
                               /\ GoodNext(c.kind, c.result)
      PROVE  Safe
  <2>1. HolderTypeOK'
    BY <1>1, <1>2, <1>3, <1>6, <1>7 DEF IInv, HolderTypeOK, Idle, SoundNext
  <2>2. \A g \in Handles : GoodNext(KindOf[g], root'[g])
    BY <1>1, <1>6, <1>7 DEF GoodNext
  <2>3. HoldersGoodNext
    BY <1>3, <1>7, <2>2 DEF HoldersGoodNext
  <2>4. QED
    BY <1>5, <1>7, <2>1, <2>3, SafeStep
<1>8. CASE Make(k, v, lo, hi, r) /\ UNCHANGED cache
  <2>1. /\ StoreInv' /\ Keeps(Allocated)
        /\ SoundNext(r) /\ ReducedNext(r)
    BY <1>2, <1>4, <1>5, <1>8, MakeKeeps
  <2>2. \A g \in Handles : GoodNext(KindOf[g], root[g])
    BY <2>1, GoodKeptAll DEF IInv, HoldersGood
  <2>3. \A c \in cache' : GoodNext(c.kind, c.f) /\ GoodNext(c.kind, c.result)
    BY <1>8, <2>1, GoodKeptAll DEF IInv, HoldersGood
  <2>4. cache' \subseteq CacheRecs
    BY <1>8 DEF IInv, HolderTypeOK
  <2>5. QED
    BY <1>7, <2>1, <2>2, <2>3, <2>4
<1>9. CASE MakeAfterSweep(Live, k, v, lo, hi, r) /\ cache' = {}
  <2>1. Live \in SUBSET Allocated /\ SelfContained(Live)
        /\ \A g \in Handles : Within(Live, root[g])
    BY LiveFacts
  <2>2. StoreInv' /\ Keeps(Live) /\ SoundNext(r) /\ ReducedNext(r)
    BY <1>2, <1>4, <1>5, <1>9, <2>1, MakeAfterSweepKeeps
  <2>3. \A g \in Handles : GoodNext(KindOf[g], root[g])
    BY <2>1, <2>2, GoodKept DEF IInv, HoldersGood
  <2>4. QED
    BY <1>7, <1>9, <2>2, <2>3
<1>10. QED
  BY <1>1, <1>8, <1>9

LEMMA GetNodeFailsSafe ==
  ASSUME IInv, NEW h \in Handles, NEW v, NEW g1, NEW g2,
         GetNodeFails(h, v, g1, g2)
  PROVE  Safe
<1>1. /\ UNCHANGED <<orderVars, root, cache, attempt, gcDepth, args, temps>>
      /\ MakeRolledBack(KindOf[h], v, root[g1], root[g2])
  BY DEF GetNodeFails, opVars
<1>2. VarOrderInv' /\ StoreInv' /\ Keeps(Allocated)
  BY <1>1, SameOrder, RolledBackKeeps DEF IInv
<1>3. HolderTypeOK'
  BY <1>1 DEF IInv, HolderTypeOK, Idle
<1>4. HoldersGoodNext
  BY <1>1, <1>2, GoodKeptAll DEF IInv, HoldersGood, HoldersGoodNext
<1>5. QED
  BY <1>2, <1>3, <1>4, SafeStep

LEMMA NodeStepSafe ==
  ASSUME IInv, NodeStep
  PROVE  Safe
<1>1. PICK h \in Handles, v \in VarsUsed :
        \/ MakeVariable(h, v)
        \/ \E g1, g2 \in Handles :
             GetNodeOf(h, v, g1, g2) \/ GetNodeFails(h, v, g1, g2)
  BY DEF NodeStep
<1>2. CASE MakeVariable(h, v)
  <2>1. /\ False \in ConstsOf(KindOf[h]) /\ True \in ConstsOf(KindOf[h])
        /\ False.node = 0 /\ True.node = 0
    BY <1>2 DEF MakeVariable, ConstsOf, False, True, Const
  <2>2. Within(Live, False) /\ Within(Live, True)
    BY <2>1, ConstGood DEF Within
  <2>3. QED
    BY <1>2, <2>1, <2>2, ConstGood, GetNodeSafe DEF MakeVariable
<1>3. ASSUME NEW g1 \in Handles, NEW g2 \in Handles, GetNodeOf(h, v, g1, g2)
      PROVE  Safe
  <2>1. Good(KindOf[h], root[g1]) /\ Good(KindOf[h], root[g2])
    BY <1>3 DEF GetNodeOf, IInv, HoldersGood
  <2>2. QED
    BY <1>3, <2>1, LiveFacts, GetNodeSafe DEF GetNodeOf
<1>4. ASSUME NEW g1 \in Handles, NEW g2 \in Handles,
             GetNodeFails(h, v, g1, g2)
      PROVE  Safe
  BY <1>4, GetNodeFailsSafe
<1>5. QED
  BY <1>1, <1>2, <1>3, <1>4

-----------------------------------------------------------------------------
\* What an operation may use is good.
LEMMA HeldGood ==
  ASSUME IInv, NEW k
  PROVE  /\ \A e \in Held(k) : Good(k, e) /\ e \in Edges
         /\ \A e \in HeldOnly(k) : Good(k, e) /\ e \in Edges
<1>1. \A e \in HeldOnly(k) : Good(k, e) /\ e \in Edges
  BY DEF HeldOnly, IInv, HoldersGood, Good, Sound
<1>2. \A e \in ConstsOf(k) : Good(k, e) /\ e \in Edges
  BY ConstGood
<1>3. QED
  BY <1>1, <1>2 DEF Held

\* The operands of an operation, held as long as it runs.
LEMMA ArgTempsGood ==
  ASSUME IInv, NEW S \in SUBSET Handles,
         \A h \in Handles : GoodNext(KindOf[h], root[h])
  PROVE  /\ ArgTemps(S) \subseteq Kinds \X Edges
         /\ \A t \in ArgTemps(S) : GoodNext(t[1], t[2])
BY DDManagerAssumption DEF ArgTemps, IInv, HolderTypeOK

(***************************************************************************)
(* A step inside an operation that keeps the order, the objects and every  *)
(* node: its local variables and the cache may gain good edges.            *)
(***************************************************************************)
LEMMA InsideOp ==
  ASSUME IInv, ~ Idle, UNCHANGED <<orderVars, root, attempt, gcDepth, args>>,
         StoreInv', Keeps(Allocated),
         temps' \subseteq Kinds \X Edges, cache' \subseteq CacheRecs,
         \A t \in temps' : t \in temps \/ GoodNext(t[1], t[2]),
         \A c \in cache' : \/ c \in cache
                           \/ GoodNext(c.kind, c.f) /\ GoodNext(c.kind, c.result)
  PROVE  Safe
<1>1. VarOrderInv'
  BY SameOrder
<1>2. HolderTypeOK'
  BY DEF IInv, HolderTypeOK, Idle
<1>3. HoldersGoodNext
  BY GoodKeptAll DEF IInv, HoldersGood, HoldersGoodNext
<1>4. QED
  BY <1>1, <1>2, <1>3, SafeStep

\* The operation ends: its local variables are gone.
LEMMA EndsOp ==
  ASSUME IInv, UNCHANGED <<orderVars, cache>>, StoreInv', Keeps(Allocated),
         EndedOp, root' \in [Handles -> Edges],
         \A h \in Handles : root'[h] = root[h] \/ GoodNext(KindOf[h], root'[h])
  PROVE  Safe
<1>1. VarOrderInv'
  BY SameOrder
<1>2. HolderTypeOK'
  BY DDManagerAssumption DEF IInv, HolderTypeOK, Idle, EndedOp
<1>3. HoldersGoodNext
  BY GoodKeptAll DEF IInv, HoldersGood, HoldersGoodNext, EndedOp
<1>4. QED
  BY <1>1, <1>2, <1>3, SafeStep

\* An operation begins, or begins again after a collection.
LEMMA StartsOp ==
  ASSUME IInv, UNCHANGED <<orderVars, root>>,
         Collect \/ UNCHANGED <<tableVars, cache>>,
         attempt' \in {1, 2}, gcDepth' = 1, DepthMax > 0,
         args' \subseteq Handles,
         temps' = ArgTemps(args')
  PROVE  Safe
<1>1. /\ VarOrderInv' /\ StoreInv' /\ (Keeps(Live) \/ Keeps(Allocated))
      /\ \A h \in Handles : GoodNext(KindOf[h], root[h])
      /\ cache' \subseteq CacheRecs
      /\ \A c \in cache' : GoodNext(c.kind, c.f) /\ GoodNext(c.kind, c.result)
  BY MaybeCollect
<1>2. /\ temps' \subseteq Kinds \X Edges
      /\ \A t \in temps' : GoodNext(t[1], t[2])
  BY <1>1, ArgTempsGood
<1>3. HolderTypeOK'
  BY <1>1, <1>2, DDManagerAssumption DEF IInv, HolderTypeOK, Idle
<1>4. HoldersGoodNext
  BY <1>1, <1>2 DEF HoldersGoodNext
<1>5. QED
  BY <1>1, <1>3, <1>4, SafeStep

\* A guard inside a guard only moves the depth.
LEMMA NestedGuardSafe ==
  ASSUME IInv, EnterGuard \/ LeaveGuard
  PROVE  Safe
<1>1. /\ UNCHANGED <<orderVars, tableVars, root, cache, attempt, args, temps>>
      /\ gcDepth' \in 1..DepthMax /\ ~ Idle
  BY DDManagerAssumption DEF EnterGuard, LeaveGuard, IInv, HolderTypeOK
<1>2. VarOrderInv' /\ StoreInv' /\ Keeps(Allocated)
  BY <1>1, SameTable
<1>3. HolderTypeOK'
  BY <1>1, DDManagerAssumption DEF IInv, HolderTypeOK, Idle
<1>4. HoldersGoodNext
  BY <1>1, <1>2, GoodKeptAll DEF IInv, HoldersGood, HoldersGoodNext
<1>5. QED
  BY <1>2, <1>3, <1>4, SafeStep

LEMMA OpMakeSafe ==
  ASSUME IInv, NEW k \in Kinds, NEW v \in VarsUsed,
         NEW lo \in Held(k), NEW hi \in Held(k), OpMake(k, v, lo, hi)
  PROVE  Safe
<1>1. /\ ~ Idle /\ Accepts(k, v, lo, hi)
      /\ UNCHANGED <<orderVars, root, cache, attempt, gcDepth, args>>
  BY DEF OpMake
<1>2. PICK r : Make(k, v, lo, hi, r) /\ Hold(k, r)
  BY DEF OpMake
<1>3. Good(k, lo) /\ Good(k, hi)
  BY HeldGood
<1>4. /\ Sound(lo) /\ Sound(hi)
      /\ k # "unreduced" => IsReduced(lo) /\ IsReduced(hi)
  BY <1>1, <1>3 DEF Good, ReducedKind, Accepts
<1>5. /\ StoreInv' /\ Keeps(Allocated) /\ SoundNext(r)
      /\ k # "unreduced" => ReducedNext(r)
  BY <1>1, <1>2, <1>4, SameOrder, MakeKeeps DEF IInv
<1>6. /\ temps' = temps \cup {<<k, r>>}
      /\ GoodNext(k, r) /\ <<k, r>> \in Kinds \X Edges
  BY <1>2, <1>5 DEF Hold, GoodNext, SoundNext
<1>7. QED
  BY <1>1, <1>5, <1>6, InsideOp DEF IInv, HolderTypeOK

\* Steps that only change local variables or the cache.
LEMMA OpLocalSafe ==
  ASSUME IInv, ~ Idle,
         UNCHANGED <<orderVars, tableVars, root, attempt, gcDepth, args>>,
         temps' \subseteq Kinds \X Edges, cache' \subseteq CacheRecs,
         \A t \in temps' : t \in temps \/ Good(t[1], t[2]),
         \A c \in cache' : \/ c \in cache
                           \/ Good(c.kind, c.f) /\ Good(c.kind, c.result)
  PROVE  Safe
<1>1. /\ StoreInv' /\ Keeps(Allocated)
      /\ \A k, e : Good(k, e) => GoodNext(k, e)
  BY SameTable
<1>2. /\ \A t \in temps' : t \in temps \/ GoodNext(t[1], t[2])
      /\ \A c \in cache' : \/ c \in cache
                           \/ GoodNext(c.kind, c.f) /\ GoodNext(c.kind, c.result)
  BY <1>1
<1>3. QED
  BY <1>1, <1>2, InsideOp

LEMMA OpChildSafe ==
  ASSUME IInv, NEW k \in Kinds, NEW e \in HeldOnly(k), NEW b \in {0, 1},
         OpChild(k, e, b)
  PROVE  Safe
<1>1. Good(k, ChildOf(k, e, b)) /\ ChildOf(k, e, b) \in Edges
  BY HeldGood, ChildGood DEF OpChild
<1>2. temps' = temps \cup {<<k, ChildOf(k, e, b)>>}
  BY DEF OpChild, Hold
<1>3. temps' \subseteq Kinds \X Edges
  BY <1>1, <1>2 DEF IInv, HolderTypeOK
<1>4. \A t \in temps' : t \in temps \/ Good(t[1], t[2])
  BY <1>1, <1>2
<1>5. QED
  BY <1>3, <1>4, OpLocalSafe DEF OpChild, IInv, HolderTypeOK

LEMMA OpForgetSafe ==
  ASSUME IInv, NEW k, NEW e, OpForget(k, e)
  PROVE  Safe
BY OpLocalSafe DEF OpForget, IInv, HolderTypeOK

LEMMA OpCacheWriteSafe ==
  ASSUME IInv, NEW k \in Kinds, NEW f \in HeldOnly(k), NEW r \in Held(k),
         OpCacheWrite(k, f, r)
  PROVE  Safe
<1> DEFINE new == [kind |-> k, f |-> f, result |-> r]
<1>1. PICK kept \in SUBSET cache : cache' = kept \cup {new}
  BY DEF OpCacheWrite
<1>2. Good(k, f) /\ Good(k, r) /\ new \in CacheRecs
  BY HeldGood DEF CacheRecs
<1>3. cache' \subseteq CacheRecs
  BY <1>1, <1>2 DEF IInv, HolderTypeOK
<1>4. \A c \in cache' : \/ c \in cache
                        \/ Good(c.kind, c.f) /\ Good(c.kind, c.result)
  BY <1>1, <1>2
<1>5. ~ Idle /\ UNCHANGED <<orderVars, tableVars, root, attempt, gcDepth, args, temps>>
  BY DEF OpCacheWrite, opVars
<1>6. QED
  BY <1>3, <1>4, <1>5, OpLocalSafe DEF IInv, HolderTypeOK

LEMMA OpCacheReadSafe ==
  ASSUME IInv, NEW c \in cache, OpCacheRead(c)
  PROVE  Safe
<1>1. Good(c.kind, c.result) /\ c.kind \in Kinds /\ c.result \in Edges
  BY DEF IInv, HoldersGood, HolderTypeOK, CacheRecs
<1>2. temps' = temps \cup {<<c.kind, c.result>>}
  BY DEF OpCacheRead, Hold
<1>3. temps' \subseteq Kinds \X Edges
  BY <1>1, <1>2 DEF IInv, HolderTypeOK
<1>4. \A t \in temps' : t \in temps \/ Good(t[1], t[2])
  BY <1>1, <1>2
<1>5. QED
  BY <1>3, <1>4, OpLocalSafe DEF OpCacheRead, IInv, HolderTypeOK

LEMMA EndOpSafe ==
  ASSUME IInv, NEW h \in Handles, NEW e \in Held(KindOf[h]), EndOp(h, e)
  PROVE  Safe
<1>1. /\ UNCHANGED <<orderVars, tableVars, cache>>
      /\ EndedOp /\ root' = [root EXCEPT ![h] = e]
  BY DEF EndOp
<1>2. Good(KindOf[h], e) /\ e \in Edges
  BY HeldGood
<1>3. /\ StoreInv' /\ Keeps(Allocated)
      /\ \A k, x : Good(k, x) => GoodNext(k, x)
  BY <1>1, SameTable
<1>4. /\ root' \in [Handles -> Edges]
      /\ \A g \in Handles : root'[g] = root[g] \/ GoodNext(KindOf[g], root'[g])
  BY <1>1, <1>2, <1>3 DEF IInv, HolderTypeOK
<1>5. QED
  BY <1>1, <1>3, <1>4, EndsOp

LEMMA OpThrowsSafe ==
  ASSUME IInv, OpThrows
  PROVE  Safe
<1>1. UNCHANGED <<orderVars, tableVars, root, cache>> /\ EndedOp
  BY DEF OpThrows
<1>2. StoreInv' /\ Keeps(Allocated)
  BY <1>1, SameTable
<1>3. QED
  BY <1>1, <1>2, EndsOp DEF IInv, HolderTypeOK

LEMMA OpBadAllocSafe ==
  ASSUME IInv, NEW k, NEW v, NEW lo, NEW hi, OpBadAlloc(k, v, lo, hi)
  PROVE  Safe
<1>1. /\ UNCHANGED <<orderVars, root, cache>> /\ EndedOp
      /\ MakeRolledBack(k, v, lo, hi)
  BY DEF OpBadAlloc
<1>2. StoreInv' /\ Keeps(Allocated)
  BY <1>1, RolledBackKeeps DEF IInv
<1>3. QED
  BY <1>1, <1>2, EndsOp DEF IInv, HolderTypeOK

LEMMA BeginOpSafe ==
  ASSUME IInv, NEW S \in SUBSET Handles, BeginOp(S)
  PROVE  Safe
<1>1. DepthMax > 0
  BY DDManagerAssumption DEF BeginOp, IInv, HolderTypeOK
<1>2. QED
  BY <1>1, StartsOp DEF BeginOp, Bddgc

LEMMA OpRetrySafe ==
  ASSUME IInv, OpRetry
  PROVE  Safe
<1>1. DepthMax > 0
  BY DDManagerAssumption DEF OpRetry, IInv, HolderTypeOK, Idle
<1>2. QED
  BY <1>1, StartsOp DEF OpRetry, Bddgc, IInv, HolderTypeOK

LEMMA OpStepSafe ==
  ASSUME IInv, OpStep
  PROVE  Safe
<1>1. ASSUME NEW S \in SUBSET Handles, BeginOp(S)
      PROVE  Safe
  BY <1>1, BeginOpSafe
<1>2. CASE EnterGuard \/ LeaveGuard
  BY <1>2, NestedGuardSafe
<1>3. ASSUME NEW g \in Handles,
             \/ \E v \in VarsUsed, lo, hi \in Held(KindOf[g]) :
                  OpMake(KindOf[g], v, lo, hi) \/ OpBadAlloc(KindOf[g], v, lo, hi)
             \/ \E e \in HeldOnly(KindOf[g]) :
                  \/ \E b \in {0, 1} : OpChild(KindOf[g], e, b)
                  \/ OpForget(KindOf[g], e)
                  \/ \E r \in Held(KindOf[g]) : OpCacheWrite(KindOf[g], e, r)
      PROVE  Safe
  <2>1. KindOf[g] \in Kinds
    BY DDManagerAssumption
  <2>2. QED
    BY <1>3, <2>1, OpMakeSafe, OpBadAllocSafe, OpChildSafe, OpForgetSafe,
       OpCacheWriteSafe
<1>4. ASSUME NEW c \in cache, OpCacheRead(c)
      PROVE  Safe
  BY <1>4, OpCacheReadSafe
<1>5. ASSUME NEW h \in Handles, NEW e \in Held(KindOf[h]), EndOp(h, e)
      PROVE  Safe
  BY <1>5, EndOpSafe
<1>6. CASE OpRetry \/ OpThrows
  BY <1>6, OpRetrySafe, OpThrowsSafe
<1>7. QED
  BY <1>1, <1>2, <1>3, <1>4, <1>5, <1>6 DEF OpStep

-----------------------------------------------------------------------------
LEMMA ShrinkCacheSafe ==
  ASSUME IInv, ShrinkCache
  PROVE  Safe
<1>1. /\ UNCHANGED <<orderVars, tableVars, root, attempt, gcDepth, args, temps>>
      /\ cache' \subseteq cache
  BY DEF ShrinkCache, opVars
<1>2. VarOrderInv' /\ StoreInv' /\ Keeps(Allocated)
  BY <1>1, SameTable
<1>3. HolderTypeOK'
  BY <1>1 DEF IInv, HolderTypeOK, Idle
<1>4. HoldersGoodNext
  BY <1>1, <1>2, GoodKeptAll DEF IInv, HoldersGood, HoldersGoodNext
<1>5. QED
  BY <1>2, <1>3, <1>4, SafeStep

LEMMA CreateSafe ==
  ASSUME IInv, CreateVar \/ \E lev \in 1..(varcount + 1) : CreateVarOfLev(lev)
  PROVE  Safe
<1>1. /\ UNCHANGED <<tableVars, root, attempt, gcDepth, args, temps>>
      /\ cache' \subseteq cache
      /\ NewVar \/ \E lev \in 1..(varcount + 1) : NewVarOfLev(lev)
  BY DEF CreateVar, CreateVarOfLev, opVars
<1>2. StoreInv' /\ Keeps(Allocated)
  BY <1>1, NewVarKeeps DEF IInv
<1>3. VarOrderInv'
  BY <1>1, NewVarInverse, NewVarOfLevInverse DEF IInv
<1>4. HolderTypeOK'
  BY <1>1 DEF IInv, HolderTypeOK, Idle
<1>5. HoldersGoodNext
  BY <1>1, <1>2, GoodKeptAll DEF IInv, HoldersGood, HoldersGoodNext
<1>6. QED
  BY <1>2, <1>3, <1>4, <1>5, SafeStep

\* Re-initialization, allowed only while no object refers to a node.
LEMMA ReinitSafe ==
  ASSUME IInv, Reinit
  PROVE  Safe
<1>1. /\ UNCHANGED <<root, attempt, gcDepth, args, temps>> /\ cache' = {}
      /\ ForgetVars /\ ResetTable /\ Idle
      /\ \A h \in Handles : root[h].node = 0
  BY DEF Reinit, opVars
<1>2. VarOrderInv' /\ StoreInv'
  BY <1>1, ForgetVarsInverse, ResetKeeps DEF IInv
<1>3. HolderTypeOK' /\ temps' = {}
  BY <1>1 DEF IInv, HolderTypeOK, Idle
<1>4. Keeps({})
  BY DEF Keeps
<1>5. \A h \in Handles : GoodNext(KindOf[h], root[h])
  BY <1>1, <1>4, GoodKept DEF IInv, HoldersGood, Good, Sound, Within
<1>6. HoldersGoodNext
  BY <1>1, <1>3, <1>5 DEF HoldersGoodNext
<1>7. LiveNodesStep
  <2>1. SelfContained({}) /\ Closed({})
    BY DEF SelfContained, Closed
  <2>2. {root[h].node : h \in Handles} \cap (1..used) \subseteq {}
    BY <1>1 DEF IInv, StoreInv, NodeTableTypeOK
  <2>3. Live = {}
    BY <2>1, <2>2 DEF Live, Reach
  <2>4. QED
    BY <2>3 DEF LiveNodesStep
<1>8. QED
  BY <1>2, <1>3, <1>6, <1>7, NextIInv DEF Safe

-----------------------------------------------------------------------------
LEMMA InitIInv == Init => IInv
<1> SUFFICES ASSUME Init PROVE IInv
  OBVIOUS
<1> USE VarMaxAssumption, NodeTableAssumption, DDManagerAssumption
<1>1. VarOrderInv
  BY DEF Init, VarOrderInit, VarOrderInv, VarOrderTypeOK, LevelsInverse, VarsUsed
<1>2. Junk \in NodeRecs
  BY DEF Junk, NodeRecs, Edges, Consts, Null, Const
<1>3. Allocated = {}
  BY DEF Init, NodeTableInit, Allocated
<1>4. NodeTableTypeOK
  BY <1>2, <1>3 DEF Init, NodeTableInit, NodeTableTypeOK
<1>5. StoreInv
  BY <1>3, <1>4 DEF Init, NodeTableInit, StoreInv, ChildrenSound,
       NoDuplicates, TableExact, Ordered, ReducedNodes
<1>6. \A h \in Handles : Good(KindOf[h], root[h]) /\ root[h] \in Edges
  BY ConstGood DEF Init
<1>7. HolderTypeOK
  BY <1>6 DEF Init, HolderTypeOK, Idle
<1>8. HoldersGood
  BY <1>6 DEF Init, HoldersGood
<1>9. QED
  BY <1>1, <1>5, <1>7, <1>8 DEF IInv

LEMMA NextSafe == IInv /\ Next => Safe
BY GcSafe, ObjectStepSafe, NodeStepSafe, OpStepSafe, ShrinkCacheSafe,
   CreateSafe, ReinitSafe DEF Next

LEMMA StutterSafe == IInv /\ UNCHANGED vars => Safe
<1> SUFFICES ASSUME IInv, UNCHANGED vars PROVE Safe
  OBVIOUS
<1>1. UNCHANGED <<orderVars, tableVars, root, cache, attempt, gcDepth, args, temps>>
  BY DEF vars, opVars
<1>2. VarOrderInv' /\ StoreInv' /\ Keeps(Allocated)
  BY <1>1, SameTable
<1>3. HolderTypeOK'
  BY <1>1 DEF IInv, HolderTypeOK, Idle
<1>4. HoldersGoodNext
  BY <1>1, <1>2, GoodKeptAll DEF IInv, HoldersGood, HoldersGoodNext
<1>5. QED
  BY <1>2, <1>3, <1>4, SafeStep

\* The inductive invariant holds in every reachable state.
THEOREM Invariance == Spec => []IInv
<1>1. IInv /\ [Next]_vars => IInv'
  BY NextSafe, StutterSafe DEF Safe
<1>2. QED
  BY InitIInv, <1>1, PTL DEF Spec

(***************************************************************************)
(* The state stays well formed: what the variable order, the node table,   *)
(* the objects, the cache and a running operation hold.                    *)
(***************************************************************************)
THEOREM AlwaysTypeOK == Spec => []TypeOK
<1>1. IInv => TypeOK
  BY DEF IInv, VarOrderInv, StoreInv, HolderTypeOK, TypeOK
<1>2. QED
  BY Invariance, <1>1, PTL

(***************************************************************************)
(* No holder of an edge, and no node, points to a slot that was freed,     *)
(* wherever in an operation the collector is given the chance to run.      *)
(***************************************************************************)
THEOREM NothingDangles == Spec => []NoDangling
<1>1. IInv => NoDangling
  BY DEF IInv, StoreInv, HoldersGood, Good, NoDangling, RootsSound,
         TempsSound, CacheSound
<1>2. QED
  BY Invariance, <1>1, PTL

(***************************************************************************)
(* Sharing is maximal and the unique tables are exact: what makes          *)
(* comparing two roots a comparison of two functions.                      *)
(***************************************************************************)
THEOREM MaximalSharing == Spec => [](NoDuplicates /\ TableExact)
<1>1. IInv => NoDuplicates /\ TableExact
  BY DEF IInv, StoreInv
<1>2. QED
  BY Invariance, <1>1, PTL

(***************************************************************************)
(* Every reduced node is above its children and has reduced children, and  *)
(* no holder of a reducing kind gets at an unreduced node.                 *)
(***************************************************************************)
THEOREM OrderedAndReduced == Spec => [](Ordered /\ WellKinded)
<1>1. IInv => Ordered /\ WellKinded
  BY DEF IInv, StoreInv, HoldersGood, Good, WellKinded
<1>2. QED
  BY Invariance, <1>1, PTL

(***************************************************************************)
(* The unique tables list the reduced nodes, all of them and no other,     *)
(* although unreduced nodes share the array with them (bddgc,              *)
(* getnode_raw, the rollback of a failed insertion).                       *)
(***************************************************************************)
THEOREM TablesAlwaysExact == Spec => []TableExact
<1>1. IInv => TableExact
  BY DEF IInv, StoreInv
<1>2. QED
  BY Invariance, <1>1, PTL

(***************************************************************************)
(* No object, local variable or cache entry of a reduced kind ever gets    *)
(* hold of an unreduced node.                                              *)
(***************************************************************************)
THEOREM KindsNeverMix == Spec => []WellKinded
<1>1. IInv => WellKinded
  BY DEF IInv, HoldersGood, Good, WellKinded
<1>2. QED
  BY Invariance, <1>1, PTL

(***************************************************************************)
(* No step overwrites or frees a reduced node that an object can reach.    *)
(***************************************************************************)
THEOREM LiveNodesNeverChange == Spec => LiveNodesKept
<1>1. IInv /\ [Next]_vars => [LiveNodesStep]_vars
  BY NextSafe DEF Safe
<1>2. QED
  BY Invariance, <1>1, PTL DEF Spec, LiveNodesKept

-----------------------------------------------------------------------------
(***************************************************************************)
(* Canonicity of the objects, and what keeps their meaning, for every      *)
(* number of variables, nodes and objects.                                 *)
(***************************************************************************)
\* Edge e is held by an object, a local variable or a cache entry of kind k.
Holds(k, e) ==
  \/ \E h \in Handles : KindOf[h] = k /\ root[h] = e
  \/ <<k, e>> \in temps
  \/ \E c \in cache : c.kind = k /\ e \in {c.f, c.result}

Fits(k, S, e) == e = Null \/ OfKind(k, S, e)

(***************************************************************************)
(* All that is held of kind k is made of the nodes of S, diagrams of that  *)
(* kind (with every level visited if full is set: the case of QDDs).       *)
(***************************************************************************)
Frame(k, S, full) ==
  /\ Diagrams(k, S)
  /\ full => k = "qdd" /\ Full(S)
  /\ \A e : Holds(k, e) => Fits(k, S, e)

\* What a step can hold without making a node.
Derived(k, e) ==
  \/ e \in ConstsOf(k) \cup {Null}
  \/ \E x : /\ Holds(k, x)
            /\ \/ e = x
               \/ e = Not(x) /\ k \in {"bdd", "zdd", "qdd"}
               \/ x.node # 0 /\ \E b \in {0, 1} : e = ChildOf(k, x, b)

-----------------------------------------------------------------------------
\* What is derived from what fits, fits.
LEMMA DerivedFits ==
  ASSUME NEW k \in Reducing, NEW S, NEW full, Frame(k, S, full),
         NEW e, Derived(k, e)
  PROVE  Fits(k, S, e)
<1>1. CASE e \in ConstsOf(k) \cup {Null}
  <2>1. \A x \in ConstsOf(k) : x.node = 0
    BY DEF ConstsOf, True, False, Const
  <2>2. QED
    BY <1>1, <2>1 DEF Fits, OfKind
<1>2. ASSUME NEW x, Holds(k, x),
             \/ e = x
             \/ e = Not(x) /\ k \in {"bdd", "zdd", "qdd"}
             \/ x.node # 0 /\ \E b \in {0, 1} : e = ChildOf(k, x, b)
      PROVE  Fits(k, S, e)
  <2>1. Fits(k, S, x)
    BY <1>2 DEF Frame
  <2>2. CASE x = Null
    <3>1. x.node = 0 /\ Not(x) = Null
      BY <2>2 DEF Null, Const, Not
    <3>2. QED
      BY <1>2, <2>2, <3>1 DEF Fits
  <2>3. CASE OfKind(k, S, x)
    BY <1>2, <2>3, NotOfKind, ChildOfKind DEF Fits, Frame
  <2>4. QED
    BY <2>1, <2>2, <2>3 DEF Fits
<1>3. QED
  BY <1>1, <1>2 DEF Derived

\* The same when a collection on the spot had to free the slot.
LEMMA MakeAfterSweepJoins ==
  ASSUME IInv, UNCHANGED orderVars,
         NEW k \in Reducing, NEW S, NEW full \in BOOLEAN,
         Diagrams(k, S), full => k = "qdd" /\ Full(S),
         NEW v \in VarsUsed, NEW lo, NEW hi,
         OfKind(k, S, lo), OfKind(k, S, hi), Accepts(k, v, lo, hi),
         Within(Live, lo), Within(Live, hi),
         NEW r, MakeAfterSweep(Live, k, v, lo, hi, r)
  PROVE  \E S2 :
           /\ Diagrams(k, S2)' /\ (full => k = "qdd" /\ Full(S2)')
           /\ OfKind(k, S2, r)
           /\ \A e : OfKind(k, S, e) /\ Within(Live, e) => OfKind(k, S2, e)
<1>1. /\ k \in Kinds /\ k # "unreduced"
      /\ VarOrderInv /\ VarOrderTypeOK /\ StoreInv
  BY SameOrder DEF Reducing, IInv
<1>2. IsReduced(lo) /\ IsReduced(hi)
  BY KindGood
<1>3. Live \in SUBSET Allocated /\ SelfContained(Live)
  BY LiveFacts
<1>4. StoreInv' /\ Keeps(Live) /\ SoundNext(r) /\ ReducedNext(r)
  BY <1>1, <1>2, <1>3, MakeAfterSweepKeeps
<1>5. PICK n \in (1..used) \ Live :
        /\ nodes' = [m \in Slots |->
                       IF m = n THEN NewRec(k, v, lo, hi)
                       ELSE IF m \in Live \/ m > used THEN nodes[m] ELSE Junk]
        /\ r = Ref(k, lo, n)
  BY DEF MakeAfterSweep
<1>6. n \in Slots /\ n # 0
  BY <1>1, NodeTableAssumption DEF StoreInv, NodeTableTypeOK, Slots
<1>7. nodes'[n] = NewRec(k, v, lo, hi)
  BY <1>5, <1>6
<1>8. n \in Allocated' /\ nodes'[n].red
  BY <1>4, <1>5, <1>6 DEF SoundNext, ReducedNext, Ref
<1>9. ~ Redundant(k, lo, hi)
  BY DEF MakeAfterSweep
<1>10. PICK A : A = Live
  OBVIOUS
<1>11. /\ A \in SUBSET Allocated /\ SelfContained(A) /\ Keeps(A)
       /\ Within(A, lo) /\ Within(A, hi)
  BY <1>3, <1>4, <1>10
<1>12. /\ nodes'[n].var = v /\ nodes'[n].lo = NormalLo(k, lo)
       /\ nodes'[n].hi = NormalHi(k, lo, hi)
  BY <1>7 DEF NewRec
<1>13. StoreInv' /\ n \in Allocated' /\ nodes'[n].red
  BY <1>4, <1>8
<1>14. \E S2 :
         /\ Diagrams(k, S2)' /\ (full => k = "qdd" /\ Full(S2)')
         /\ OfKind(k, S2, Ref(k, lo, n))
         /\ \A e : OfKind(k, S, e) /\ Within(A, e) => OfKind(k, S2, e)
  BY <1>1, <1>9, <1>11, <1>12, <1>13, NodeJoins
<1>15. QED
  BY <1>5, <1>10, <1>14

-----------------------------------------------------------------------------
\* What every step is shown to do for kind k.
FrameNext(k, full) ==
  \E S2 :
    /\ Diagrams(k, S2)'
    /\ full => k = "qdd" /\ Full(S2)'
    /\ \A e : Holds(k, e)' => Fits(k, S2, e)

(***************************************************************************)
(* A step that makes no node of the kind and only hands on what is there.  *)
(***************************************************************************)
LEMMA HandsOn ==
  ASSUME IInv, NEW k \in Reducing, NEW S, NEW full \in BOOLEAN,
         Frame(k, S, full), full => SameLevels,
         NEW A, SelfContained(A), Keeps(A),
         \A e : Holds(k, e)' => Derived(k, e) /\ (e = Null \/ Within(A, e))
  PROVE  FrameNext(k, full)
<1>1. PICK S2 :
        /\ Diagrams(k, S2)' /\ (full => k = "qdd" /\ Full(S2)')
        /\ \A e : OfKind(k, S, e) /\ Within(A, e) => OfKind(k, S2, e)
  BY DiagramsKept DEF Frame, IInv
<1>2. ASSUME NEW e, Holds(k, e)'
      PROVE  Fits(k, S2, e)
  BY <1>1, <1>2, DerivedFits DEF Fits
<1>3. QED
  BY <1>1, <1>2 DEF FrameNext

LEMMA HandsOnAll ==
  ASSUME IInv, NEW k \in Reducing, NEW S, NEW full \in BOOLEAN,
         Frame(k, S, full), full => SameLevels, Keeps(Allocated),
         \A e : Holds(k, e)' => Derived(k, e)
  PROVE  FrameNext(k, full)
<1>1. \A e : Derived(k, e) => e = Null \/ Within(Allocated, e)
  BY DerivedFits, KindGood DEF Fits, Frame
<1>2. SelfContained(Allocated)
  BY AllSelfContained DEF IInv, StoreInv
<1>3. QED
  BY <1>1, <1>2, HandsOn

\* Steps that leave the order and the table alone.
LEMMA HandsOnSame ==
  ASSUME IInv, NEW k \in Reducing, NEW S, NEW full \in BOOLEAN,
         Frame(k, S, full), full => SameLevels,
         UNCHANGED <<orderVars, tableVars>>,
         \A e : Holds(k, e)' => Derived(k, e)
  PROVE  FrameNext(k, full)
<1>1. Keeps(Allocated)
  BY SameTable
<1>2. QED
  BY <1>1, HandsOnAll

LEMMA HeldDerives ==
  ASSUME NEW k
  PROVE  /\ \A e : Holds(k, e) => Derived(k, e)
         /\ \A e \in HeldOnly(k) : Holds(k, e) /\ Derived(k, e)
         /\ \A e \in Held(k) : Derived(k, e)
<1>1. \A e : Holds(k, e) => Derived(k, e)
  BY DEF Derived
<1>2. \A e \in HeldOnly(k) : Holds(k, e)
  BY DEF HeldOnly, Holds
<1>3. \A e \in ConstsOf(k) : Derived(k, e)
  BY DEF Derived
<1>4. QED
  BY <1>1, <1>2, <1>3 DEF Held

LEMMA SetRootHandsOn ==
  ASSUME IInv, NEW k \in Reducing, NEW S, NEW full \in BOOLEAN,
         Frame(k, S, full), full => SameLevels,
         NEW h \in Handles, NEW x, SetRoot(h, x),
         Derived(KindOf[h], x)
  PROVE  FrameNext(k, full)
<1>1. /\ UNCHANGED <<orderVars, tableVars, cache, temps>>
      /\ root' = [root EXCEPT ![h] = x] /\ root \in [Handles -> Edges]
  BY DEF SetRoot, opVars, IInv, HolderTypeOK
<1>2. ASSUME NEW e, Holds(k, e)'
      PROVE  Holds(k, e) \/ (KindOf[h] = k /\ e = x)
  BY <1>1, <1>2 DEF Holds
<1>3. \A e : Holds(k, e)' => Derived(k, e)
  BY <1>2, HeldDerives
<1>4. QED
  BY <1>1, <1>3, HandsOnSame

LEMMA MoveHandsOn ==
  ASSUME IInv, NEW k \in Reducing, NEW S, NEW full \in BOOLEAN,
         Frame(k, S, full), full => SameLevels,
         NEW h \in Handles, NEW g \in Handles, Move(h, g)
  PROVE  FrameNext(k, full)
<1>1. /\ UNCHANGED <<orderVars, tableVars, cache, temps>>
      /\ root' = [[root EXCEPT ![h] = root[g]] EXCEPT ![g] = Null]
      /\ KindOf[h] = KindOf[g] /\ root \in [Handles -> Edges]
  BY DEF Move, opVars, IInv, HolderTypeOK
<1>2. ASSUME NEW e, Holds(k, e)'
      PROVE  Holds(k, e) \/ e = Null
  BY <1>1, <1>2 DEF Holds
<1>3. \A e : Holds(k, e)' => Derived(k, e)
  BY <1>2, HeldDerives DEF Derived
<1>4. QED
  BY <1>1, <1>3, HandsOnSame

\* set_child0 and set_child1 write to a node no reduced diagram has.
LEMMA SetChildHandsOn ==
  ASSUME IInv, NEW k \in Reducing, NEW S, NEW full \in BOOLEAN,
         Frame(k, S, full), full => SameLevels,
         NEW h \in Handles, NEW g \in Handles, NEW b \in {0, 1},
         SetChild(h, g, b)
  PROVE  FrameNext(k, full)
<1>1. /\ UNCHANGED <<used, free, root, cache, temps>>
      /\ ~ nodes[root[h].node].red
      /\ \A n \in Slots \ {root[h].node} : nodes'[n] = nodes[n]
  BY DEF SetChild, Overwrite, opVars, IInv, StoreInv, NodeTableTypeOK
<1>2. PICK A : A = ReducedNodes
  OBVIOUS
<1>3. Keeps(A)
  <2>1. ReducedNodes \subseteq Slots
    BY NodeTableAssumption
       DEF IInv, StoreInv, NodeTableTypeOK, ReducedNodes, Allocated, Slots
  <2>2. \A n \in A : n # root[h].node /\ n \in Allocated
    BY <1>1, <1>2 DEF ReducedNodes
  <2>3. Allocated' = Allocated
    BY <1>1 DEF Allocated
  <2>4. QED
    BY <1>1, <1>2, <2>1, <2>2, <2>3 DEF Keeps
<1>4. SelfContained(A)
  BY <1>2, ReducedClosed DEF IInv
<1>5. \A e : Holds(k, e)' => Holds(k, e)
  BY <1>1 DEF Holds
<1>6. \A e : Derived(k, e) => e = Null \/ Within(A, e)
  BY <1>2, DerivedFits, KindGood DEF Fits, Frame
<1>7. QED
  BY <1>3, <1>4, <1>5, <1>6, HandsOn, HeldDerives

LEMMA ObjectStepFrame ==
  ASSUME IInv, NEW k \in Reducing, NEW S, NEW full \in BOOLEAN,
         Frame(k, S, full), full => SameLevels,
         ObjectStep
  PROVE  FrameNext(k, full)
<1>1. PICK h \in Handles, g \in Handles :
        \/ \E e \in Consts : Construct(h, e)
        \/ Copy(h, g)
        \/ Move(h, g)
        \/ Destroy(h)
        \/ Negate(h, g)
        \/ \E b \in {0, 1} : TakeChild(h, g, b) \/ SetChild(h, g, b)
  BY DEF ObjectStep
<1>2. Holds(KindOf[g], root[g]) /\ Derived(KindOf[g], root[g])
  BY HeldDerives DEF Holds
<1>3. ASSUME NEW e \in Consts, Construct(h, e)
      PROVE  FrameNext(k, full)
  BY <1>3, SetRootHandsOn DEF Construct, Derived
<1>4. CASE Copy(h, g)
  BY <1>2, <1>4, SetRootHandsOn DEF Copy
<1>5. CASE Move(h, g)
  BY <1>5, MoveHandsOn
<1>6. CASE Destroy(h)
  BY <1>6, SetRootHandsOn DEF Destroy, Derived
<1>7. CASE Negate(h, g)
  <2>1. Derived(KindOf[h], Not(root[g]))
    BY <1>2, <1>7 DEF Negate, Derived
  <2>2. QED
    BY <1>7, <2>1, SetRootHandsOn DEF Negate
<1>8. ASSUME NEW b \in {0, 1}, TakeChild(h, g, b)
      PROVE  FrameNext(k, full)
  <2>1. Derived(KindOf[h], ChildOf(KindOf[h], root[g], b))
    BY <1>2, <1>8 DEF TakeChild, Derived
  <2>2. QED
    BY <1>8, <2>1, SetRootHandsOn DEF TakeChild
<1>9. ASSUME NEW b \in {0, 1}, SetChild(h, g, b)
      PROVE  FrameNext(k, full)
  BY <1>9, SetChildHandsOn
<1>10. QED
  BY <1>1, <1>3, <1>4, <1>5, <1>6, <1>7, <1>8, <1>9

-----------------------------------------------------------------------------
(***************************************************************************)
(* A collection, at the edge of an operation or outside one: what is held  *)
(* afterwards are the roots of objects.                                    *)
(***************************************************************************)
LEMMA CollectFrame ==
  ASSUME IInv, NEW k \in Reducing, NEW S, NEW full \in BOOLEAN,
         Frame(k, S, full), full => SameLevels,
         UNCHANGED <<orderVars, root>>, Collect,
         \A e : Holds(k, e)' => \E h \in Handles : KindOf[h] = k /\ root[h] = e
  PROVE  FrameNext(k, full)
<1>1. PICK A : A = Live
  OBVIOUS
<1>2. Keeps(A) /\ SelfContained(A) /\ \A h \in Handles : Within(A, root[h])
  BY <1>1, CollectFacts, LiveFacts
<1>3. ASSUME NEW e, Holds(k, e)'
      PROVE  Derived(k, e) /\ Within(A, e)
  BY <1>2, <1>3, HeldDerives DEF Holds
<1>4. QED
  BY <1>2, <1>3, HandsOn

LEMMA StartsFrame ==
  ASSUME IInv, NEW k \in Reducing, NEW S, NEW full \in BOOLEAN,
         Frame(k, S, full), full => SameLevels,
         UNCHANGED <<orderVars, root>>,
         Collect \/ UNCHANGED <<tableVars, cache>>,
         NEW R \in SUBSET Handles, temps' = ArgTemps(R)
  PROVE  FrameNext(k, full)
<1>1. ASSUME NEW e, Holds(k, e)'
      PROVE  \/ \E h \in Handles : KindOf[h] = k /\ root[h] = e
             \/ \E c \in cache' : c.kind = k /\ e \in {c.f, c.result}
  BY <1>1 DEF Holds, ArgTemps
<1>2. CASE Collect
  BY <1>1, <1>2, CollectFrame DEF Collect
<1>3. CASE UNCHANGED <<tableVars, cache>>
  BY <1>1, <1>3, HandsOnSame, HeldDerives DEF Holds
<1>4. QED
  BY <1>2, <1>3

LEMMA GcFrame ==
  ASSUME IInv, NEW k \in Reducing, NEW S, NEW full \in BOOLEAN,
         Frame(k, S, full), full => SameLevels,
         Gc
  PROVE  FrameNext(k, full)
<1>1. /\ UNCHANGED <<orderVars, root, temps>> /\ Collect /\ temps = {}
  BY DEF Gc, opVars, IInv, HolderTypeOK
<1>2. QED
  BY <1>1, CollectFrame DEF Collect, Holds

-----------------------------------------------------------------------------
(***************************************************************************)
(* The steps that make a node: of the kind itself, or of another kind,     *)
(* which leaves the diagrams of this one alone.                            *)
(***************************************************************************)
LEMMA Joined ==
  ASSUME NEW k \in Reducing, NEW S, NEW full \in BOOLEAN, NEW A, NEW r,
         Frame(k, S, full),
         \E S2 :
           /\ Diagrams(k, S2)' /\ (full => k = "qdd" /\ Full(S2)')
           /\ OfKind(k, S2, r)
           /\ \A e : OfKind(k, S, e) /\ Within(A, e) => OfKind(k, S2, e),
         \A e : Holds(k, e)' =>
           e = r \/ (Derived(k, e) /\ (e = Null \/ Within(A, e)))
  PROVE  FrameNext(k, full)
<1>1. PICK S2 :
        /\ Diagrams(k, S2)' /\ (full => k = "qdd" /\ Full(S2)')
        /\ OfKind(k, S2, r)
        /\ \A e : OfKind(k, S, e) /\ Within(A, e) => OfKind(k, S2, e)
  OBVIOUS
<1>2. ASSUME NEW e, Holds(k, e)'
      PROVE  Fits(k, S2, e)
  BY <1>1, <1>2, DerivedFits DEF Fits
<1>3. QED
  BY <1>1, <1>2 DEF FrameNext

\* What is derived points to nodes.
LEMMA DerivedWithin ==
  ASSUME NEW k \in Reducing, NEW S, NEW full, Frame(k, S, full),
         NEW e, Derived(k, e)
  PROVE  e = Null \/ (OfKind(k, S, e) /\ Within(Allocated, e))
BY DerivedFits, KindGood DEF Fits, Frame

LEMMA MakeFrame ==
  ASSUME IInv, NEW k \in Reducing, NEW S, NEW full \in BOOLEAN,
         Frame(k, S, full), full => SameLevels, UNCHANGED orderVars,
         NEW j \in Kinds, NEW v \in VarsUsed, NEW lo, NEW hi,
         Accepts(j, v, lo, hi), Good(j, lo), Good(j, hi),
         Derived(j, lo), Derived(j, hi), NEW r, Make(j, v, lo, hi, r),
         \A e : Holds(k, e)' => Holds(k, e) \/ (j = k /\ e = r)
  PROVE  FrameNext(k, full)
<1>1. CASE j = k
  <2>1. OfKind(k, S, lo) /\ OfKind(k, S, hi)
    BY <1>1, DerivedWithin DEF Accepts, Reducing
  <2>2. \E S2 : /\ Diagrams(k, S2)' /\ (full => k = "qdd" /\ Full(S2)')
                /\ OfKind(k, S2, r)
                /\ \A e : OfKind(k, S, e) => OfKind(k, S2, e)
    BY <1>1, <2>1, MakeJoins DEF Frame, IInv
  <2>3. \A e : Holds(k, e)' =>
          e = r \/ (Derived(k, e) /\ (e = Null \/ Within(Allocated, e)))
    <3> SUFFICES ASSUME NEW e, Holds(k, e)', e # r
                 PROVE  Derived(k, e) /\ (e = Null \/ Within(Allocated, e))
      OBVIOUS
    <3>1. Derived(k, e)
      BY HeldDerives
    <3>2. QED
      BY <3>1, DerivedWithin
  <2>4. QED
    BY <2>2, <2>3, Joined
<1>2. CASE j # k
  <2>1. /\ Sound(lo) /\ Sound(hi)
        /\ j # "unreduced" => IsReduced(lo) /\ IsReduced(hi)
    BY DEF Good, ReducedKind, Accepts
  <2>2. Keeps(Allocated)
    BY <2>1, MakeKeeps, SameOrder DEF IInv
  <2>3. QED
    BY <1>2, <2>2, HandsOnAll, HeldDerives
<1>3. QED
  BY <1>1, <1>2

LEMMA GetNodeFrame ==
  ASSUME IInv, NEW k \in Reducing, NEW S, NEW full \in BOOLEAN,
         Frame(k, S, full), full => SameLevels,
         NEW h \in Handles, NEW v \in VarsUsed, NEW lo, NEW hi,
         GetNode(h, v, lo, hi),
         Derived(KindOf[h], lo), Derived(KindOf[h], hi),
         Good(KindOf[h], lo), Good(KindOf[h], hi),
         Within(Live, lo), Within(Live, hi)
  PROVE  FrameNext(k, full)
<1>1. PICK r : /\ root' = [root EXCEPT ![h] = r]
               /\ \/ Make(KindOf[h], v, lo, hi, r) /\ UNCHANGED cache
                  \/ MakeAfterSweep(Live, KindOf[h], v, lo, hi, r) /\ cache' = {}
  BY DEF GetNode
<1>2. PICK j : j = KindOf[h]
  OBVIOUS
<1>3. /\ j # "unreduced" /\ Accepts(j, v, lo, hi) /\ j \in Kinds
      /\ UNCHANGED <<orderVars, temps>> /\ temps = {}
      /\ root \in [Handles -> Edges]
  BY <1>2, DDManagerAssumption DEF GetNode, opVars, IInv, HolderTypeOK
<1>4. ASSUME NEW e, Holds(k, e)'
      PROVE  \/ \E g \in Handles : KindOf[g] = k /\ root[g] = e
             \/ j = k /\ e = r
             \/ \E c \in cache' : c.kind = k /\ e \in {c.f, c.result}
  BY <1>1, <1>2, <1>3, <1>4 DEF Holds
<1>5. CASE Make(j, v, lo, hi, r) /\ UNCHANGED cache
  <2>1. \A e : Holds(k, e)' => Holds(k, e) \/ (j = k /\ e = r)
    BY <1>4, <1>5 DEF Holds
  <2>2. QED
    BY <1>2, <1>3, <1>5, <2>1, MakeFrame
<1>6. CASE MakeAfterSweep(Live, j, v, lo, hi, r) /\ cache' = {}
  <2>1. /\ Live \in SUBSET Allocated /\ SelfContained(Live)
        /\ \A g \in Handles : Within(Live, root[g])
    BY LiveFacts
  <2>2. \A e : Holds(k, e)' => \/ j = k /\ e = r
                               \/ Derived(k, e) /\ Within(Live, e)
    BY <1>4, <1>6, <2>1, HeldDerives DEF Holds
  <2>3. CASE j = k
    <3>1. OfKind(k, S, lo) /\ OfKind(k, S, hi)
      BY <1>2, <1>3, <2>3, DerivedWithin DEF Accepts
    <3>2. \E S2 : /\ Diagrams(k, S2)' /\ (full => k = "qdd" /\ Full(S2)')
                  /\ OfKind(k, S2, r)
                  /\ \A e : OfKind(k, S, e) /\ Within(Live, e) => OfKind(k, S2, e)
      BY <1>3, <1>6, <2>3, <3>1, MakeAfterSweepJoins DEF Frame
    <3>3. QED
      BY <2>2, <3>2, Joined
  <2>4. CASE j # k
    <3>1. IsReduced(lo) /\ IsReduced(hi)
      BY <1>2, <1>3 DEF Good, ReducedKind, Accepts
    <3>2. Keeps(Live)
      BY <1>3, <1>6, <2>1, <3>1, MakeAfterSweepKeeps, SameOrder DEF IInv
    <3>3. PICK A : A = Live
      OBVIOUS
    <3>4. QED
      BY <2>1, <2>2, <2>4, <3>2, <3>3, HandsOn
  <2>5. QED
    BY <2>3, <2>4
<1>7. QED
  BY <1>1, <1>2, <1>5, <1>6

LEMMA NodeStepFrame ==
  ASSUME IInv, NEW k \in Reducing, NEW S, NEW full \in BOOLEAN,
         Frame(k, S, full), full => SameLevels, NodeStep
  PROVE  FrameNext(k, full)
<1>1. PICK h \in Handles, v \in VarsUsed :
        \/ MakeVariable(h, v)
        \/ \E g1, g2 \in Handles :
             GetNodeOf(h, v, g1, g2) \/ GetNodeFails(h, v, g1, g2)
  BY DEF NodeStep
<1>2. CASE MakeVariable(h, v)
  <2>1. /\ False \in ConstsOf(KindOf[h]) /\ True \in ConstsOf(KindOf[h])
        /\ False.node = 0 /\ True.node = 0
    BY <1>2 DEF MakeVariable, ConstsOf, False, True, Const
  <2>2. Within(Live, False) /\ Within(Live, True)
    BY <2>1, ConstGood DEF Within
  <2>3. QED
    BY <1>2, <2>1, <2>2, ConstGood, GetNodeFrame DEF MakeVariable, Derived
<1>3. ASSUME NEW g1 \in Handles, NEW g2 \in Handles, GetNodeOf(h, v, g1, g2)
      PROVE  FrameNext(k, full)
  <2>1. /\ Good(KindOf[h], root[g1]) /\ Good(KindOf[h], root[g2])
        /\ Derived(KindOf[h], root[g1]) /\ Derived(KindOf[h], root[g2])
    BY <1>3, HeldDerives DEF GetNodeOf, IInv, HoldersGood, Holds
  <2>2. QED
    BY <1>3, <2>1, LiveFacts, GetNodeFrame DEF GetNodeOf
<1>4. ASSUME NEW g1 \in Handles, NEW g2 \in Handles,
             GetNodeFails(h, v, g1, g2)
      PROVE  FrameNext(k, full)
  <2>1. /\ UNCHANGED <<orderVars, root, cache, temps>>
        /\ MakeRolledBack(KindOf[h], v, root[g1], root[g2])
    BY <1>4 DEF GetNodeFails, opVars
  <2>2. Keeps(Allocated)
    BY <2>1, RolledBackKeeps DEF IInv
  <2>3. \A e : Holds(k, e)' => Holds(k, e)
    BY <2>1 DEF Holds
  <2>4. QED
    BY <2>2, <2>3, HandsOnAll, HeldDerives
<1>5. QED
  BY <1>1, <1>2, <1>3, <1>4
-----------------------------------------------------------------------------
LEMMA OpMakeFrame ==
  ASSUME IInv, NEW k \in Reducing, NEW S, NEW full \in BOOLEAN,
         Frame(k, S, full), full => SameLevels,
         NEW j \in Kinds, NEW v \in VarsUsed,
         NEW lo \in Held(j), NEW hi \in Held(j), OpMake(j, v, lo, hi)
  PROVE  FrameNext(k, full)
<1>1. /\ Accepts(j, v, lo, hi) /\ UNCHANGED <<orderVars, root, cache>>
      /\ \E r : Make(j, v, lo, hi, r) /\ Hold(j, r)
  BY DEF OpMake
<1>2. PICK r : Make(j, v, lo, hi, r) /\ Hold(j, r)
  BY <1>1
<1>3. Good(j, lo) /\ Good(j, hi) /\ Derived(j, lo) /\ Derived(j, hi)
  BY HeldGood, HeldDerives
<1>4. \A e : Holds(k, e)' => Holds(k, e) \/ (j = k /\ e = r)
  BY <1>1, <1>2 DEF Holds, Hold
<1>5. QED
  BY <1>1, <1>2, <1>3, <1>4, MakeFrame

\* Steps that only change local variables or the cache.
LEMMA OpLocalFrame ==
  ASSUME IInv, NEW k \in Reducing, NEW S, NEW full \in BOOLEAN,
         Frame(k, S, full), full => SameLevels, NEW j,
         \/ \E e \in HeldOnly(j) :
              \/ \E b \in {0, 1} : OpChild(j, e, b)
              \/ OpForget(j, e)
              \/ \E r \in Held(j) : OpCacheWrite(j, e, r)
         \/ \E c \in cache : OpCacheRead(c)
         \/ ShrinkCache \/ EnterGuard \/ LeaveGuard \/ OpThrows
         \/ UNCHANGED vars
  PROVE  FrameNext(k, full)
<1>1. ASSUME NEW e \in HeldOnly(j), NEW b \in {0, 1}, OpChild(j, e, b)
      PROVE  FrameNext(k, full)
  <2>1. /\ UNCHANGED <<orderVars, tableVars, root, cache>>
        /\ temps' = temps \cup {<<j, ChildOf(j, e, b)>>} /\ e.node # 0
    BY <1>1 DEF OpChild, Hold
  <2>2. Derived(j, ChildOf(j, e, b))
    BY <1>1, <2>1, HeldDerives DEF Derived
  <2>3. \A x : Holds(k, x)' => Holds(k, x) \/ (j = k /\ x = ChildOf(j, e, b))
    BY <2>1 DEF Holds
  <2>4. QED
    BY <2>1, <2>2, <2>3, HandsOnSame, HeldDerives
<1>2. ASSUME NEW e \in HeldOnly(j), OpForget(j, e)
      PROVE  FrameNext(k, full)
  <2>1. /\ UNCHANGED <<orderVars, tableVars, root, cache>>
        /\ temps' \subseteq temps
    BY <1>2 DEF OpForget
  <2>2. \A x : Holds(k, x)' => Holds(k, x)
    BY <2>1 DEF Holds
  <2>3. QED
    BY <2>1, <2>2, HandsOnSame, HeldDerives
<1>3. ASSUME NEW e \in HeldOnly(j), NEW r \in Held(j), OpCacheWrite(j, e, r)
      PROVE  FrameNext(k, full)
  <2>1. /\ UNCHANGED <<orderVars, tableVars, root, temps>>
        /\ \A c \in cache' : c \in cache \/ c = [kind |-> j, f |-> e, result |-> r]
    BY <1>3 DEF OpCacheWrite, opVars
  <2>2. Derived(j, e) /\ Derived(j, r)
    BY HeldDerives
  <2>3. \A x : Holds(k, x)' => Holds(k, x) \/ (j = k /\ x \in {e, r})
    BY <2>1 DEF Holds
  <2>4. QED
    BY <2>1, <2>2, <2>3, HandsOnSame, HeldDerives
<1>4. ASSUME NEW c \in cache, OpCacheRead(c)
      PROVE  FrameNext(k, full)
  <2>1. /\ UNCHANGED <<orderVars, tableVars, root, cache>>
        /\ temps' = temps \cup {<<c.kind, c.result>>}
    BY <1>4 DEF OpCacheRead, Hold
  <2>2. \A x : Holds(k, x)' => Holds(k, x)
    BY <2>1 DEF Holds
  <2>3. QED
    BY <2>1, <2>2, HandsOnSame, HeldDerives
<1>5. CASE ShrinkCache
  <2>1. UNCHANGED <<orderVars, tableVars, root, temps>> /\ cache' \subseteq cache
    BY <1>5 DEF ShrinkCache, opVars
  <2>2. \A x : Holds(k, x)' => Holds(k, x)
    BY <2>1 DEF Holds
  <2>3. QED
    BY <2>1, <2>2, HandsOnSame, HeldDerives
<1>6. CASE EnterGuard \/ LeaveGuard \/ OpThrows \/ UNCHANGED vars
  <2>1. /\ UNCHANGED <<orderVars, tableVars, root, cache>>
        /\ temps' \subseteq temps
    BY <1>6 DEF EnterGuard, LeaveGuard, OpThrows, EndedOp, vars, opVars
  <2>2. \A x : Holds(k, x)' => Holds(k, x)
    BY <2>1 DEF Holds
  <2>3. QED
    BY <2>1, <2>2, HandsOnSame, HeldDerives
<1>7. QED
  BY <1>1, <1>2, <1>3, <1>4, <1>5, <1>6

LEMMA OpBadAllocFrame ==
  ASSUME IInv, NEW k \in Reducing, NEW S, NEW full \in BOOLEAN,
         Frame(k, S, full), full => SameLevels,
         NEW j, NEW v, NEW lo, NEW hi, OpBadAlloc(j, v, lo, hi)
  PROVE  FrameNext(k, full)
<1>1. /\ UNCHANGED <<orderVars, root, cache>> /\ temps' = {}
      /\ MakeRolledBack(j, v, lo, hi)
  BY DEF OpBadAlloc, EndedOp
<1>2. Keeps(Allocated)
  BY <1>1, RolledBackKeeps DEF IInv
<1>3. \A e : Holds(k, e)' => Holds(k, e)
  BY <1>1 DEF Holds
<1>4. QED
  BY <1>2, <1>3, HandsOnAll, HeldDerives

LEMMA EndOpFrame ==
  ASSUME IInv, NEW k \in Reducing, NEW S, NEW full \in BOOLEAN,
         Frame(k, S, full), full => SameLevels,
         NEW h \in Handles, NEW x \in Held(KindOf[h]), EndOp(h, x)
  PROVE  FrameNext(k, full)
<1>1. /\ UNCHANGED <<orderVars, tableVars, cache>> /\ temps' = {}
      /\ root' = [root EXCEPT ![h] = x] /\ root \in [Handles -> Edges]
  BY DEF EndOp, EndedOp, IInv, HolderTypeOK
<1>2. ASSUME NEW e, Holds(k, e)'
      PROVE  Holds(k, e) \/ (KindOf[h] = k /\ e = x)
  BY <1>1, <1>2 DEF Holds
<1>3. \A e : Holds(k, e)' => Derived(k, e)
  BY <1>2, HeldDerives
<1>4. QED
  BY <1>1, <1>3, HandsOnSame

LEMMA OpStepFrame ==
  ASSUME IInv, NEW k \in Reducing, NEW S, NEW full \in BOOLEAN,
         Frame(k, S, full), full => SameLevels, OpStep
  PROVE  FrameNext(k, full)
<1>1. ASSUME NEW R \in SUBSET Handles, BeginOp(R)
      PROVE  FrameNext(k, full)
  BY <1>1, StartsFrame DEF BeginOp, Bddgc
<1>2. CASE EnterGuard \/ LeaveGuard \/ OpThrows
  BY <1>2, OpLocalFrame
<1>3. ASSUME NEW g \in Handles,
             \/ \E v \in VarsUsed, lo, hi \in Held(KindOf[g]) :
                  OpMake(KindOf[g], v, lo, hi) \/ OpBadAlloc(KindOf[g], v, lo, hi)
             \/ \E e \in HeldOnly(KindOf[g]) :
                  \/ \E b \in {0, 1} : OpChild(KindOf[g], e, b)
                  \/ OpForget(KindOf[g], e)
                  \/ \E r \in Held(KindOf[g]) : OpCacheWrite(KindOf[g], e, r)
      PROVE  FrameNext(k, full)
  <2>1. KindOf[g] \in Kinds
    BY DDManagerAssumption
  <2>2. QED
    BY <1>3, <2>1, OpMakeFrame, OpBadAllocFrame, OpLocalFrame
<1>4. ASSUME NEW c \in cache, OpCacheRead(c)
      PROVE  FrameNext(k, full)
  BY <1>4, OpLocalFrame
<1>5. ASSUME NEW h \in Handles, NEW e \in Held(KindOf[h]), EndOp(h, e)
      PROVE  FrameNext(k, full)
  BY <1>5, EndOpFrame
<1>6. CASE OpRetry
  BY <1>6, StartsFrame DEF OpRetry, Bddgc, IInv, HolderTypeOK
<1>7. QED
  BY <1>1, <1>2, <1>3, <1>4, <1>5, <1>6 DEF OpStep

-----------------------------------------------------------------------------
LEMMA CreateFrame ==
  ASSUME IInv, NEW k \in Reducing, NEW S, NEW full \in BOOLEAN,
         Frame(k, S, full), full => SameLevels,
         CreateVar \/ \E lev \in 1..(varcount + 1) : CreateVarOfLev(lev)
  PROVE  FrameNext(k, full)
<1>1. /\ UNCHANGED <<tableVars, root, temps>> /\ cache' \subseteq cache
      /\ NewVar \/ \E lev \in 1..(varcount + 1) : NewVarOfLev(lev)
  BY DEF CreateVar, CreateVarOfLev, opVars
<1>2. Keeps(Allocated)
  BY <1>1, NewVarKeeps DEF IInv
<1>3. \A e : Holds(k, e)' => Holds(k, e)
  BY <1>1 DEF Holds
<1>4. QED
  BY <1>2, <1>3, HandsOnAll, HeldDerives

\* Re-initialization is refused while an object refers to a node or to a
\* terminal of index 2 or more: the constants left are of every kind.
LEMMA ReinitFrame ==
  ASSUME IInv, NEW k \in Reducing, NEW S, NEW full \in BOOLEAN,
         Frame(k, S, full), full => SameLevels, Reinit
  PROVE  FrameNext(k, full)
<1>1. /\ UNCHANGED <<root, temps>> /\ cache' = {} /\ temps = {}
      /\ \A h \in Handles : root[h].node = 0
  BY DEF Reinit, opVars, IInv, HolderTypeOK
<1>2. ASSUME NEW e, Holds(k, e)'
      PROVE  Holds(k, e) /\ e.node = 0
  BY <1>1, <1>2 DEF Holds
<1>3. \A e : Holds(k, e)' => Fits(k, {}, e)
  BY <1>2 DEF Frame, Fits, OfKind
<1>4. Diagrams(k, {})' /\ Full({})'
  BY DEF Diagrams, Full
<1>5. QED
  BY <1>3, <1>4 DEF FrameNext, Frame

(***************************************************************************)
(* Every step hands the normal form of every kind on; and completeness,    *)
(* if it leaves the levels alone.                                          *)
(***************************************************************************)
LEMMA NextFrame ==
  ASSUME IInv, [Next]_vars, NEW k \in Reducing, NEW S, NEW full \in BOOLEAN,
         Frame(k, S, full), full => SameLevels
  PROVE  FrameNext(k, full)
<1>1. CASE Gc
  BY <1>1, GcFrame
<1>2. CASE ObjectStep
  BY <1>2, ObjectStepFrame
<1>3. CASE NodeStep
  BY <1>3, NodeStepFrame
<1>4. CASE OpStep
  BY <1>4, OpStepFrame
<1>5. CASE ShrinkCache \/ UNCHANGED vars
  BY <1>5, OpLocalFrame
<1>6. CASE CreateVar \/ \E lev \in 1..(varcount + 1) : CreateVarOfLev(lev)
  BY <1>6, CreateFrame
<1>7. CASE Reinit
  BY <1>7, ReinitFrame
<1>8. QED
  BY <1>1, <1>2, <1>3, <1>4, <1>5, <1>6, <1>7 DEF Next
-----------------------------------------------------------------------------
LEMMA PureFrames ==
  ASSUME KindsPure, NEW k \in Reducing
  PROVE  \E S : Frame(k, S, FALSE)
<1>1. PICK S \in SUBSET ReducedNodes : Diagrams(k, S) /\ HoldsOnly(k, S)
  BY DEF KindsPure
<1>2. \A e : Holds(k, e) => Fits(k, S, e)
  BY <1>1 DEF Holds, HoldsOnly, Fits
<1>3. QED
  BY <1>1, <1>2 DEF Frame

LEMMA FramesPure ==
  ASSUME \A k \in Reducing : FrameNext(k, FALSE), HolderTypeOK'
  PROVE  KindsPure'
<1> SUFFICES ASSUME NEW k \in Reducing
             PROVE  \E S \in (SUBSET ReducedNodes)' :
                      Diagrams(k, S)' /\ HoldsOnly(k, S)'
  BY DEF KindsPure
<1>1. PICK S : Diagrams(k, S)' /\ \A e : Holds(k, e)' => Fits(k, S, e)
  BY DEF FrameNext
<1>2. HoldsOnly(k, S)'
  <2>1. \A t \in temps' : t = <<t[1], t[2]>>
    BY DEF HolderTypeOK
  <2>2. QED
    BY <1>1, <2>1 DEF HoldsOnly, Holds, Fits
<1>3. QED
  BY <1>1, <1>2 DEF Diagrams

LEMMA PureStep == IInv /\ IInv' /\ KindsPure /\ [Next]_vars => KindsPure'
<1> SUFFICES ASSUME IInv, IInv', KindsPure, [Next]_vars
             PROVE  KindsPure'
  OBVIOUS
<1>1. ASSUME NEW k \in Reducing
      PROVE  FrameNext(k, FALSE)
  <2>1. PICK S : Frame(k, S, FALSE)
    BY PureFrames
  <2>2. QED
    BY <2>1, NextFrame
<1>2. QED
  BY <1>1, FramesPure DEF IInv

LEMMA InitPure == Init => KindsPure
<1> SUFFICES ASSUME Init, NEW k \in Reducing
             PROVE  Diagrams(k, {}) /\ HoldsOnly(k, {})
  BY DEF KindsPure
<1>1. QED
  BY DEF Init, Diagrams, HoldsOnly

(***************************************************************************)
(* The kinds stay apart in the table they share: all that is held of a     *)
(* kind is in the normal form the getnode of that kind makes, all the way  *)
(* down, whatever nodes of other kinds are found, freed and reused         *)
(* (getnode_raw and the getnode functions above it).                       *)
(***************************************************************************)
THEOREM KindsAlwaysPure == Spec => []KindsPure
<1>1. IInv /\ IInv' /\ KindsPure /\ [Next]_vars => KindsPure'
  BY PureStep
<1>2. QED
  BY Invariance, InitPure, <1>1, PTL DEF Spec

-----------------------------------------------------------------------------
(***************************************************************************)
(* The nodes that complete QDDs are made of.                               *)
(***************************************************************************)
LEMMA CompletePart ==
  ASSUME StoreInv, NEW S, Diagrams("qdd", S), NEW H,
         \A e \in H : Fits("qdd", S, e) /\ Complete(e)
  PROVE  \E S2 : /\ Diagrams("qdd", S2) /\ Full(S2)
                 /\ \A e \in H : Fits("qdd", S2, e)
<1> DEFINE S2 == {n \in S : \E e \in H : n \in Reach({e.node})}
<1>1. S \subseteq Allocated /\ used \in Nat /\ Allocated \subseteq 1..used
  BY NodeTableAssumption
     DEF Diagrams, ReducedNodes, Allocated, StoreInv, NodeTableTypeOK
<1>2. ASSUME NEW e \in H, e.node # 0
      PROVE  e.node \in S /\ e.node \in Reach({e.node})
  <2>1. OfKind("qdd", S, e)
    BY <1>2 DEF Fits, Null, Const
  <2>2. e.node \in S
    BY <1>2, <2>1 DEF OfKind
  <2>3. {e.node} \cap (1..used) \subseteq Allocated /\ e.node \in 1..used
    BY <1>1, <2>2
  <2>4. QED
    BY <2>2, <2>3, ReachFacts DEF StoreInv
<1>3. \A e \in H : Fits("qdd", S2, e)
  BY <1>2 DEF Fits, OfKind
<1>4. ASSUME NEW n \in S2, NEW c \in {nodes[n].lo, nodes[n].hi}
      PROVE  /\ OfKind("qdd", S2, c)
             /\ Level(c) = var2level[nodes[n].var] - 1
  <2>1. PICK e \in H : n \in Reach({e.node})
    OBVIOUS
  <2>2. n \in S /\ OfKind("qdd", S, c)
    BY DEF Diagrams
  <2>3. Level(c) = var2level[nodes[n].var] - 1
    BY <2>1 DEF Complete
  <2>4. ASSUME c.node # 0
        PROVE  c.node \in Reach({e.node})
    <3>1. c.node \in 1..used /\ c.node \in Children(n)
      BY <1>1, <2>2, <2>4 DEF OfKind, Children
    <3>2. QED
      BY <2>1, <3>1 DEF Reach, Closed
  <2>5. QED
    BY <2>1, <2>2, <2>3, <2>4 DEF OfKind
<1>5. \A n \in S2 : NormalPair("qdd", nodes[n].lo, nodes[n].hi)
  BY DEF Diagrams
<1>6. S2 \subseteq ReducedNodes
  BY DEF Diagrams
<1> HIDE DEF S2
<1>7. Diagrams("qdd", S2) /\ Full(S2)
  BY <1>4, <1>5, <1>6 DEF Diagrams, Full
<1>8. QED
  BY <1>3, <1>7

(***************************************************************************)
(* Two objects of a class that mean the same have the same root: operator==*)
(* compares functions, families and QDDs of one height by comparing edges. *)
(***************************************************************************)
LEMMA PureIsCanonical == IInv /\ KindsPure => Canonical
<1> SUFFICES ASSUME IInv, KindsPure, NEW h \in Handles, NEW g \in Handles,
                    Comparable(h, g), Meaning(h) = Meaning(g)
             PROVE  root[h] = root[g]
  BY DEF Canonical
<1>1. PICK k : k = KindOf[h]
  OBVIOUS
<1>2. k \in Reducing /\ KindOf[g] = k /\ root[h] # Null /\ root[g] # Null
  BY <1>1, DDManagerAssumption DEF Comparable, Meaningful, Reducing
<1>3. PICK S : Frame(k, S, FALSE)
  BY <1>2, PureFrames
<1>4. Diagrams(k, S) /\ OfKind(k, S, root[h]) /\ OfKind(k, S, root[g])
  BY <1>1, <1>2, <1>3 DEF Frame, Holds, Fits
<1>5. PICK S2 : /\ Diagrams(k, S2) /\ (k = "qdd" => Full(S2))
                /\ OfKind(k, S2, root[h]) /\ OfKind(k, S2, root[g])
  <2>1. CASE k = "qdd"
    <3>0. PICK H : H = {root[h], root[g]}
      OBVIOUS
    <3>1. \A e \in H : Fits("qdd", S, e) /\ Complete(e)
      BY <1>1, <1>4, <2>1, <3>0 DEF Fits, Comparable
    <3>2. PICK S2 : /\ Diagrams("qdd", S2) /\ Full(S2)
                    /\ \A e \in H : Fits("qdd", S2, e)
      BY <1>4, <2>1, <3>1, CompletePart DEF IInv
    <3>3. OfKind(k, S2, root[h]) /\ OfKind(k, S2, root[g])
      BY <1>2, <2>1, <3>0, <3>2 DEF Fits
    <3>4. QED
      BY <2>1, <3>2, <3>3
  <2>2. CASE k # "qdd"
    BY <1>4, <2>2
  <2>3. QED
    BY <2>1, <2>2
<1>6. \A a \in Assignments : Value(k, root[h], a) = Value(k, root[g], a)
  <2> SUFFICES ASSUME NEW a \in Assignments
               PROVE  Value(k, root[h], a) = Value(k, root[g], a)
    OBVIOUS
  <2>1. Meaning(h)[a] = Meaning(g)[a]
    OBVIOUS
  <2>2. QED
    BY <1>1, <1>2, <2>1 DEF Meaning
<1>7. Twins(k, S2, root[h], root[g])
  BY <1>1, <1>5, <1>6 DEF Twins, Comparable
<1>8. QED
  BY <1>2, <1>5, <1>7, TwinsAreEqual DEF IInv

(***************************************************************************)
(* Two objects of one class hold the same diagram exactly when they hold   *)
(* the same function or family: equality of diagrams is the comparison of  *)
(* two root edges, whatever was made, freed and moved before.              *)
(***************************************************************************)
THEOREM AlwaysCanonical == Spec => []Canonical
BY Invariance, KindsAlwaysPure, PureIsCanonical, PTL
-----------------------------------------------------------------------------
LEMMA OrderSteps == [Next]_vars => [VarOrderNext]_orderVars
<1>1. CASE Gc \/ ShrinkCache \/ UNCHANGED vars
  BY <1>1 DEF Gc, ShrinkCache, vars
<1>2. CASE ObjectStep
  BY <1>2 DEF ObjectStep, Construct, Copy, Move, Destroy, Negate, TakeChild,
              SetChild, SetRoot
<1>3. CASE NodeStep
  BY <1>3 DEF NodeStep, MakeVariable, GetNodeOf, GetNodeFails, GetNode
<1>4. CASE OpStep
  <2>1. ASSUME NEW S, BeginOp(S)
        PROVE  UNCHANGED orderVars
    BY <2>1 DEF BeginOp
  <2>2. ASSUME NEW k, NEW v, NEW lo, NEW hi,
               OpMake(k, v, lo, hi) \/ OpBadAlloc(k, v, lo, hi)
        PROVE  UNCHANGED orderVars
    BY <2>2 DEF OpMake, OpBadAlloc
  <2>3. ASSUME NEW k, NEW e, NEW b, NEW r,
               OpChild(k, e, b) \/ OpForget(k, e) \/ OpCacheWrite(k, e, r)
        PROVE  UNCHANGED orderVars
    BY <2>3 DEF OpChild, OpForget, OpCacheWrite
  <2>4. ASSUME NEW x, NEW h, NEW e,
               OpCacheRead(x) \/ EndOp(h, e) \/ EnterGuard \/ LeaveGuard
               \/ OpRetry \/ OpThrows
        PROVE  UNCHANGED orderVars
    BY <2>4 DEF OpCacheRead, EndOp, EnterGuard, LeaveGuard, OpRetry, OpThrows
  <2>5. QED
    BY <1>4, <2>1, <2>2, <2>3, <2>4 DEF OpStep
<1>5. CASE CreateVar \/ \E lev \in 1..(varcount + 1) : CreateVarOfLev(lev)
  BY <1>5 DEF CreateVar, CreateVarOfLev, VarOrderNext
<1>6. CASE Reinit
  BY <1>6 DEF Reinit, VarOrderNext
<1>7. QED
  BY <1>1, <1>2, <1>3, <1>4, <1>5, <1>6 DEF Next

(***************************************************************************)
(* The package implements the specification of the variable order: no      *)
(* operation, collection or retry touches it.                              *)
(***************************************************************************)
THEOREM ImplementsVarOrder == Spec => VarOrderSpec
<1>1. Init => VarOrderInit
  BY DEF Init
<1>2. QED
  BY <1>1, OrderSteps, PTL DEF Spec, VarOrderSpec

\* Unless the package is re-initialized, variables stay in their order.
LEMMA OrderKept ==
  ASSUME IInv, [Next]_vars, varcount' >= varcount
  PROVE  /\ VarsUsed \subseteq VarsUsed'
         /\ \A u, v \in VarsUsed :
              (var2level[u] < var2level[v]) <=> (var2level'[u] < var2level'[v])
<1>1. VarOrderTypeOK /\ varcount \in Nat
  BY VarMaxAssumption DEF IInv, VarOrderInv, VarOrderTypeOK
<1>2. CASE UNCHANGED orderVars
  BY <1>2 DEF orderVars, VarsUsed
<1>3. CASE VarOrderNext
  <2>1. RelativeOrderStep
    BY <1>1, <1>3, NeverSwapped
  <2>2. varcount' \in Nat
    BY <1>1, <1>3 DEF VarOrderNext, NewVar, NewVarOfLev, ForgetVars
  <2>3. CASE varcount' = 0
    <3>1. VarsUsed = {}
      BY <1>1, <2>3 DEF VarsUsed
    <3>2. QED
      BY <3>1
  <2>4. CASE varcount' # 0
    BY <1>1, <2>1, <2>2, <2>4 DEF RelativeOrderStep, VarsUsed
  <2>5. QED
    BY <2>3, <2>4
<1>4. QED
  BY <1>2, <1>3, OrderSteps

\* What the meaning of an object is, said for a fixed edge.
MeaningIs ==
  \A h \in Handles : \A e : e = root[h] =>
    \A a \in Assignments : Meaning(h)[a] = Value(KindOf[h], e, a)

LEMMA MeaningDef == MeaningIs
BY DEF MeaningIs, Meaning

LEMMA MeaningDefNext == MeaningIs'
BY MeaningDef, PTL

LEMMA MeaningStaysPut == IInv /\ IInv' /\ [Next]_vars => MeaningStep
<1> SUFFICES ASSUME IInv, IInv', [Next]_vars, varcount' >= varcount,
                    NEW h \in Handles, Meaningful(h), root'[h] = root[h],
                    NEW a \in Assignments
             PROVE  Meaning(h)'[a] = Meaning(h)[a]
  BY DEF MeaningStep
<1>1. PICK A : A = Live \cap ReducedNodes
  OBVIOUS
<1>2. A \in SUBSET ReducedNodes /\ SelfContained(A)
  <2>1. SelfContained(ReducedNodes) /\ SelfContained(Live)
    BY ReducedClosed, LiveFacts DEF IInv
  <2>2. QED
    BY <1>1, <2>1 DEF SelfContained, Within
<1>3. \A n \in A : nodes'[n] = nodes[n]
  <2>1. LiveNodesStep
    BY NextSafe, StutterSafe DEF Safe
  <2>2. QED
    BY <1>1, <2>1 DEF LiveNodesStep, ReducedNodes
<1>4. PICK e : e = root[h]
  OBVIOUS
<1>5. Within(A, e)
  <2>1. Within(Live, e) /\ Good(KindOf[h], e)
    BY <1>4, LiveFacts DEF IInv, HoldersGood
  <2>2. e.node # 0 => e.node \in ReducedNodes
    BY <1>4, <2>1
       DEF Good, Sound, ReducedKind, IsReduced, ReducedNodes, Meaningful
  <2>3. QED
    BY <1>1, <2>1, <2>2 DEF Within
<1>6. /\ VarOrderInv /\ StoreInv /\ VarOrderInv' /\ StoreInv'
      /\ VarsUsed \subseteq VarsUsed'
      /\ \A u, v \in VarsUsed :
           (var2level[u] < var2level[v]) <=> (var2level'[u] < var2level'[v])
  BY OrderKept DEF IInv
<1>7. Value(KindOf[h], e, a)' = Value(KindOf[h], e, a)
  BY <1>2, <1>3, <1>5, <1>6, ValueKept
<1>8. Meaning(h)[a] = Value(KindOf[h], e, a)
  BY <1>4, MeaningDef DEF MeaningIs
<1>9. Meaning(h)'[a] = Value(KindOf[h], e, a)'
  <2>1. a \in Assignments'
    BY <1>6 DEF Assignments
  <2>2. QED
    BY <1>4, <2>1, MeaningDefNext DEF MeaningIs
<1>10. QED
  BY <1>7, <1>8, <1>9

(***************************************************************************)
(* An object means the same until it is assigned to: collections, nodes    *)
(* made in freed slots, retries of an operation and variables created      *)
(* anywhere in the order do not change the value of any assignment.        *)
(***************************************************************************)
THEOREM MeaningAlwaysKept == Spec => MeaningKept
<1>1. IInv /\ IInv' /\ [Next]_vars => [MeaningStep]_vars
  BY MeaningStaysPut
<1>2. QED
  BY Invariance, <1>1, PTL DEF Spec, MeaningKept

-----------------------------------------------------------------------------
\* Who holds a QDD, and the diagrams it is complete for.
HeldComplete == \A e : Holds("qdd", e) => Complete(e)

CompleteUnder ==
  \A S, e : Diagrams("qdd", S) /\ Full(S) /\ Fits("qdd", S, e) => Complete(e)

LEMMA CompleteHeld == HolderTypeOK => (HeldComplete <=> QddsComplete)
<1> SUFFICES ASSUME HolderTypeOK PROVE HeldComplete <=> QddsComplete
  OBVIOUS
<1>1. \A t \in temps : t = <<t[1], t[2]>>
  BY DEF HolderTypeOK
<1>2. QED
  BY <1>1 DEF HeldComplete, QddsComplete, Holds

LEMMA CompleteHeldNext == HolderTypeOK' => (HeldComplete' <=> QddsComplete')
BY CompleteHeld, PTL

LEMMA FullIsComplete == StoreInv => CompleteUnder
<1> SUFFICES ASSUME StoreInv, NEW S, NEW e,
                    Diagrams("qdd", S), Full(S), Fits("qdd", S, e),
                    NEW n \in Reach({e.node})
             PROVE  n \in S
  BY DEF CompleteUnder, Complete, Full
<1>1. S \in SUBSET (1..used) /\ used \in Nat
  BY NodeTableAssumption
     DEF Diagrams, ReducedNodes, Allocated, StoreInv, NodeTableTypeOK
<1>2. Closed(S)
  <2> SUFFICES ASSUME NEW m \in S, NEW c \in {nodes[m].lo, nodes[m].hi},
                      c.node \in 1..used
               PROVE  c.node \in S
    BY DEF Closed, Children
  <2>1. OfKind("qdd", S, c)
    BY DEF Diagrams
  <2>2. QED
    BY <1>1, <2>1 DEF OfKind
<1>3. {e.node} \cap (1..used) \subseteq S
  BY <1>1 DEF Fits, OfKind, Null, Const
<1>4. QED
  BY <1>1, <1>2, <1>3 DEF Reach

LEMMA FullIsCompleteNext == StoreInv' => CompleteUnder'
BY FullIsComplete, PTL

LEMMA CompletenessKept ==
  IInv /\ IInv' /\ KindsPure /\ [Next]_vars =>
    (NothingInserted /\ QddsComplete => QddsComplete')
<1> SUFFICES ASSUME IInv, IInv', KindsPure, [Next]_vars,
                    NothingInserted, QddsComplete
             PROVE  QddsComplete'
  OBVIOUS
<1>1. "qdd" \in Reducing
  BY DEF Reducing, Kinds
<1>2. PICK S : Frame("qdd", S, FALSE)
  BY <1>1, PureFrames
<1>3. PICK H : H = {e \in Edges : Holds("qdd", e)}
  OBVIOUS
<1>4. \A e : Holds("qdd", e) => e \in H
  BY <1>3 DEF Holds, IInv, HolderTypeOK, CacheRecs
<1>5. \A e \in H : Fits("qdd", S, e) /\ Complete(e)
  BY <1>2, <1>3, CompleteHeld DEF Frame, HeldComplete, IInv
<1>6. PICK S2 : /\ Diagrams("qdd", S2) /\ Full(S2)
                /\ \A e \in H : Fits("qdd", S2, e)
  BY <1>2, <1>5, CompletePart DEF Frame, IInv
<1>7. Frame("qdd", S2, TRUE)
  BY <1>4, <1>6 DEF Frame
<1>8. FrameNext("qdd", TRUE)
  BY <1>1, <1>7, NextFrame DEF NothingInserted, SameLevels
<1>9. PICK S3 : /\ Diagrams("qdd", S3)' /\ Full(S3)'
                /\ \A e : Holds("qdd", e)' => Fits("qdd", S3, e)
  BY <1>8 DEF FrameNext
<1>10. CompleteUnder'
  BY FullIsCompleteNext DEF IInv
<1>11. HeldComplete'
  <2> SUFFICES ASSUME NEW e, Holds("qdd", e)'
               PROVE  Complete(e)'
    BY DEF HeldComplete
  <2>1. Fits("qdd", S3, e)
    BY <1>9
  <2>2. Fits("qdd", S3, e)'
    BY <2>1 DEF Fits
  <2>3. QED
    BY <1>9, <1>10, <2>2 DEF CompleteUnder
<1>12. QED
  BY <1>11, CompleteHeldNext DEF IInv

(***************************************************************************)
(* A QDD loses a level only when a variable is inserted below its root:    *)
(* creation on top, collections, reused slots, retries and the cache keep  *)
(* every QDD complete (QDD::getnode, and KNOWN_ISSUES.md:95 on the rest).  *)
(***************************************************************************)
THEOREM QddsAlwaysStayComplete == Spec => QddsStayComplete
<1>1. IInv /\ IInv' /\ KindsPure /\ [Next]_vars =>
        [NothingInserted /\ QddsComplete => QddsComplete']_vars
  BY CompletenessKept
<1>2. QED
  BY Invariance, KindsAlwaysPure, <1>1, PTL DEF Spec, QddsStayComplete
=============================================================================
