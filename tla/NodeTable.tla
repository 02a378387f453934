------------------------------ MODULE NodeTable ------------------------------
(***************************************************************************)
(* The shared node table of src/src/bdd_base.cpp: the node array with its  *)
(* free slots, the unique tables, and the node constructors of the six     *)
(* kinds of diagram that live in it.                                       *)
(*                                                                         *)
(* An edge (a bddp) is [node, comp].  Slot numbers are 1..NodeMax (the     *)
(* code's id is twice that) and comp is the complement bit.  node = 0      *)
(* stands for the constant flag; comp is then the terminal's index, 0 for  *)
(* bddfalse/bddempty, 1 for bddtrue/bddsingle, more for the further        *)
(* terminals of MTBDD and MTZDD.  bddnull is the constant of index -1.     *)
(*                                                                         *)
(* The intrusive free list is the set of its slots: the order in which     *)
(* slots are handed out is left open.  The content of a slot that holds no *)
(* node is Junk.                                                           *)
(***************************************************************************)
EXTENDS VarOrder

CONSTANTS
  NodeMax,      \* bdd_node_max, the capacity the array may grow to
  InitCount,    \* the capacity bddinit starts with
  TermMax       \* greatest index of a terminal

ASSUME NodeTableAssumption ==
  /\ NodeMax \in Nat \ {0}
  /\ InitCount \in 1..NodeMax
  /\ TermMax \in Nat \ {0}

VARIABLES
  nodes,        \* bdd_nodes: the content of every slot
  used,         \* bdd_node_used: slots 1..used have been handed out once
  count,        \* bdd_node_count: the current capacity
  free,         \* the slots on the free list
  table         \* the slots entered in the unique table of their variable

tableVars == <<nodes, used, count, free, table>>

Kinds == {"bdd", "zdd", "qdd", "mtbdd", "mtzdd", "unreduced"}

Slots == 1..NodeMax
Consts == [node : {0}, comp : -1..TermMax]
Edges == Consts \cup [node : Slots, comp : {0, 1}]

Const(i) == [node |-> 0, comp |-> i]
False == Const(0)
True == Const(1)
Null == Const(-1)

NodeRecs == [var : 0..VarMax, lo : Edges, hi : Edges, red : BOOLEAN]
Junk == [var |-> 0, lo |-> Null, hi |-> Null, red |-> FALSE]

Allocated == (1..used) \ free

\* The constants a diagram of kind k may end in.
ConstsOf(k) ==
  IF k \in {"mtbdd", "mtzdd"} THEN [node : {0}, comp : 0..TermMax]
  ELSE {False, True}

\* bddnot: flips the complement bit, or the index of a constant.
Not(e) == IF e.comp \in {0, 1} THEN [e EXCEPT !.comp = 1 - @] ELSE e

IsReduced(e) == IF e.node = 0 THEN e # Null ELSE nodes[e.node].red

\* The level of an edge: constants are below every variable.
Level(e) == IF e.node = 0 THEN 0 ELSE var2level[nodes[e.node].var]

\* The child of edge e on side b, its complement resolved by the kind.
ChildOf(k, e, b) ==
  LET child == IF b = 0 THEN nodes[e.node].lo ELSE nodes[e.node].hi
  IN  IF e.comp = 1 /\ (k \in {"bdd", "qdd"} \/ (k = "zdd" /\ b = 0))
      THEN Not(child) ELSE child

NodeTableInit ==
  /\ nodes = [n \in Slots |-> Junk]
  /\ used = 0
  /\ count = InitCount
  /\ free = {}
  /\ table = {}

-----------------------------------------------------------------------------
(***************************************************************************)
(* allocate_node.  The free list comes first, then the part of the array   *)
(* never used, then node_array_grow, which doubles the capacity.           *)
(***************************************************************************)
GrownCount == IF 2 * count > NodeMax THEN NodeMax ELSE 2 * count

AllocateFromFree(n) ==
  /\ n \in free
  /\ free' = free \ {n}
  /\ UNCHANGED <<used, count>>

\* Mutant: the array grows, and the last slot in use is handed out again.
AllocateFreshAgain(n) ==
  /\ free = {}
  /\ \/ used < count /\ n = used + 1 /\ count' = count
     \/ used = count /\ count < NodeMax /\ n = used /\ count' = GrownCount
  /\ used' = n
  /\ UNCHANGED free

AllocateFresh(n) ==
  /\ free = {}
  /\ n = used + 1
  /\ \/ used < count /\ count' = count
     \/ used = count /\ count < NodeMax /\ count' = GrownCount
  /\ used' = n
  /\ UNCHANGED free

Allocate(n) == AllocateFromFree(n) \/ AllocateFresh(n)

\* Nothing is left but to collect garbage.
Exhausted == free = {} /\ used = count /\ count = NodeMax

-----------------------------------------------------------------------------
\* Mutant: ZDD nodes are left out by the rule of BDD nodes.
RedundantAsBdd(k, lo, hi) ==
  k \in {"bdd", "mtbdd", "zdd", "mtzdd"} /\ lo = hi

(***************************************************************************)
(* The normal form each kind of node is stored in: the rule that makes a   *)
(* node unnecessary, and the edges a complemented lo edge flips (both of a *)
(* BDD or QDD node, only lo of a ZDD node, none of the multi-terminal      *)
(* ones, which have no complement edges).                                  *)
(***************************************************************************)
Redundant(k, lo, hi) ==
  \/ k \in {"bdd", "mtbdd"} /\ lo = hi
  \/ k \in {"zdd", "mtzdd"} /\ hi = False

\* Mutant: constants keep their complement on a lo edge.
FlipsNodesOnly(k, lo) ==
  k \in {"bdd", "zdd", "qdd"} /\ lo.comp = 1 /\ lo.node # 0

Flips(k, lo) == k \in {"bdd", "zdd", "qdd"} /\ lo.comp = 1

NormalLo(k, lo) == IF Flips(k, lo) THEN Not(lo) ELSE lo
NormalHi(k, lo, hi) ==
  IF Flips(k, lo) /\ k \in {"bdd", "qdd"} THEN Not(hi) ELSE hi

Ref(k, lo, n) == [node |-> n, comp |-> IF Flips(k, lo) THEN 1 ELSE 0]

\* What a getnode of kind k can return.
Results(k, lo) == {lo} \cup {Ref(k, lo, n) : n \in Slots}

\* Mutant: the level check is off by one.
AcceptsSameLevel(k, v, lo, hi) ==
  /\ v \in VarsUsed
  /\ k # "unreduced" => Null \notin {lo, hi}
  /\ k \in {"bdd", "zdd"} => lo.comp \in {0, 1} /\ hi.comp \in {0, 1}
  /\ k \in {"mtbdd", "mtzdd"} =>
       \A e \in {lo, hi} : e.node # 0 => e.comp = 0
  /\ \A e \in {lo, hi} : Level(e) <= var2level[v]

\* The arguments the getnode of kind k accepts; it throws on all others.
Accepts(k, v, lo, hi) ==
  /\ v \in VarsUsed
  /\ k # "unreduced" => Null \notin {lo, hi}
  /\ k \in {"bdd", "zdd"} => lo.comp \in {0, 1} /\ hi.comp \in {0, 1}
  /\ k \in {"mtbdd", "mtzdd"} =>
       \A e \in {lo, hi} : e.node # 0 => e.comp = 0
  /\ k \in {"bdd", "zdd", "mtbdd", "mtzdd"} =>
       \A e \in {lo, hi} : Level(e) < var2level[v]
  /\ k = "qdd" => \A e \in {lo, hi} : Level(e) = var2level[v] - 1

NewRec(k, v, lo, hi) ==
  [var |-> v, lo |-> NormalLo(k, lo), hi |-> NormalHi(k, lo, hi),
   red |-> k # "unreduced" /\ IsReduced(lo) /\ IsReduced(hi)]

\* BDD_UniqueTableLookup: the slots entered under (v, lo, hi).
Lookup(v, lo, hi) ==
  {n \in table : nodes[n].var = v /\ nodes[n].lo = lo /\ nodes[n].hi = hi}

\* Mutant: the table is searched for the children before normalization.
ExistingAsGiven(k, v, lo, hi) ==
  IF k = "unreduced" THEN {} ELSE Lookup(v, lo, hi)

\* Unreduced nodes are created without looking into the unique table.
Existing(k, v, lo, hi) ==
  IF k = "unreduced" THEN {}
  ELSE Lookup(v, NormalLo(k, lo), NormalHi(k, lo, hi))

(***************************************************************************)
(* getnode_raw: r is the edge returned.  The three cases are the reduction *)
(* rule, a node found in the unique table, and a node written to a new     *)
(* slot n and entered in the unique table of its variable.                 *)
(***************************************************************************)
MakeRedundant(k, lo, hi, r) ==
  /\ Redundant(k, lo, hi)
  /\ r = lo
  /\ UNCHANGED tableVars

MakeFound(k, v, lo, hi, r) ==
  /\ ~ Redundant(k, lo, hi)
  /\ \E n \in Existing(k, v, lo, hi) : r = Ref(k, lo, n)
  /\ UNCHANGED tableVars

MakeNew(k, v, lo, hi, r) ==
  /\ ~ Redundant(k, lo, hi)
  /\ Existing(k, v, lo, hi) = {}
  /\ \E n \in Slots :
       /\ Allocate(n)
       /\ nodes' = [nodes EXCEPT ![n] = NewRec(k, v, lo, hi)]
       /\ table' = IF k = "unreduced" THEN table ELSE table \cup {n}
       /\ r = Ref(k, lo, n)

Make(k, v, lo, hi, r) ==
  \/ MakeRedundant(k, lo, hi, r)
  \/ MakeFound(k, v, lo, hi, r)
  \/ MakeNew(k, v, lo, hi, r)

(***************************************************************************)
(* BDD_UniqueTableInsert throws when its table cannot be enlarged, and     *)
(* getnode_raw gives the slot back: the last slot of the used part shrinks *)
(* that part, any other slot goes on the free list.  A capacity that has   *)
(* grown stays grown.                                                      *)
(***************************************************************************)
MakeRolledBack(k, v, lo, hi) ==
  /\ k # "unreduced"
  /\ ~ Redundant(k, lo, hi)
  /\ Existing(k, v, lo, hi) = {}
  /\ \/ \E n \in free :
          IF n = used
          THEN used' = used - 1 /\ free' = free \ {n}
          ELSE UNCHANGED <<used, free>>
     \/ free = {} /\ ~ Exhausted /\ UNCHANGED <<used, free>>
  /\ count' = IF free = {} /\ used = count THEN GrownCount ELSE count
  /\ UNCHANGED <<nodes, table>>

\* set_child0 and set_child1 of an unreduced node overwrite it in place.
Overwrite(n, rec) ==
  /\ n \in Slots
  /\ nodes' = [nodes EXCEPT ![n] = rec]
  /\ UNCHANGED <<used, count, free, table>>

-----------------------------------------------------------------------------
(***************************************************************************)
(* The mark phase visits everything reachable from the roots, each slot    *)
(* once, and ignores constants and ids beyond the used part of the array:  *)
(* the marked slots are the least set that holds the roots and is closed   *)
(* under children.                                                         *)
(***************************************************************************)
\* Mutant: only the lo side is visited.
LoChildOnly(n) == {nodes[n].lo.node} \cap (1..used)

Children(n) == {nodes[n].lo.node, nodes[n].hi.node} \cap (1..used)

Closed(S) == \A n \in S : Children(n) \subseteq S

Reach(R) ==
  {n \in 1..used :
     \A S \in SUBSET (1..used) :
        R \cap (1..used) \subseteq S /\ Closed(S) => n \in S}

\* Mutant: unreduced nodes are entered in the unique tables as well.
SweepEntersAll(live) ==
  /\ nodes' = [n \in Slots |->
                 IF n \in live \/ n > used THEN nodes[n] ELSE Junk]
  /\ table' = live
  /\ free' = (1..used) \ live
  /\ UNCHANGED <<used, count>>

(***************************************************************************)
(* The sweep rebuilds the unique tables from the marked slots (the reduced *)
(* ones: the others were never entered) and puts every other used slot on  *)
(* the free list.                                                          *)
(***************************************************************************)
Sweep(live) ==
  /\ nodes' = [n \in Slots |->
                 IF n \in live \/ n > used THEN nodes[n] ELSE Junk]
  /\ table' = {n \in live : nodes[n].red}
  /\ free' = (1..used) \ live
  /\ UNCHANGED <<used, count>>

\* allocate_node at depth 0 with nothing left: the collection, then the
\* first slot it freed.
MakeAfterSweep(live, k, v, lo, hi, r) ==
  /\ ~ Redundant(k, lo, hi)
  /\ Existing(k, v, lo, hi) = {}
  /\ Exhausted
  /\ \E n \in (1..used) \ live :
       /\ nodes' = [m \in Slots |->
                      IF m = n THEN NewRec(k, v, lo, hi)
                      ELSE IF m \in live \/ m > used THEN nodes[m] ELSE Junk]
       /\ table' = {m \in live : nodes[m].red} \cup
                   (IF k = "unreduced" THEN {} ELSE {n})
       /\ free' = (1..used) \ (live \cup {n})
       /\ r = Ref(k, lo, n)
  /\ UNCHANGED <<used, count>>

\* bddfinal and bddinit.
ResetTable ==
  /\ nodes' = [n \in Slots |-> Junk]
  /\ used' = 0
  /\ count' = InitCount
  /\ free' = {}
  /\ table' = {}

-----------------------------------------------------------------------------
NodeTableTypeOK ==
  /\ nodes \in [Slots -> NodeRecs]
  /\ count \in 1..NodeMax
  /\ used \in 0..count
  /\ free \subseteq 1..used
  /\ table \subseteq Allocated

\* Where an edge may point: to a constant or to a slot that holds a node.
Sound(e) == e \in Edges /\ (e.node # 0 => e.node \in Allocated)

ChildrenSound ==
  \A n \in Allocated :
    nodes[n].var \in VarsUsed /\ Sound(nodes[n].lo) /\ Sound(nodes[n].hi)

ReducedNodes == {n \in Allocated : nodes[n].red}

(***************************************************************************)
(* Sharing is maximal: at most one reduced node for each variable and pair *)
(* of children.  Equality of roots decides equality of diagrams only if    *)
(* this holds through allocation, collection and rollback.                 *)
(***************************************************************************)
NoDuplicates ==
  \A m, n \in ReducedNodes :
    /\ nodes[m].var = nodes[n].var
    /\ nodes[m].lo = nodes[n].lo
    /\ nodes[m].hi = nodes[n].hi
    => m = n

(***************************************************************************)
(* The unique tables hold the reduced nodes and nothing else: a node that  *)
(* were missing would be made twice, a node too many would be handed out   *)
(* after it was freed.                                                     *)
(***************************************************************************)
TableExact == table = ReducedNodes

(***************************************************************************)
(* Reduced nodes are ordered and have reduced children, although variables *)
(* are inserted between existing ones and slots are reused.                *)
(***************************************************************************)
Ordered ==
  \A n \in ReducedNodes :
    \A e \in {nodes[n].lo, nodes[n].hi} :
      IsReduced(e) /\ Level(e) < var2level[nodes[n].var]

StoreInv ==
  /\ NodeTableTypeOK
  /\ ChildrenSound
  /\ NoDuplicates
  /\ TableExact
  /\ Ordered
=============================================================================
