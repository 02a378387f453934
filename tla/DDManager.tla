------------------------------ MODULE DDManager ------------------------------
(***************************************************************************)
(* The package as its clients see it: diagram objects (DDBase and its      *)
(* subclasses) that register their root with the collector, the operation  *)
(* cache, and the bracket every operation runs in (bdd_gc_guard).          *)
(*                                                                         *)
(* What an operation computes is left open here.  All its code can do is   *)
(* modelled: descend from its operands, call getnode_raw, read and write   *)
(* the cache, hold the edges it got in local variables (temps), return one *)
(* of them, or leave by an exception.  The kinds are the C++ classes: an   *)
(* operation builds nodes of a kind from edges of that kind.               *)
(***************************************************************************)
EXTENDS Semantics, FiniteSets

CONSTANTS
  Handles,      \* the diagram objects of the program
  KindOf,       \* their classes
  GcLimit,      \* bdd_node_max * bdd_gc_threshold, rounded down
  DepthMax,     \* bound on the nesting of guards (0: no operation runs)
  TempMax,      \* bound on the edges an operation holds at a time
  CacheMax      \* number of slots of the operation cache

ASSUME DDManagerAssumption ==
  /\ KindOf \in [Handles -> Kinds]
  /\ GcLimit \in 0..NodeMax
  /\ DepthMax \in Nat

VARIABLES
  root,         \* the root edge of every object (Null once it is destroyed)
  cache,        \* the entries of the operation cache
  attempt,      \* 0: no operation runs; else its first or second attempt
  gcDepth,      \* bdd_gc_depth
  args,         \* the objects the running operation was called on
  temps         \* the edges its local variables hold, with their kind

opVars == <<attempt, gcDepth, args, temps>>
vars == <<orderVars, tableVars, root, cache, opVars>>

Idle == attempt = 0
ArgTemps(S) == {<<KindOf[h], root[h]>> : h \in S}

\* The edges of kind k an operation can pass on: what it holds, constants.
HeldOnly(k) == {e \in {t[2] : t \in temps} : <<k, e>> \in temps}
Held(k) == HeldOnly(k) \cup ConstsOf(k)

CacheRecs == [kind : Kinds, f : Edges, result : Edges]

Init ==
  /\ VarOrderInit
  /\ NodeTableInit
  /\ root = [h \in Handles |-> Null]
  /\ cache = {}
  /\ attempt = 0
  /\ gcDepth = 0
  /\ args = {}
  /\ temps = {}

-----------------------------------------------------------------------------
(***************************************************************************)
(* Garbage collection.  Only the registered roots are marked from; it also *)
(* empties the operation cache, which is no root.  When the mark bits      *)
(* cannot be allocated nothing happens.                                    *)
(***************************************************************************)
Live == Reach({root[h].node : h \in Handles})

Collect == Sweep(Live) /\ cache' = {}

Bddgc == Collect \/ UNCHANGED <<tableVars, cache>>

LiveCount == used - Cardinality(free)

ShouldGc == count >= NodeMax /\ LiveCount > GcLimit

\* BDD_GC(), DDBase::gc().
Gc ==
  /\ Idle
  /\ Collect
  /\ UNCHANGED <<orderVars, root, opVars>>

-----------------------------------------------------------------------------
(***************************************************************************)
(* Objects.  Every constructor registers the address of its root and the   *)
(* destructor unregisters it; an object that is not constructed has the    *)
(* root Null, which the collector skips.                                   *)
(***************************************************************************)
SetRoot(h, e) ==
  /\ Idle
  /\ root' = [root EXCEPT ![h] = e]
  /\ UNCHANGED <<orderVars, tableVars, cache, opVars>>

Construct(h, e) == e \in ConstsOf(KindOf[h]) \cup {Null} /\ SetRoot(h, e)

\* Mutant: an object of any class is copied by its edge.
CopyAny(h, g) == SetRoot(h, root[g])

Copy(h, g) == KindOf[h] = KindOf[g] /\ SetRoot(h, root[g])

\* A self-move leaves the object null: the source is cleared last.
Move(h, g) ==
  /\ Idle
  /\ KindOf[h] = KindOf[g]
  /\ root' = [[root EXCEPT ![h] = root[g]] EXCEPT ![g] = Null]
  /\ UNCHANGED <<orderVars, tableVars, cache, opVars>>

Destroy(h) == SetRoot(h, Null)

\* ~f on the classes with complement edges.
Negate(h, g) ==
  /\ KindOf[h] = KindOf[g]
  /\ KindOf[h] \in {"bdd", "zdd", "qdd"}
  /\ SetRoot(h, Not(root[g]))

TakeChild(h, g, b) ==
  /\ KindOf[h] = KindOf[g]
  /\ root[g].node # 0
  /\ SetRoot(h, ChildOf(KindOf[h], root[g], b))

\* UnreducedDD::set_child0 and set_child1.
SetChild(h, g, b) ==
  /\ Idle
  /\ KindOf[h] = "unreduced" /\ KindOf[g] = "unreduced"
  /\ root[h].node # 0 /\ root[h].comp = 0
  /\ ~ nodes[root[h].node].red
  /\ LET n == root[h].node
     IN  Overwrite(n, IF b = 0 THEN [nodes[n] EXCEPT !.lo = root[g]]
                      ELSE [nodes[n] EXCEPT !.hi = root[g]])
  /\ UNCHANGED <<orderVars, root, cache, opVars>>

(***************************************************************************)
(* Kind::getnode(var, lo, hi) and bddprime, called by the program itself:  *)
(* no guard is open, so an exhausted table is collected on the spot and    *)
(* the children survive because their objects do.  (If that frees nothing  *)
(* the program gets an exception and the collection is all that happened:  *)
(* Gc.)                                                                    *)
(***************************************************************************)
GetNode(h, v, lo, hi) ==
  /\ Idle
  /\ KindOf[h] # "unreduced"
  /\ Accepts(KindOf[h], v, lo, hi)
  /\ \E r \in Results(KindOf[h], lo) :
       /\ root' = [root EXCEPT ![h] = r]
       /\ \/ Make(KindOf[h], v, lo, hi, r) /\ UNCHANGED cache
          \/ MakeAfterSweep(Live, KindOf[h], v, lo, hi, r) /\ cache' = {}
  /\ UNCHANGED <<orderVars, opVars>>

GetNodeOf(h, v, g1, g2) ==
  /\ KindOf[g1] = KindOf[h] /\ KindOf[g2] = KindOf[h]
  /\ GetNode(h, v, root[g1], root[g2])

MakeVariable(h, v) == KindOf[h] = "bdd" /\ GetNode(h, v, False, True)

\* The unique table cannot be enlarged: the exception leaves the object.
GetNodeFails(h, v, g1, g2) ==
  /\ Idle
  /\ KindOf[g1] = KindOf[h] /\ KindOf[g2] = KindOf[h]
  /\ Accepts(KindOf[h], v, root[g1], root[g2])
  /\ MakeRolledBack(KindOf[h], v, root[g1], root[g2])
  /\ UNCHANGED <<orderVars, root, cache, opVars>>

-----------------------------------------------------------------------------
(***************************************************************************)
(* bdd_gc_guard, outermost: collect first if the table is nearly full,     *)
(* then run the operation with the collector switched off.                 *)
(***************************************************************************)
BeginOp(S) ==
  /\ Idle /\ gcDepth < DepthMax
  /\ IF ShouldGc THEN Bddgc ELSE UNCHANGED <<tableVars, cache>>
  /\ attempt' = 1
  /\ gcDepth' = 1
  /\ args' = S
  /\ temps' = ArgTemps(S)
  /\ UNCHANGED <<orderVars, root>>

\* A guard inside a guard only counts.
EnterGuard ==
  /\ ~ Idle /\ gcDepth < DepthMax
  /\ gcDepth' = gcDepth + 1
  /\ UNCHANGED <<orderVars, tableVars, root, cache, attempt, args, temps>>

LeaveGuard ==
  /\ gcDepth > 1
  /\ gcDepth' = gcDepth - 1
  /\ UNCHANGED <<orderVars, tableVars, root, cache, attempt, args, temps>>

Hold(k, e) == temps' = temps \cup {<<k, e>>}

OpMake(k, v, lo, hi) ==
  /\ ~ Idle /\ Cardinality(temps) < TempMax
  /\ Accepts(k, v, lo, hi)
  /\ \E r \in Results(k, lo) : Make(k, v, lo, hi, r) /\ Hold(k, r)
  /\ UNCHANGED <<orderVars, root, cache, attempt, gcDepth, args>>

OpChild(k, e, b) ==
  /\ ~ Idle /\ Cardinality(temps) < TempMax
  /\ e.node # 0
  /\ Hold(k, ChildOf(k, e, b))
  /\ UNCHANGED <<orderVars, tableVars, root, cache, attempt, gcDepth, args>>

\* A local variable goes out of scope.
OpForget(k, e) ==
  /\ ~ Idle
  /\ temps' = temps \ {<<k, e>>}
  /\ UNCHANGED <<orderVars, tableVars, root, cache, attempt, gcDepth, args>>

(***************************************************************************)
(* The cache is direct-mapped: a write replaces at most one other entry,   *)
(* and always the one of the same key.                                     *)
(***************************************************************************)
OpCacheWrite(k, f, r) ==
  /\ ~ Idle
  /\ f.node # 0
  /\ LET others == {c \in cache : c.kind # k \/ c.f # f}
     IN  \E kept \in {others} \cup {others \ {c} : c \in others} :
           /\ cache' = kept \cup {[kind |-> k, f |-> f, result |-> r]}
           /\ Cardinality(kept) < CacheMax
  /\ UNCHANGED <<orderVars, tableVars, root, opVars>>

OpCacheRead(c) ==
  /\ ~ Idle /\ Cardinality(temps) < TempMax
  /\ <<c.kind, c.f>> \in temps
  /\ Hold(c.kind, c.result)
  /\ UNCHANGED <<orderVars, tableVars, root, cache, attempt, gcDepth, args>>

\* bddcache_setratio to a smaller cache drops colliding entries.
ShrinkCache ==
  /\ Idle
  /\ cache' \in SUBSET cache
  /\ UNCHANGED <<orderVars, tableVars, root, opVars>>

EndedOp == attempt' = 0 /\ gcDepth' = 0 /\ args' = {} /\ temps' = {}

\* The operation returns and its result is assigned to an object.
EndOp(h, e) ==
  /\ gcDepth = 1
  /\ root' = [root EXCEPT ![h] = e]
  /\ EndedOp
  /\ UNCHANGED <<orderVars, tableVars, cache>>

\* Mutant: what the first attempt held is kept for the second.
RetryKeepingTemps ==
  /\ attempt = 1
  /\ Bddgc
  /\ attempt' = 2
  /\ gcDepth' = 1
  /\ UNCHANGED <<orderVars, root, args, temps>>

(***************************************************************************)
(* std::overflow_error, thrown by an exhausted table or by the recursion   *)
(* limit, unwinds to the outermost guard: everything the operation held is *)
(* lost, the collector runs, and the operation starts again from its       *)
(* operands.  The second time, and at once if the exception is another     *)
(* one, it reaches the program.                                            *)
(***************************************************************************)
OpRetry ==
  /\ attempt = 1
  /\ Bddgc
  /\ attempt' = 2
  /\ gcDepth' = 1
  /\ temps' = ArgTemps(args)
  /\ UNCHANGED <<orderVars, root, args>>

\* Mutant: the depth is not restored when an exception passes.
ThrowsLeavingDepth ==
  /\ ~ Idle
  /\ attempt' = 0 /\ args' = {} /\ temps' = {}
  /\ UNCHANGED <<orderVars, tableVars, root, cache, gcDepth>>

OpThrows ==
  /\ ~ Idle
  /\ EndedOp
  /\ UNCHANGED <<orderVars, tableVars, root, cache>>

\* std::bad_alloc from the unique table is not retried.
OpBadAlloc(k, v, lo, hi) ==
  /\ ~ Idle
  /\ Accepts(k, v, lo, hi)
  /\ MakeRolledBack(k, v, lo, hi)
  /\ EndedOp
  /\ UNCHANGED <<orderVars, root, cache>>

-----------------------------------------------------------------------------
\* Shift operations create variables while they run.
CreateVar == NewVar /\ UNCHANGED <<tableVars, root, cache, opVars>>

CreateVarOfLev(lev) ==
  /\ Idle
  /\ NewVarOfLev(lev)
  /\ cache' = {}
  /\ UNCHANGED <<tableVars, root, opVars>>

\* Mutant: bddfinal does not look at the registered roots.
ReinitUnchecked ==
  /\ Idle
  /\ ForgetVars
  /\ ResetTable
  /\ cache' = {}
  /\ UNCHANGED <<root, opVars>>

(***************************************************************************)
(* bddinit, and the bddfinal it starts with, which refuses to run while an *)
(* object refers to a node or to a terminal of index 2 or more.            *)
(***************************************************************************)
Reinit ==
  /\ Idle
  /\ \A h \in Handles : root[h].node = 0 /\ root[h].comp <= 1
  /\ ForgetVars
  /\ ResetTable
  /\ cache' = {}
  /\ UNCHANGED <<root, opVars>>

ObjectStep ==
  \E h, g \in Handles :
    \/ \E e \in Consts : Construct(h, e)
    \/ Copy(h, g)
    \/ Move(h, g)
    \/ Destroy(h)
    \/ Negate(h, g)
    \/ \E b \in {0, 1} : TakeChild(h, g, b) \/ SetChild(h, g, b)

NodeStep ==
  \E h \in Handles, v \in VarsUsed :
    \/ MakeVariable(h, v)
    \/ \E g1, g2 \in Handles :
         GetNodeOf(h, v, g1, g2) \/ GetNodeFails(h, v, g1, g2)

OpStep ==
  \/ \E S \in SUBSET Handles : BeginOp(S)
  \/ EnterGuard
  \/ LeaveGuard
  \/ \E k \in {KindOf[h] : h \in Handles} :
       \/ \E v \in VarsUsed, lo, hi \in Held(k) :
            OpMake(k, v, lo, hi) \/ OpBadAlloc(k, v, lo, hi)
       \/ \E e \in HeldOnly(k) :
            \/ \E b \in {0, 1} : OpChild(k, e, b)
            \/ OpForget(k, e)
            \/ \E r \in Held(k) : OpCacheWrite(k, e, r)
  \/ \E c \in cache : OpCacheRead(c)
  \/ \E h \in Handles : \E e \in Held(KindOf[h]) : EndOp(h, e)
  \/ OpRetry
  \/ OpThrows

Next ==
  \/ Gc
  \/ ObjectStep
  \/ NodeStep
  \/ OpStep
  \/ ShrinkCache
  \/ CreateVar
  \/ \E lev \in 1..(varcount + 1) : CreateVarOfLev(lev)
  \/ Reinit

Spec == Init /\ [][Next]_vars

-----------------------------------------------------------------------------
TypeOK ==
  /\ VarOrderTypeOK
  /\ NodeTableTypeOK
  /\ root \in [Handles -> Edges]
  /\ cache \subseteq CacheRecs
  /\ attempt \in 0..2
  /\ gcDepth \in 0..DepthMax
  /\ gcDepth = 0 <=> Idle
  /\ args \subseteq Handles
  /\ temps \subseteq Kinds \X Edges

(***************************************************************************)
(* No dangling edge: the object roots, the local variables of a running    *)
(* operation, the operation cache and the children of every node point to  *)
(* slots that hold a node.  Collection at any point where it may run,      *)
(* retries, rollbacks and re-initialization included, never frees what     *)
(* some later step will read (bddgc, bdd_gc_guard, allocate_node).         *)
(***************************************************************************)
RootsSound == \A h \in Handles : Sound(root[h])
TempsSound == \A t \in temps : Sound(t[2])
CacheSound == \A c \in cache : Sound(c.f) /\ Sound(c.result)
NoDangling == RootsSound /\ TempsSound /\ CacheSound /\ ChildrenSound

(***************************************************************************)
(* A BDD, ZDD, QDD, MTBDD or MTZDD object never refers to an unreduced      *)
(* node, nor does a local variable or a cache entry of those kinds: else   *)
(* getnode_raw would enter a node in the unique table that the next sweep  *)
(* forgets.                                                                *)
(***************************************************************************)
ReducedKind(k, e) == k # "unreduced" /\ e # Null => IsReduced(e)

WellKinded ==
  /\ \A h \in Handles : ReducedKind(KindOf[h], root[h])
  /\ \A t \in temps : ReducedKind(t[1], t[2])
  /\ \A c \in cache : ReducedKind(c.kind, c.f) /\ ReducedKind(c.kind, c.result)

(***************************************************************************)
(* A node an object can reach is never overwritten: what an object denotes *)
(* changes only when the object itself is assigned to.  (Unreduced nodes   *)
(* are mutable: set_child.)                                                *)
(***************************************************************************)
LiveNodesStep ==
  \A n \in Live : nodes[n].red => nodes'[n] = nodes[n]

LiveNodesKept == [][LiveNodesStep]_vars

-----------------------------------------------------------------------------
(***************************************************************************)
(* What the objects mean, and what keeps it.                               *)
(***************************************************************************)
Meaning(h) == [a \in Assignments |-> Value(KindOf[h], root[h], a)]

Meaningful(h) == KindOf[h] # "unreduced" /\ root[h] # Null

\* A QDD visits every level below its root.
Complete(e) ==
  \A n \in Reach({e.node}) :
    \A child \in {nodes[n].lo, nodes[n].hi} :
      Level(child) = var2level[nodes[n].var] - 1

(***************************************************************************)
(* Canonicity: two objects of a class mean the same only if their roots    *)
(* are equal, so operator== on diagrams decides equality of functions and  *)
(* of families.  (A QDD is canonical among the complete ones of its        *)
(* height.)                                                                *)
(***************************************************************************)
Comparable(h, g) ==
  /\ KindOf[h] = KindOf[g] /\ Meaningful(h) /\ Meaningful(g)
  /\ KindOf[h] = "qdd" =>
       Level(root[h]) = Level(root[g]) /\ Complete(root[h]) /\ Complete(root[g])

Canonical ==
  \A h, g \in Handles :
    Comparable(h, g) /\ Meaning(h) = Meaning(g) => root[h] = root[g]

(***************************************************************************)
(* The kinds share one table but not one normal form, and a node does not  *)
(* say what kind it is of.  Whatever the objects, local variables and      *)
(* cache entries of a kind refer to is in the normal form of that kind,    *)
(* all the way down, although nodes are found that were made for another.  *)
(***************************************************************************)
HoldsOnly(k, S) ==
  LET Fits(e) == e = Null \/ OfKind(k, S, e)
  IN  /\ \A h \in Handles : KindOf[h] = k => Fits(root[h])
      /\ \A t \in temps : t[1] = k => Fits(t[2])
      /\ \A c \in cache : c.kind = k => Fits(c.f) /\ Fits(c.result)

KindsPure ==
  \A k \in Reducing :
    \E S \in SUBSET ReducedNodes : Diagrams(k, S) /\ HoldsOnly(k, S)

(***************************************************************************)
(* An object keeps its meaning until it is assigned to: collections, nodes *)
(* made in freed slots, retries and new variables above, below or between  *)
(* its own do not change it.                                               *)
(***************************************************************************)
MeaningStep ==
  varcount' >= varcount =>
    \A h \in Handles :
      Meaningful(h) /\ root'[h] = root[h] =>
        \A a \in Assignments : Meaning(h)'[a] = Meaning(h)[a]

MeaningKept == [][MeaningStep]_vars

(***************************************************************************)
(* Completeness of a QDD is lost when a variable is inserted below its     *)
(* root (KNOWN_ISSUES.md:95) and by nothing else: as long as variables are *)
(* created on top, collections, reused slots, retries and what operations  *)
(* hold and cache keep it.                                                 *)
(***************************************************************************)
QddsComplete ==
  /\ \A h \in Handles : KindOf[h] = "qdd" => Complete(root[h])
  /\ \A t \in temps : t[1] = "qdd" => Complete(t[2])
  /\ \A c \in cache : c.kind = "qdd" => Complete(c.f) /\ Complete(c.result)

NothingInserted ==
  varcount' >= varcount /\ \A v \in VarsUsed : var2level'[v] = var2level[v]

QddsStayComplete ==
  [][NothingInserted /\ QddsComplete => QddsComplete']_vars
=============================================================================
