------------------------------ MODULE Sessions ------------------------------
(***************************************************************************)
(* What is kept from one call to the next and names nodes, terminals or    *)
(* operations by number: the operation cache and its codes, the table of   *)
(* terminal values, CostBoundMemo, ZddCountMemo and the memo of            *)
(* threshold_to_zdd, through collections, retries and bddfinal             *)
(* (mtbdd_core.h, mtbdd_class.h, mtbdd.cpp, bdd_class.cpp,                 *)
(* zdd_adv_weight.cpp, bdd_internal.h, bdd_base.cpp).                      *)
(*                                                                         *)
(* ZDD and MTZDD nodes share one table; both leave out a node whose hi     *)
(* child is the constant 0.  An edge is a constant and its index, or a     *)
(* slot; complement bits, which only save nodes, are left out, and so are  *)
(* the losses of the cache, which only save answers.                       *)
(***************************************************************************)
EXTENDS Bounds

CONSTANTS
  Slots,          \* 1..bdd_node_max
  Objects,        \* the ZDD and MTZDD objects of the program
  Functors,       \* the functor types apply is instantiated with
  TerminalValues, \* what MTZDD::terminal is called with
  Thresholds,     \* what threshold_gt is called with
  Weight,         \* the vector the program's CostBoundMemo is bound to
  CostBounds,     \* the bounds it asks for
  MaxGeneration,  \* bound: collections between two calls of bddfinal
  MaxEpochs,      \* bound: calls of bddfinal
  Programs,       \* the kinds of programs: which of the kept things they use
  MaxCalls,       \* bound: calls a program of each kind makes
  Tolerated       \* the patterns of use below that a program may follow

ASSUME SessionsAssumption ==
  /\ IsFiniteSet(Slots) /\ Slots = 1..Cardinality(Slots)
  /\ Functors \subseteq {"min", "max"}
  /\ TerminalValues \subseteq Nat /\ Thresholds \subseteq Nat
  /\ Weight \in [Vars -> Int] /\ CostBounds \subseteq Weights
  /\ Programs \subseteq {"cost bounds", "counts", "values"}
  /\ MaxCalls \in [Programs -> Nat]
  /\ Tolerated \subseteq {"threshold that is retried", "bound memo over bddfinal"}

VARIABLES
  nodes,          \* bdd_nodes: [var, lo, hi] of every slot, or Free
  held,           \* the objects: edge, kind, what it should stand for, and
                  \* whether it is an MTZDD terminal that outlived bddfinal
  table,          \* the terminal values; values_[i] is table[i + 1]
  cache,          \* the operation cache
  nextCode,       \* mtbdd_next_op_code
  codes,          \* the static apply_op of every functor type, 0 before use
  generation,     \* bdd_gc_generation
  epoch,          \* history: how often bddfinal has run
  program,        \* the kind of program that runs
  calls,          \* history: calls made
  bounds,         \* a CostBoundMemo, and the epoch of its generation
  counts          \* a ZddCountMemo, and whether its diagram has stayed held

vars == <<nodes, held, table, cache, nextCode, codes, generation, epoch, program, calls, bounds, counts>>

BDD_OP_DYNAMIC_MIN == 85
Const(i) == [const |-> TRUE, at |-> i]
Slot(s) == [const |-> FALSE, at |-> s]
Free == [var |-> 0, lo |-> Const(0), hi |-> Const(0)]
EdgeLevel(ns, r) == IF r.const THEN 0 ELSE LevelOf(ns[r.at].var)
Height == Cardinality(Vars)

Edges == [const : BOOLEAN, at : Nat]
Stores == [Slots -> [var : Nat, lo : Edges, hi : Edges]]

-----------------------------------------------------------------------------
(***************************************************************************)
(* What an edge stands for: the index, or the value, of the terminal of    *)
(* every set of variables, where a variable that is not on the path makes  *)
(* it 0.  A path into a free or misplaced node, or to an index the table   *)
(* does not have, ends in Dangling.                                        *)
(***************************************************************************)
Dangling == -1

Misplaced(ns, n) == n = Free \/ \E c \in {n.lo, n.hi} : EdgeLevel(ns, c) >= LevelOf(n.var)

\* Of a path of at most n nodes; below is the same for n - 1.
IndexBy(n, below) ==
  [ns \in Stores |-> [r \in Edges |-> [s \in SUBSET Vars |->
     LET d == ns[r.at]
     IN  IF r.const THEN (IF s = {} THEN r.at ELSE 0)
         ELSE IF n = 0 \/ Misplaced(ns, d) THEN Dangling
         ELSE below[ns][IF d.var \in s THEN d.hi ELSE d.lo][s \ {d.var}]]]]

indexes[n \in Nat] == IndexBy(n, IF n = 0 THEN <<>> ELSE indexes[n - 1])

Index(ns, r, s) == indexes[Height][ns][r][s]

ValueAt(values, i) == IF i \in 0..(Len(values) - 1) THEN values[i + 1] ELSE Dangling

\* A ZDD has 1 where it has a set; an MTZDD a value other than 0.
Stands(ns, values, kind, r) ==
  [s \in SUBSET Vars |-> IF kind = "zdd" THEN Index(ns, r, s)
                         ELSE ValueAt(values, Index(ns, r, s))]

Constantly(x) == [s \in SUBSET Vars |-> IF s = {} THEN x ELSE 0]
WithNode(v, lo, hi) == [s \in SUBSET Vars |-> IF v \in s THEN hi[s \ {v}] ELSE lo[s]]
BinOp(op, x, y) == IF op = "min" THEN Least(x, y) ELSE Most(x, y)

\* The weight of a set, level by level.
CostBy(n, below) ==
  [s \in SUBSET Vars |-> IF n = 0 THEN 0
                         ELSE below[s] + (IF VarOf(n) \in s THEN Weight[VarOf(n)] ELSE 0)]

costs[n \in Nat] == CostBy(n, IF n = 0 THEN <<>> ELSE costs[n - 1])

Cost(s) == costs[Height][s]

\* Weights are int and variables 32 bits wide, so that no sum of weights
\* reaches the ends of long long.
ASSUME WeightsAssumption ==
  \A s \in SUBSET Vars : WeightMin < Cost(s) /\ Cost(s) < WeightMax

-----------------------------------------------------------------------------
(***************************************************************************)
(* A call works on the state L of the library: nodes, generation, terminal *)
(* values, cache and the memos it was given, the result r of the last      *)
(* step, and full once allocate_node has thrown.                           *)
(***************************************************************************)
Library == [nodes |-> nodes, generation |-> generation, table |-> table, cache |-> cache,
            memo |-> bounds, converted |-> {}, r |-> Const(0), full |-> FALSE]

BoundAnswers == [h : Edges, aw : Int, rb : Int]
Libraries ==
  [nodes : Stores, generation : Nat, table : Seq(Nat),
   cache : SUBSET [code : Nat, f : Edges, g : Edges, r : Edges],
   memo : [generation : Nat, since : Nat,
           entries : SUBSET [f : Edges, aw : Int, rb : Int, h : Edges]],
   converted : SUBSET (Edges \X Edges), r : Edges \cup BoundAnswers, full : BOOLEAN]

\* ZDD::getnode_raw and mtzdd_getnode_raw.  A free slot is taken from the end,
\* the head of the list a sweep leaves.
getnode_raw(L, v, lo, hi) ==
  LET n == [var |-> v, lo |-> lo, hi |-> hi]
      free == {s \in Slots : L.nodes[s] = Free}
      s == CHOOSE s \in free : \A t \in free : t <= s
  IN  IF L.full THEN L
      ELSE IF hi = Const(0) THEN [L EXCEPT !.r = lo]
      ELSE IF \E t \in Slots : L.nodes[t] = n
      THEN [L EXCEPT !.r = Slot(CHOOSE t \in Slots : L.nodes[t] = n)]
      ELSE IF free = {} THEN [L EXCEPT !.full = TRUE]
      ELSE [L EXCEPT !.nodes[s] = n, !.r = Slot(s)]

\* The slots reached from the edges R.
Closed(ns, S) == \A t \in S : \A c \in {ns[t].lo, ns[t].hi} : c.const \/ c.at \in S
Reach(ns, R) ==
  {t \in Slots : \A S \in SUBSET Slots :
     Closed(ns, S) /\ (\A c \in R : c.const \/ c.at \in S) => t \in S}

\* Marks from the registered objects, sweeps, clears the cache.
bddgc(L) ==
  LET live == Reach(L.nodes, {held[o].r : o \in Objects})
  IN  [L EXCEPT !.nodes = [t \in Slots |-> IF t \in live THEN @[t] ELSE Free],
                !.cache = {}, !.generation = @ + 1, !.full = FALSE]

\* The states a call can begin in.  bdd_should_gc depends on how full the table
\* is: here a collection is possible at every call.
Entered == {Library, bddgc(Library)}

\* The attempts of func: whatever it has left in its memos stays.
bdd_gc_guard(L, func(_)) ==
  LET first == func(L) IN IF first.full THEN func(bddgc(first)) ELSE first

\* The end of a call: what it leaves in the library, and its result in o.
Kept(c, h) == [c EXCEPT !.kept = @ /\ \E o \in Objects : h[o].kind = "zdd" /\ h[o].r = c.f]

Leave(L, h) ==
  /\ L.generation <= MaxGeneration
  /\ nodes' = L.nodes
  /\ generation' = L.generation
  /\ table' = L.table
  /\ cache' = L.cache
  /\ bounds' = L.memo
  /\ held' = h
  /\ counts' = Kept(counts, h)
  /\ UNCHANGED <<epoch, program>>

Made(kind, r, means) == [kind |-> kind, r |-> r, means |-> means, old |-> FALSE]

Return(L, o, kind, means) ==
  Leave(L, IF L.full THEN held ELSE [held EXCEPT ![o] = Made(kind, L.r, means)])

Usable(kind) == {p \in Objects : held[p].kind = kind /\ ~held[p].old}

-----------------------------------------------------------------------------
\* The program makes and drops objects.

\* ZDD() and MTZDD() are the constant 0.
Kind == IF program = "values" THEN "mtzdd" ELSE "zdd"
Null == Made(Kind, Const(0), Constantly(0))

Init ==
  /\ program \in Programs
  /\ nodes = [s \in Slots |-> Free]
  /\ held = [o \in Objects |-> Null]
  /\ table = <<0>>
  /\ cache = {}
  /\ nextCode = BDD_OP_DYNAMIC_MIN
  /\ codes = [op \in Functors |-> 0]
  /\ generation = 0
  /\ epoch = 0
  /\ calls = 0
  /\ bounds = [generation |-> 0, since |-> 0, entries |-> {}]
  /\ counts = [f |-> Const(0), map |-> {}, kept |-> FALSE]

\* An object is given up, or set to ZDD::Single.
Drop(o) ==
  /\ Leave(Library, [held EXCEPT ![o] = Null])
  /\ UNCHANGED <<nextCode, codes>>

SetSingle(o) ==
  /\ Leave(Library, [held EXCEPT ![o] = Made("zdd", Const(1), Constantly(1))])
  /\ UNCHANGED <<nextCode, codes>>

get_or_insert(L, x) ==
  IF \E i \in DOMAIN L.table : L.table[i] = x
  THEN [L EXCEPT !.r = Const((CHOOSE i \in DOMAIN L.table : L.table[i] = x) - 1)]
  ELSE [L EXCEPT !.table = Append(@, x), !.r = Const(Len(L.table))]

\* MTZDD::terminal.
terminal(o, x) ==
  /\ Return(get_or_insert(Library, x), o, "mtzdd", Constantly(x))
  /\ UNCHANGED <<nextCode, codes>>

\* ZDD::getnode and MTZDD::ite: no guard, so allocate_node collects by itself.
ite(o, v, p, q) ==
  LET kind == held[p].kind
      get(L) == getnode_raw(L, v, held[p].r, held[q].r)
  IN  /\ {p, q} \subseteq Usable(kind)
      /\ \A x \in {p, q} : EdgeLevel(nodes, held[x].r) < LevelOf(v)
      /\ Return(bdd_gc_guard(Library, get), o, kind, WithNode(v, held[p].means, held[q].means))
      /\ UNCHANGED <<nextCode, codes>>

\* A call of bddgc.
Collect ==
  /\ Leave(bddgc(Library), held)
  /\ UNCHANGED <<nextCode, codes>>

-----------------------------------------------------------------------------
\* bddfinal and the next bddinit.

\* Mutant: an MTZDD terminal is as safe as bddtrue.
FinalizableIfConstant == \A o \in Objects : held[o].r.const

Finalizable == \A o \in Objects : held[o].r.const /\ held[o].r.at < 2

Reset(code) ==
  /\ Finalizable
  /\ epoch < MaxEpochs
  /\ nodes' = [s \in Slots |-> Free]
  /\ table' = <<0>>
  /\ cache' = {}
  /\ nextCode' = code
  /\ generation' = 0
  /\ epoch' = epoch + 1
  /\ held' = [o \in Objects |->
                [held[o] EXCEPT !.old = @ \/ (held[o].kind = "mtzdd" /\ held[o].r = Const(1))]]
  /\ UNCHANGED <<codes, program, bounds, counts>>

\* Mutant: the codes are given out again.
FinalWithCodes == Reset(BDD_OP_DYNAMIC_MIN)

bddfinal == Reset(nextCode)

-----------------------------------------------------------------------------
\* MTZDD::apply.  The code of a functor type is given at its first use.

mtbdd_alloc_op_code(op) ==
  IF codes[op] # 0 THEN UNCHANGED <<nextCode, codes>>
  ELSE /\ nextCode # 255
       /\ codes' = [codes EXCEPT ![op] = nextCode]
       /\ nextCode' = nextCode + 1

Side(L, r, v, b) ==
  IF r.const \/ L.nodes[r.at].var # v THEN (IF b = 0 THEN r ELSE Const(0))
  ELSE IF b = 0 THEN L.nodes[r.at].lo ELSE L.nodes[r.at].hi

\* On operands of at most n levels; below is the same for n - 1.
ApplyBy(n, below) ==
  [L \in Libraries |-> [f \in Edges |-> [g \in Edges |-> [op \in Functors |-> [code \in Nat |->
     LET hits == {e \in L.cache : e.code = code /\ e.f = f /\ e.g = g}
         v == VarOf(Most(EdgeLevel(L.nodes, f), EdgeLevel(L.nodes, g)))
         lo == below[L][Side(L, f, v, 0)][Side(L, g, v, 0)][op][code]
         hi == below[lo][Side(L, f, v, 1)][Side(L, g, v, 1)][op][code]
         made == getnode_raw(hi, v, lo.r, hi.r)
     IN  IF L.full THEN L
         ELSE IF f.const /\ g.const
         THEN get_or_insert(L, BinOp(op, ValueAt(L.table, f.at), ValueAt(L.table, g.at)))
         ELSE IF hits # {} THEN [L EXCEPT !.r = (CHOOSE e \in hits : TRUE).r]
         ELSE IF n = 0 THEN L
         ELSE IF made.full THEN made
         ELSE [made EXCEPT !.cache = @ \cup {[code |-> code, f |-> f, g |-> g, r |-> made.r]}]]]]]]

mtzdd_apply_rec[n \in Nat] == ApplyBy(n, IF n = 0 THEN <<>> ELSE mtzdd_apply_rec[n - 1])

apply(o, p, q, op) ==
  LET means == [s \in SUBSET Vars |-> BinOp(op, held[p].means[s], held[q].means[s])]
      run(L) == mtzdd_apply_rec[Height][L][held[p].r][held[q].r][op][codes'[op]]
  IN  /\ {p, q} \subseteq Usable("mtzdd")
      /\ mtbdd_alloc_op_code(op)
      /\ \E L \in Entered : Return(bdd_gc_guard(L, run), o, "mtzdd", means)

-----------------------------------------------------------------------------
\* bddcostbound_le with the program's CostBoundMemo.

invalidate_if_stale(L) ==
  IF L.memo.generation = L.generation THEN L
  ELSE [L EXCEPT !.memo = [generation |-> L.generation, since |-> epoch, entries |-> {}]]

\* The last interval of f that begins at b or below, if it does not end there.
lookup(L, f, b) ==
  LET begun == {e \in L.memo.entries : e.f = f /\ e.aw <= b}
  IN  {e \in begun : b < e.rb /\ \A x \in begun : x.aw <= e.aw}

insert(L, f, r) ==
  [L EXCEPT !.r = r,
            !.memo.since = epoch,
            !.memo.entries = {e \in @ : e.f # f \/ e.aw # r.aw}
                               \cup {[f |-> f, aw |-> r.aw, rb |-> r.rb, h |-> r.h]}]

CostBoundBy(n, below) ==
  [L \in Libraries |-> [f \in Edges |-> [b \in Weights |->
     LET hits == lookup(L, f, b)
         hit == CHOOSE e \in hits : TRUE
         d == L.nodes[f.at]
         x == Weight[d.var]
         lo == below[L][d.lo][b]
         hi == below[lo][d.hi][costbound_safe_sub(b, x)]
         made == getnode_raw(hi, d.var, lo.r.h, hi.r.h)
     IN  IF L.full THEN L
         ELSE IF f = Const(0) THEN [L EXCEPT !.r = Bounded(f, WeightMin, WeightMax)]
         ELSE IF f = Const(1) THEN [L EXCEPT !.r = IF b >= 0 THEN Bounded(f, 0, WeightMax)
                                                   ELSE Bounded(Const(0), WeightMin, 0)]
         ELSE IF hits # {} THEN [L EXCEPT !.r = Bounded(hit.h, hit.aw, hit.rb)]
         ELSE IF n = 0 THEN L
         ELSE IF made.full THEN made
         ELSE insert(made, f, Bounded(made.r, Most(lo.r.aw, costbound_safe_add(hi.r.aw, x)),
                                      Least(lo.r.rb, costbound_safe_add(hi.r.rb, x))))]]]

bddcostbound_rec[n \in Nat] == CostBoundBy(n, IF n = 0 THEN <<>> ELSE bddcostbound_rec[n - 1])

\* Mutant: the memo is brought up to date before the guard's collection.
BoundStale(L, f, b) == IF L.generation = generation THEN bddcostbound_rec[Height][invalidate_if_stale(L)][f][b]
                       ELSE bddcostbound_rec[Height][L][f][b]

\* What the guard runs.
BoundAttempt(L, f, b) == bddcostbound_rec[Height][invalidate_if_stale(L)][f][b]

cost_bound_le(o, p, b) ==
  LET f == held[p].r
      run(L) == BoundAttempt(L, f, b)
      done(L) == IF L.full THEN L ELSE [L EXCEPT !.r = L.r.h]
      ends == IF f.const THEN {[Library EXCEPT !.r = Const(IF b >= 0 THEN f.at ELSE 0)]}
              ELSE {done(bdd_gc_guard(L, run)) : L \in Entered}
      light == [s \in SUBSET Vars |-> IF Cost(s) <= b THEN held[p].means[s] ELSE 0]
  IN  /\ held[p].kind = "zdd"
      /\ \/ bounds.since = epoch
         \/ bounds.entries = {}
         \/ "bound memo over bddfinal" \in Tolerated
      /\ \E L \in ends : Return(L, o, "zdd", light)
      /\ UNCHANGED <<nextCode, codes>>

-----------------------------------------------------------------------------
\* ZddCountMemo: made for a diagram, and exact_count(memo).

CountMemoFor(p) ==
  /\ held[p].kind = "zdd" /\ ~held[p].r.const
  /\ counts' = [f |-> held[p].r, map |-> {}, kept |-> TRUE]
  /\ UNCHANGED <<nodes, held, table, cache, nextCode, codes, generation, epoch, program, bounds>>

Counted(map, f) ==
  IF f.const THEN f.at ELSE (CHOOSE e \in map : e[1] = f)[2]

\* On the map; below is the same for a level less.
ExactCountBy(n, below) ==
  [map \in SUBSET (Edges \X Nat) |-> [f \in Edges |->
     LET d == nodes[f.at]
         both == below[below[map][d.lo]][d.hi]
     IN  IF f.const \/ (\E e \in map : e[1] = f) \/ n = 0 THEN map
         ELSE both \cup {<<f, Counted(both, d.lo) + Counted(both, d.hi)>>}]]

bddexactcount_rec[n \in Nat] == ExactCountBy(n, IF n = 0 THEN <<>> ELSE bddexactcount_rec[n - 1])

\* Mutant: the memo is used for any diagram.
MemoForAny(f) == ~f.const

MemoFor(f) == counts.f = f

exact_count(p) ==
  /\ held[p].kind = "zdd"
  /\ MemoFor(held[p].r)
  /\ counts' = [counts EXCEPT !.map = bddexactcount_rec[Height][@][held[p].r]]
  /\ UNCHANGED <<nodes, held, table, cache, nextCode, codes, generation, epoch, program, bounds>>

-----------------------------------------------------------------------------
\* MTZDD::threshold_gt: the memo of the conversion is made outside the guard.

ToZddBy(n, below) ==
  [L \in Libraries |-> [f \in Edges |-> [pred \in SUBSET Nat |->
     LET hits == {e \in L.converted : e[1] = f}
         d == L.nodes[f.at]
         lo == below[L][d.lo][pred]
         hi == below[lo][d.hi][pred]
         made == getnode_raw(hi, d.var, lo.r, hi.r)
     IN  IF L.full THEN L
         ELSE IF f.const THEN [L EXCEPT !.r = IF f.at \in pred THEN Const(1) ELSE Const(0)]
         ELSE IF hits # {} THEN [L EXCEPT !.r = (CHOOSE e \in hits : TRUE)[2]]
         ELSE IF n = 0 THEN L
         ELSE IF made.full THEN made
         ELSE [made EXCEPT !.converted = @ \cup {<<f, made.r>>}]]]]

mtzdd_to_zdd_rec[n \in Nat] == ToZddBy(n, IF n = 0 THEN <<>> ELSE mtzdd_to_zdd_rec[n - 1])

threshold_gt(o, p, x) ==
  LET pred == {i \in 0..(Len(table) - 1) : table[i + 1] > x}
      run(L) == IF pred = {} THEN [L EXCEPT !.r = Const(0)]
                ELSE mtzdd_to_zdd_rec[Height][L][held[p].r][pred]
      above == [s \in SUBSET Vars |-> IF held[p].means[s] > x THEN 1 ELSE 0]
  IN  /\ p \in Usable("mtzdd")
      /\ \E L \in IF pred = {} THEN {Library} ELSE Entered :
           /\ run(L).full => "threshold that is retried" \in Tolerated
           /\ Return(bdd_gc_guard(L, run), o, "zdd", above)
      /\ UNCHANGED <<nextCode, codes>>

-----------------------------------------------------------------------------
Making(o) ==
  \/ Drop(o)
  \/ program # "values" /\ SetSingle(o)
  \/ \E x \in TerminalValues : program = "values" /\ terminal(o, x)
  \/ \E v \in Vars, p, q \in Usable(Kind) : ite(o, v, p, q)

Bounding == program = "cost bounds" /\ \E o, p \in Objects, b \in CostBounds : cost_bound_le(o, p, b)

Counting == program = "counts" /\ \E p \in Objects : CountMemoFor(p) \/ exact_count(p)

Valuing ==
  /\ program = "values"
  /\ \/ \E o, p, q \in Objects, op \in Functors : apply(o, p, q, op)
     \/ \E o, p \in Objects, x \in Thresholds : threshold_gt(o, p, x)

Next ==
  /\ calls < MaxCalls[program]
  /\ calls' = calls + 1
  /\ \/ Collect
     \/ bddfinal
     \/ \E o \in Objects : Making(o)
     \/ Bounding
     \/ Counting
     \/ Valuing

Spec == Init /\ [][Next]_vars

-----------------------------------------------------------------------------
\* Every ZDD stands for what the operation that made it promises, whatever was
\* collected, retried or finalized in between: the sets
\* of cost at most b for the answers drawn from a CostBoundMemo, "Extract
\* paths where terminal value > val, as ZDD" for those of threshold_gt.
FamiliesKept ==
  \A o \in Objects : held[o].kind = "zdd" =>
    Stands(nodes, table, "zdd", held[o].r) = held[o].means

\* Every MTZDD has the values it was made with or computed to have, although
\* bddfinal clears the table its terminals index; except a terminal of index 1
\* that outlived its table, which bddfinal lets pass as bddtrue.
ValuesKept ==
  \A o \in Objects : held[o].kind = "mtzdd" /\ ~held[o].old =>
    Stands(nodes, table, "mtzdd", held[o].r) = held[o].means

\* An entry under the code of a functor holds that functor's result on the
\* operands as they stand now: no other functor wrote it.
CodesApart ==
  \A op \in Functors, e \in cache :
    e.code = codes[op] =>
      \A s \in SUBSET Vars :
        Stands(nodes, table, "mtzdd", e.r)[s] =
          BinOp(op, Stands(nodes, table, "mtzdd", e.f)[s], Stands(nodes, table, "mtzdd", e.g)[s])

\* As long as the diagram a ZddCountMemo was made for stays held, all its
\* counts are counts of nodes as they are.
CountsCurrent ==
  counts.kept => \A e \in counts.map :
    e[2] = Cardinality({s \in SUBSET Vars : Stands(nodes, table, "zdd", e[1])[s] # 0})
=============================================================================
