# KyotoDD in TLA+

KyotoDD is a C++ library of decision diagrams: BDDs, ZDDs, QDDs, multi-terminal
BDDs and ZDDs (MTBDD, MTZDD) and unreduced diagrams, all in one shared node
table with complement edges, a mark-and-sweep collector and an operation cache.
This directory models the core every other part stands on (the table, the
collector, the objects and the bracket operations run in), the operations
themselves in both of their forms, what is kept from one call to the next, and
the diagrams of permutations and sequences built on top. TLC checks small
instances; TLAPS proves the core for all of them, up to the statement that the six
binary operations compute what they promise in a table that overflows and is
collected under them.

The library is sequential: there are no threads. What makes it hard is, in the
core, the order in which one program's calls, collections, overflows, retries
and failures follow each other while slots are recycled under edges nobody has
registered; and, above it, that almost every operation exists twice, as
recursion and as a loop over an explicit stack, chosen by depth and sharing one
cache.

## 1. Inventory

| Part | Code | State | Operations | What must hold |
|---|---|---|---|---|
| Variable order | `src/bdd_base.cpp` | `var2level`, `level2var`, `bdd_varcount` | `bddnewvar`, `bddnewvaroflev` | the two arrays are inverse; existing variables never swap |
| Node table | `src/bdd_base.cpp`, `include/bdd_internal.h` | `bdd_nodes`, `bdd_node_used`, `bdd_node_count`, free list, unique tables | `allocate_node`, `getnode_raw` of six kinds, `node_array_grow` | at most one reduced node per (variable, children); the unique tables hold exactly the reduced nodes; order and reduction |
| Collector | `src/bdd_base.cpp` | `gc_roots`, mark bits, `bdd_gc_generation` | `bddgc`, `bdd_should_gc` | nothing that will be read is freed; live nodes stay as they are |
| Diagram objects | `include/dd_base.h`, `include/bdd.h`, `src/unreduced_dd.cpp` | one root edge each, registered by address | constructors, copy, move, destruction, `operator~`, `child`, `getnode`, `set_child` | an object keeps its meaning until it is assigned to; equal roots iff equal meaning |
| Operation bracket | `include/bdd_internal.h` | `bdd_gc_depth`, `BDD_RecurCount`, the attempt | `bdd_gc_guard` | the collector is off while raw edges are held; retry once, from the operands only |
| Operation cache | `src/bdd_base.cpp` | `bdd_cache`, the codes given out at run time | `bddrcache`, `bddwcache`, resize, clear | a hit is right for its key although slots are recycled; distinct operations never share a code |
| BDD operations | `src/bdd_ops*.cpp` | frames on the stack | and, xor, ite, cofactors, quantifiers, exchange, shift, imply, support | the function promised, or an exception, and no other object changed; both forms alike |
| ZDD operations | `src/zdd_ops*.cpp` | same | union, intersection, difference, onset, change, products, quotient | same, on families of sets |
| ZDD algebra | `src/zdd_adv_filter*.cpp`, `src/zdd_adv2*.cpp`, `src/zdd_ops_iter_algebra.cpp` | cache entries | restrict, permit, hitting sets, closures, symmetries, implications | the family promised |
| Conversions, renaming | `src/qdd*.cpp`, `src/unreduced_dd*.cpp`, `src/dd_permute*.cpp` | memo tables | `to_bdd`, `to_zdd`, `to_qdd`, `reduce_as_*`, permutation of variables | the meaning is kept, level by level |
| Counting, ranking, sampling | `src/zdd_adv_count*.cpp`, `src/zdd_adv_rank*.cpp`, `src/bdd_class.cpp`, `include/zdd_random_iter.h` | memo objects keyed by slots | counts, rank, unrank, first k, samples, iterators | rank and unrank are inverse; samples have the law promised; memo objects are not used when stale |
| Weights and cost bounds | `src/zdd_adv_weight*.cpp`, `src/zdd_weight_iter.cpp` | `CostBoundMemo` (intervals, a generation) | lightest sets, cost bounds, iterators by weight | an interval hit gives the answer a fresh run would |
| MTBDD, MTZDD | `include/mtbdd_*.h`, `src/mtbdd*.cpp` | terminal tables, operation codes | apply, ite, threshold, conversions | values survive collections and `bddfinal`; functors never read each other's entries |
| Permutations | `src/pidd*.cpp`, `src/rotpidd*.cpp` | level tables | product, quotient, cofactors, extremes, parity, enumeration, optimisation | the set of permutations promised |
| Sequences | `src/seqbdd.cpp` | none | push, onset, offset, concatenation, left quotient, listing | the set of sequences promised |
| Other clients | `src/mvdd.cpp`, `src/sop.cpp`, `src/bddv.cpp`, `src/btoi.cpp`, `src/ctoi.cpp`, ... | variable tables | multi-valued diagrams, cubes, vectors | not modelled |
| Edges of the system | `src/bdd_io*.cpp`, `src/svg_export*.cpp`, `python/`, `app/` | files, Python objects | import, export, drawing | not modelled |

(Paths are relative to `src/` of the repository.) The parts interact by calls
and through the shared tables only. An operation enters the bracket, descends
from the edges of its operands' objects, calls `getnode_raw`, reads and writes
the cache, and returns a raw edge that the caller stores in an object. The
collector is the one callback: it can run inside `allocate_node`, at the entry
of a bracket, and between two attempts.

The hard behaviours, listed with their lines under `hazards` in `PROJECT.json`:
collections at a point where raw edges are held; recycled slots under cache
entries, memos and objects; failures half-way through the creation of a node;
the retry after an overflow; nested brackets and exceptions; variables inserted
under existing diagrams; re-initialization while objects exist; the limits
(table at its maximum, recursion limit, operation codes, saturated counts and
weights); two forms of one operation that share cache entries; keys that leave
out something the result depends on; and operations run on diagrams they were
not written for (the ZDD operations under SeqBDD).

## 2. Modules

The core, where nodes, slots and collections are explicit:

    VarOrder <- NodeTable <- Semantics <- DDManager <- MCDDManager
                                 ^---- Apply (implements SetAlgebra) <- MCApply

and the proofs about it:

    NodeTableProofs <- DDManagerProofs
           ^---------- ApplyProofs

The algorithms, on families and functions, with the stack, the cache and the
memo of every loop explicit (Frames):

    Family <- ZddLoops <- ZddOps <- ZddFilter <- ZddSym <- PermVars <- PiDD, RotPiDD
       ^         ^------ ZddIterative <- ZddIterativeProofs       (in Frames)
       ^------ SeqBDD             ZddAlgebra = calls of all of these
       ^------ BddLoops <- BddOps <- Convert <- BddAlgebra = calls of these
                  ^------ BddIterative <- BddIterativeProofs     (in Frames)
    ZddOps, BddOps <- Counting <- Ranking <- Weights <- Sampling
                     Queries = calls of Sampling, Multi, SkipLevels

    LoopState <- Frames
    Operations = ZddAlgebra, BddAlgebra, Queries (instances), in Frames,
                 with ZddIterative, BddIterative <- MCOperations

What is kept between calls, with slots, memos and retries again explicit:

    Family <- Bounds <- Weights
                ^------ Sessions <- SessionsCallsProofs <- SessionsProofs
                                    NatRec <---^ (instances)

| Module | What it models |
|---|---|
| `VarOrder` | `bddnewvar`, `bddnewvaroflev`, the loss of all variables in `bddfinal` |
| `NodeTable` | slots, allocation, growth, normal forms of the six kinds of node, `getnode_raw` with its rollback, mark, sweep, reset |
| `DDManager` | objects, collections, `getnode` called by the program, the bracket, an operation that does whatever code inside a bracket can do, and the properties about what objects mean |
| `Semantics` | the function or family an edge denotes, and the normal form of each kind |
| `SetAlgebra` | abstract: objects hold functions; a call is answered or refused |
| `Apply` | `bddand`, `bddxor`, `bddunion`, `bddintersec`, `bddsubtract`, `bddsymdiff` as the frames of their explicit stack, inside the bracket |
| `Family` | what an algorithm sees of a diagram (top, lo, hi, node, complement bit), and the vocabulary of loop bodies |
| `LoopState` | the state of a program in such a loop: the call, the stack, the result register, the cache |
| `Frames` | the loop itself; one step per pass |
| `ZddLoops` | the iterative forms of 17 operations of `zdd_ops*.cpp` and `zdd_adv*.cpp`, in a module without recursive operators, so that they can be proved right |
| `ZddIterative` | a program that calls these in iterative mode, what each promises, and `LoopsRight` |
| `ZddOps`, `ZddFilter`, `ZddSym` | the recursive forms, and the other operations, of `zdd_ops*.cpp`, `zdd_adv_filter*.cpp`, `zdd_adv2*.cpp` |
| `BddLoops` | the iterative forms of 11 operations of `bdd_ops*.cpp`, in a module without recursive operators |
| `BddIterative` | a program that calls these in iterative mode, what each promises, and `BddLoopsRight` |
| `BddOps`, `Convert` | the recursive forms, and the other operations, of `bdd_ops*.cpp`; conversions between BDD, ZDD, QDD and unreduced diagrams, renaming of variables |
| `PermVars`, `PiDD`, `RotPiDD` | sets of permutations: the level tables, transpositions, rotations |
| `SeqBDD` | sets of sequences: ZDDs that are ordered along lo only |
| `Counting`, `Ranking`, `Weights`, `Sampling` | counts with their limits; orders, rank and unrank; weights, cost bounds with the interval memo, iterators by weight; samples by their laws |
| `Multi` | operations on MTBDDs and MTZDDs |
| `SkipLevels` | `set_zskip` and `zlev` with a lossy cache |
| `ZddAlgebra`, `BddAlgebra`, `Queries` | the calls of these operations, what each promises, and the properties of a call that has ended |
| `Operations` | the program that makes all these calls one after the other, in one loop and one cache |
| `Bounds` | the ends of `long long`, sums that stay there, the sets a cost bound allows |
| `Sessions` | what is kept between calls: memos, operation codes, terminal tables, the retry of a conversion, `bddfinal` |
| `MC...` | the instances TLC checks |
| `...Proofs` | the theorems: `NodeTableProofs` also those on the variable order and on `Semantics`, `ApplyProofs` the lemmas on one frame |
| `NatRec` | what a function on the naturals defined by recursion is, and the fact that it unfolds |

### How state corresponds to code: the core

* A slot number n is the code's node id 2n; `[node, comp]` is a `bddp`; `node = 0`
  is the constant flag, with the terminal's index in `comp` and -1 for `bddnull`.
* The free list is a set. The order in which its slots are handed out is thus
  left open, which allows more behaviours than the code has.
* The unique tables are the set of slots entered in them (`table`); a lookup is
  the set of entered slots with the given variable and children. Hashing and probing
  are abstracted away; enlarging a table appears by its failure, which
  makes `getnode_raw` roll back.
* An object is a handle with a root edge. An object that is not constructed has the root
  `bddnull`, which the collector skips as it skips an unregistered address.
* `temps` are the local variables of an operation in `DDManager`: edges with the
  kind they are of. `args` are the objects it was called on, which is what a second
  attempt starts from. Frames play that role in `Apply`.
* The cache is a set of entries; a write replaces the entry of the same key and at most one
  other. Which entry collides is left open.
* `DDManager!Next` contains every step a program can take at the API of objects
  (`ObjectStep`, `NodeStep`, creation of variables, `Gc`, `Reinit`), and the
  steps inside a bracket (`OpStep`). `OpThrows` is an exception that reaches the
  program, whatever its cause.
* `Apply` treats the recursive and the iterative form of an operation as one:
  they take the same steps in the same order. The recursive one has a limit on its
  frames. The choice between them (`Recursive`) follows `BddExecMode`.

### How state corresponds to code: the algorithms

* A canonical diagram is determined by what it stands for, so a ZDD is its
  family of sets and a BDD the set of its satisfying assignments; equality of
  edges is equality of sets. What justifies this is the core: `NoDuplicates`,
  `Ordered` and `Canonical`, all of them proved. A test on the edge itself (the
  complement bit, a terminal, the level of the root) is modelled by what it says of
  the set: the bit of a ZDD edge, for instance, is the membership of the empty set.
* `foo` or `foo_rec` is the recursive function, `foo_iter(a, got)` one pass of the
  loop: from the operands of the frame and the results it has so far (the phase),
  it gives an answer, the next frame, or the value with the keys it is cached
  under. `Frames!Step` runs it: cache lookup, push, pop.
* The cache of a call is kept between its frames only. That is enough to let two
  frames meet in an entry; what survives between calls, collections and retries
  is the subject of `Apply` and `Sessions`.
* A family of the constructors' validated nodes is ordered. `bddpush`, on which
  SeqBDD rests, skips the validation and makes nodes whose hi child may be at or
  above them. `Ordered` is therefore a statement about the validated
  constructors, and `SeqBDD` has definitions of its own for the ZDD operations
  on such diagrams.
* In PiDD and RotPiDD the level tables filled by `NewVar` are computed by
  `TablesAfter` and given to the module as a constant that an assumption
  ties to it. Only distinct pairs of elements are exchanged or rotated,
  as the callers in the code do.
* Samples are laws (exact fractions) rather than draws; weighted walks use
  doubles in the code.
* `Sessions` keeps nodes, slots and the table explicit again, without complement
  bits, and runs four operations with everything they keep between attempts. A
  recursion of the code, such as `bddcostbound_rec`, is written as its body over the
  recursion one level lower (`CostBoundBy(n, below)`) and the function on levels it
  defines (`bddcostbound_rec[n]`): the code recurses on children only, whose
  level is lower, and a function, unlike a RECURSIVE operator, can be proved about.
  Its assumptions are what the code's types give: weights are `int`s and variables
  few enough for no sum of weights to reach the end of a `long long`
  (`WeightsAssumption`); bounds of cost are `long long`s.

Definitions named after a mistake and introduced by the word "Mutant" are not
part of any specification. Each is a plausible bug in the definition that
follows it; substituted for that definition it makes one of the
properties fail, which shows that the property depends on the code.

## 3. Runs

Every run finishes within four minutes with two workers.

| Run | Question | Bounds |
|---|---|---|
| `objects` | Is equality of roots equality of functions, and does an object keep its meaning, whatever two BDD objects go through? | 2 objects, 2 variables, 3 slots, no open bracket |
| `insert_vars` | What do inserted variables, nested brackets and a re-initialization do to existing diagrams? | 1 QDD object, 3 variables, 2 slots of which 1 at first (so the table grows), nesting 2, 2 held edges |
| `guarded_op` | Can an operation, its failures and its retry leave a dangling edge or overwrite a live node? | 1 BDD object, 2 variables, 2 slots, 2 held edges, 1 cache slot |
| `zdd_unreduced` | Do unreduced nodes stay out of the unique tables, and out of the other kinds? Is what is held of a kind in its normal form all the way down? | 1 ZDD, 1 unreduced object, 2 variables, 2 slots, 1 held edge |
| `apply` | Do the six operations compute what they promise, in a table that overflows? Do they leave it in normal form, and fail for their depth only where the choice of the form makes them? | 2 objects, 3 variables, 7 slots of which 5 are used at first, 2 calls, 1 cache slot, recursion limit 3, forced iteration or `Auto` |
| `apply_auto_depth` | Does `Auto` avoid the recursion limit? (It does not.) | as `apply`, with ZDDs in `Auto` only |
| `operations` | Do loops and recursion give what is promised, and refuse what they must, and is every cache and memo entry true? On families, permutations and sequences (`Families...`, `Family...`); on functions, conversions and renamings (`Functions...`, `Function...`); for counts, ranks, bounds, samples, iterators, multi-terminal operations and level shortcuts (the rest). Is every pass of the loops that are proved (`LoopsRight`, `BddLoopsRight`)? | all 256 families over 3 variables, which are all functions, as first operand, 7 or 4 as second; permutations of 3 elements in 4 variables, of which one is foreign; 128 sets of sequences up to length 3 over 3 symbols; trees of unreduced nodes three levels high; sizes of the variable space from -1 on; weights of both signs; counts that saturate at 5 and weights at 8; chains of 72 levels for the shortcuts |
| `seq_remainder` | Does `f % p` make up for what `f / p` leaves? (It does not.) | the sequences of `operations`, one operation |
| `seq_quotient` | Is `f / p` the intersection of the quotients by each sequence of p? (It is not.) | the same |
| `rot_remove_max` | Does RotPiDD's `remove_max` leave permutations of the elements below k? (It does not.) | the permutations of `operations`, one operation |
| `sessions` | Is a number kept from one call to the next ever read as something it no longer names? | 2 objects, 3 slots, 2 variables, 8 calls (5 with values), 2 collections counted, 1 `bddfinal` |
| `threshold_retry` | Does `threshold_gt` survive its own retry? (It does not.) | as `sessions`, programs with values only |

Why the bounds are enough. In the core two variables give a node whose child is
a node, hence sharing, normalization below the top, and an edge that dangles one
level down; three give an insertion between two. Two slots are enough for every
path of the allocator: free list, fresh slot, growth (with `InitCount` below
`NodeMax`), exhaustion, rollback of the last and of another slot, reuse of a freed
slot. In `apply` the operands are two nodes of the upper variable over two
different nodes of the middle one, so a frame holds the result for its lo side
while a two-level diagram is built for its hi side; that is the shortest descent
in which a recycled slot can hurt a frame. A second choice of operands, a node of the
middle variable and its complement, lies below the recursion limit. A call makes up to three nodes and two
slots are free, so a first call may succeed, succeed at its second attempt, or be
refused; the second call meets what it left. The cache's one slot makes every
collision possible. With a recursion limit of 3, `Auto` takes the recursive form,
for ZDDs up to the limit, and the other mode takes the iterative form. The runs
of `DDManager` switch deadlock checking off: with tight bounds an instance may stop.

In the algorithms three variables, in an order that is not that of their numbers,
give every relation of two tops (above, equal, below), a skipped level, and both
terminals below one node; all families and functions are taken as first operand.
Three elements are the fewest on which two transpositions or rotations overlap
in every way the code distinguishes. A sequence of three symbols over levels that
rise again is the shortest whose diagram no ZDD would have. Saturation is reached
because the limits of counts and weights (2^39 - 1, the ends of `long long`) are
the constants `CardMax` and `WeightMax`. In `sessions` three slots are fewer than
two calls need, so that slots are reused at once.

Bounds that are not in the code: `VarMax`, `NodeMax` (in the code `bdd_node_max`, of
any size), `TermMax`, `DepthMax` (nesting of brackets; 0 means that no operation
runs), `TempMax` (edges held at a time), `CacheMax`, `CallMax` (calls of `Apply`),
`CardMax` (of `Counting`), `WeightMax`, `MaxCalls`, `MaxGeneration`, `MaxEpochs` (of `Sessions`), the operations
a program of `Operations` calls (`Called`: all of them, or the one a violating run is about), and the sets
of operands of the MC modules. Calls of `Apply` have the form `x op= y`, and `MCApply`
chooses the initial table from a few that share nodes and complement edges.
The objects of `sessions` are interchangeable, hence its symmetry.

Fairness. Only `Apply` has a liveness property, `EveryCallEnds`, under weak
fairness of `OpStep`, the steps of the running operation. The program is a
single thread inside a C++ function: as long as the function has a next step
it takes it. No fairness is assumed of the program, which may stop calling. The
loops of the other modules end because their runs check for deadlock and every call
ends in a state `Finished`; their stacks are bounded by the levels.

Refinement. `KeepsPromise` is `SetAlgebra!SetAlgebraSpec` with `value` mapped to
the meaning of each root and `pending` to the call in progress: the initial states
map to initial states, and every step to a request, an answer with the right
function, a refusal, or a stutter. It covers cache hits, collections, the
retry and recycled slots. TLC checks it on the instance; `PromiseKept` proves it.

### Findings

`AutoNeverTooDeep`: `include/bdd_types.h:203` says of `Auto` "recursive if max operand level <=
BDD_RecurLimit, else iterative", which is to keep the recursion within its limit, and
`test/test_exec_mode.cpp:2-4` that it succeeds beyond it. It fails at exactly the limit: the
choice compares the operands' level with `BDD_RecurLimit`, the recursion guard
counts calls, and the recursive ZDD operations also take the guard in the call on the constants
below level 1. An operand whose level is exactly `BDD_RecurLimit` (8192), with a node
on every level, makes `bddunion` in `Auto` throw "BDD recursion depth limit
exceeded"; with 8191 or 8193 levels it succeeds. `bddand` and `bddxor` are not
affected: two nodes on level 1 are always a terminal case.

`threshold_retry`: `threshold_to_zdd` (`include/mtbdd_class.h:905`) makes the memo of
the conversion outside the function `bdd_gc_guard` runs. After an overflow the
guard collects and runs the function again, which takes freed edges out of the
memo. The result can have a node that is its own child. The other conversions
make their memo inside. In `sessions` a program follows this pattern only if
`Tolerated` names it, so that the other properties are checked of everything else.

`seq_remainder`: `f % p` is computed as `f - (f / p) * p` although `/` is a left quotient
and concatenation does not commute. For f = {ab, ba} and p = {a} the documented identity
`f == p * (f / p) + (f % p)` gives {ab}. The test of that name uses a set where it holds.

`seq_quotient`: `docs/api/cpp/ops_seqbdd.rst:68-70` calls `f / p` "the intersection of individual
quotients". The code takes the divisor apart by the symbols it begins with, and holds the members of f that begin with
one against those sequences of p only: a tail that, after one
sequence of p, goes on as another sequence of p does is left out. f = {a, aa} by p = {empty, a} gives {}
instead of {a}. `FamiliesRight` promises the tails the code keeps, with that
exception spelled out (`Continued` of `SeqBDD`); `QuotientIsIntersection` states what the document says.

`rot_remove_max`: `docs/api/python/rotpidd.rst:257-258` and `docs/api/cpp/ops_rotpidd.rst:310` promise that
`remove_max(k)` removes the variables with x >= k and projects each permutation down to one of
k - 1 elements. The code lowers the threshold with every rotation it passes and puts a removed rotation (x, y) back as
(x - 1, y), wherever x - 1 is: the rotation (3, 1) by k = 2 becomes the rotation (2, 1), which
moves the element 2. `FamiliesRight` promises what the code does to each permutation (`Lowered` of `RotPiDD`, on
the list of its rotations, for all members at once); `RemovedBelow` states what the documents say.

One more observation has no run: a `CostBoundMemo` carried over `bddfinal` compares its generation
with a counter that starts again at 0 (pattern "bound memo over bddfinal" of `Tolerated`); no document says whether
that is allowed.

## 4. Proofs

The theorems hold for every `VarMax`, `NodeMax`, `InitCount`, `TermMax`, every set of
handles and assignment of kinds, every bound on nesting, held edges, cache and calls, every
`GcLimit` and `RecurLimit`, under the named assumptions of the modules
(`VarMaxAssumption`, `NodeTableAssumption`, `DDManagerAssumption`, `ApplyAssumption`:
the constants are naturals, the initial capacity and the threshold are within the
maximum, and the modes are those of `BddExecMode`; for the loops of `ZddLoops` and `BddLoops`
`FamilyAssumption`: the levels are those of finitely many variables 1..n in some order;
for `Sessions` `SessionsAssumption` and `WeightsAssumption`, section 2).
For `Apply` they hold from every
initial state in which all variables exist, the table is sound and the objects refer
to diagrams in the normal form of their class (`WellFormed`), not only from the few
that `MCApply` chooses.

| Theorem | States |
|---|---|
| `LevelsAlwaysInverse` | `bddlevofvar` and `bddvaroflev` are inverse |
| `OrderNeverSwapped` | creating a variable swaps no two others |
| `Invariance` | the inductive invariant `IInv` holds always |
| `AlwaysTypeOK` | types, capacity, depth zero iff no operation |
| `NothingDangles` | objects, held edges, cache entries and children point to nodes |
| `MaximalSharing` | no duplicates; unique tables exact |
| `OrderedAndReduced` | reduced nodes are ordered with reduced children; the reduced kinds refer to reduced nodes only |
| `TablesAlwaysExact` | the unique tables hold exactly the reduced nodes |
| `KindsNeverMix` | no holder of a reduced kind refers to an unreduced node |
| `LiveNodesNeverChange` | no step overwrites a reduced node an object can reach |
| `ImplementsVarOrder` | the package implements the specification of the variable order |
| `KindsAlwaysPure` | what is held of a kind is in the normal form of that kind, all the way down |
| `AlwaysCanonical` | objects of a class with one meaning have one root edge |
| `MeaningAlwaysKept` | no step changes what an object that it does not assign means |
| `QddsAlwaysStayComplete` | no step takes a level out of a QDD, as long as no variable is inserted between others |
| `ApplyInvariance` | the inductive invariant `ApplyInv` holds always |
| `AlwaysWellFormed` | the operations leave the table sound and the objects in normal form |
| `CacheAlwaysRight` | every cache entry is the right answer for its key |
| `FramesAlwaysRight` | what only the frames hold is neither freed nor wrong |
| `PromiseKept` | `Apply` implements `SetAlgebra` |
| `StackAlwaysBounded` | the stack is never deeper than the higher operand has levels, plus one |
| `AutoFailsOnlyAtLimit` | `Auto` fails for its depth only at exactly level `BDD_RecurLimit`; the iterative form never |
| `LoopInvariance` | the inductive invariant `LoopInv` of the iterative ZDD loops holds always |
| `LoopsAlwaysRight` | 17 iterative ZDD operations end with what they promise and leave only right cache entries, for any number and any order of variables |
| `BddLoopInvariance` | the inductive invariant `LoopInv` of the iterative BDD loops holds always |
| `BddLoopsAlwaysRight` | 11 iterative BDD operations end with what they promise and leave only right cache entries, for any functions of any number of variables in any order |
| `SessionsCorrect` | the inductive invariant `SessionsInv` holds always, of every program that follows no pattern of `Tolerated` |
| `FamiliesAlwaysKept` | then a ZDD has the family its operation promised, whatever is collected, retried or finalized |
| `ValuesAlwaysKept` | an MTZDD has the values it was made with, until `bddfinal` takes its terminals |
| `CodesAlwaysApart` | a cache entry is never read under the code of another functor |
| `CountsAlwaysCurrent` | a kept `ZddCountMemo` counts the nodes as they are |

**The table** (`NodeTableProofs`, `DDManagerProofs`). None of `NoDangling`, `NoDuplicates` and `Ordered` is inductive alone. `NoDuplicates` needs
that lookups see every reduced node (`TableExact`); that, after a sweep, needs that
reduced nodes have reduced children and live children are live; that the sweep frees
nothing that is read needs that while edges are held the collector is off, or
that the held edges are dropped with the attempt. So
`IInv` is the conjunction of `TypeOK`, `StoreInv` (children point to nodes, no duplicates, exact tables,
order), soundness and kinds of the three sets of edges (roots, held edges, cache),
and the inverse arrays, with the fact that held edges and arguments exist only inside a bracket.
`NodeTableProofs` has one lemma per way the table changes (a node
made, rolled back, made after a sweep, overwritten; the sweep; new levels; a
new variable; a reset), each stating that `StoreInv` is kept and which edges
remain sound. `ReachFacts` says what marking gives: the marked slots contain the
roots, are closed under children, and lie in the used part. `DDManagerProofs` has
one lemma per group of actions and puts them together in `Invariance`.

**Meanings** (`NodeTableProofs`, second half). `Value` follows an assignment down a diagram. It is a
recursive function of the number of nodes on the way, which is below the level, so what is
said of it is shown by taking a lowest counterexample: the set of levels of
counterexamples has a least element (`NatMin`), and one step down contradicts it. No induction over
data is needed. `ValueUnfolds` is the equation that gives the value of an edge by
that of a child, and `Twins` the case of two edges of one meaning.
Canonicity rests on two facts at every level: equal children of two
reduced nodes give equal nodes (`NoDuplicates`), and a node is not made when it would be
redundant or its complement bit misplaced (the normal form of its kind, `Diagrams`).

**Meanings of objects** (`DDManagerProofs`, second half). That everything held of a kind is in the normal form of
that kind is not obvious, because the kinds share one unique table and find each other's
nodes: a BDD lookup may return a node a QDD made. The invariant has to say that there is a
set of nodes, closed under children and in normal form, that contains all that
is held of the kind (`KindsPure`, an invariant the runs check too). It is kept
since a node found by its children has the normal form of the kind that looks it
up: the children are of the kind and the test for redundancy was made before the lookup
(for a QDD, which has none, the same with levels in place of redundancy: `Full`).
`AlwaysCanonical` and `MeaningAlwaysKept` follow from `IInv`, `KindsPure` and
the facts about meanings; the step lemma behind the latter is that a step keeps the
nodes an object reaches, which `LiveNodesNeverChange` gave in the table.

**The operations** (`ApplyProofs`). The first half looks at one frame and no
state change: terminal cases are right; the pair an operation goes on with, and caches under,
has the answer of the operands up to the complement bit it notes; the answer for
a pair is the node over the answers of the cofactors ("both"), the answer of the lo
sides ("pass") or the hi side of f kept ("keepHi"). `ApplyInv` then says that
objects and cache entries are right and that the stack fits: there is a chain of pairs, the first the operands of the
call, such that frame i was opened for pair i and waits for the answer to pair i + 1, with a
right answer for its lo side if it already waits for the hi side; and the result register answers the last
pair (`StackFor`). `CacheRight` alone is not inductive: an entry is written from a frame. `FramesRight` alone is not either:
it says that the frames' edges are right for the frame, not that the frame is the one the frame below asked for.
Collections can only happen when the frames are empty: at the entry of the bracket, and between the attempts after the frames were
dropped. The other steps keep every node (`StepKeeps`), or those the objects reach when
a slot is recycled (`StepSafe`), and so keep every meaning that is used later. `PromiseKept` maps the step that begins a call to a
request, the one that ends it to an answer, the one that throws to a refusal, and every other one to a stutter.
The depth needs one more fact, that a frame works on a lower pair than the frame below it
(`AsksLower`), and `DepthInv`, that a call that may recurse had operands within the limit.

**The loops over families** (`ZddIterativeProofs`). The promises of `offset`, `onset`, `change`, `join`, `meet`,
`delta`, quotient, the four filters, `closure` and the rest are closed formulas on
families (`LoopPromise`), so they need no induction. The proof has two halves.
The first looks at one pass of one body and at no state: if what the frame has got so far are the
promises of what it asked for (`Asked`), then what it answers or caches is the promise
of its arguments, and of every pair of arguments its cache key stands for, and what it asks for
next is within range (`PassRight`, and `BodyRight` for all 17). It rests on
what a family is made of: it has a highest variable (`HasMax`, `LevelFacts`), its two sides lie below it
(`SideFacts`, `SidesBelow`), and the node over two sides is the family again (`NodeIs`). Each operation then
has a law that splits it over the sides of its operands (`JoinSplit`, `MeetSplit`, `DeltaSplit`,
`DisjoinSplit`, `QuotientMembers`, `IncludesSplit`, `WithinSplit`), one case per relation of
the two tops. These laws are where the operations differ and where a wrong side, a
missing case at the terminals or a key sorted for an operation that does not commute would show.
The second half is about the loop and holds of any bodies that are right: `LoopInv` says that each frame
works on what the one below asked for (`Links`), that what it has got is right, that every
cache entry is right, and that an empty stack leaves the promise in the result register. `LoopsRight` without the links
is not inductive, since a result is handed to the frame below as the answer to what that one
asked. `FamilyAssumption` is all that is assumed. That a loop terminates is not proved.

**The loops over functions** (`BddIterativeProofs`). The same two halves, for `bddite`, `bddat0`, `bddat1`,
`bddsmooth`, `bddimply`, `bddcofactor`, `bddexist`, `bdduniv`, `bddspread` and the two shifts. What is different
is how the code deals with complement bits and which keys it shares:

* A function is the set of assignments that satisfy it, and `Depends` the variables it depends on. Its value at an assignment
  outside them is that of the assignment without them (`Covers`, `HigherIgnored`), which is what `At` (the side of a
  variable), `Exists` and `ForAll` are computed by. No level of a function is above its top (`TopFacts`).
* A loop that takes a complement bit off opens a frame for the function it
  complements, and puts the bit back on the result. In the model that is a frame of its own
  that only asks and hands on (`RelayPass`), and `PassRight` of it says that the
  promise of the operation commutes with the complement. `bddite` does so for the second operand too, after
  it swapped the last two, and `IteRight` goes through these rewritings one by one: the mutant of
  `BddLoopsRight` leaves out the one that turns the result back.
* A cache key of `bddexist` or `bdduniv` answers for both signs of the variable set, which is why `MembersOf` and not the edge is what an answer depends on.
  `StripIs` and `CubeFacts` say what is left of a set when its highest variable is taken off.
* The shifts move the levels of a function (`Moved`); `MovedNode` says that the node over two moved sides is the
  moved node, and `RShiftPromise` that a right shift throws exactly where it would move a variable below level 1,
  at whichever depth that is found.
* `bddcofactor` has no closed formula. Its promise is the one of its documentation, that it agrees with f
  wherever g holds and depends on no further variable; it admits more than one answer, and
  `BddKept` is a relation for that reason.
* `bddspread` allows a distance that is used up on the way down; `NearSides` splits it between the
  two sides.

That shifts to the left stay within the variables there are (`BddFits`) is all that is assumed of the calls.

**What is kept between calls** (`NatRec`, `SessionsCallsProofs`, `SessionsProofs`). None of the
four invariants the run checks is inductive. That a ZDD keeps its family needs the bound memo to be
right when `bddcostbound_le` reads it, the code of a cached result to name the functor that
made it, the terminals to be those the codes of nodes refer to, and the collector to
drop everything that mentions a slot before the slot is used again. `SessionsInv` says so for
each thing that is kept:

* `StoreOK`, `TableOK`: nodes point to nodes of lower levels, and terminal 0 is the value 0 (a
  collection keeps the terminals, a call may add some, `bddfinal` starts with a new table);
* `CodesOK`: no functor has a code of another, and all codes are below the next
  one, which only grows, over `bddfinal` too;
* `CacheOK`: an entry has a code already given out, is about nodes, and is the result of the functor that
  has its code. "Already given out" is what makes a new code safe: nothing in the cache can have it;
* `HeldOK`: each object has the family or the values it was made with; an MTZDD that outlived
  `bddfinal` is promised no values;
* `MemoOK`: the entries of `CostBoundMemo` are right if the memo was filled since the last
  `bddfinal` and its generation is the current one, and it is never of a later one. That the second follows only with the first
  is the reason why "bound memo over bddfinal" is a pattern of `Tolerated`;
* `CountsOK`: a kept count map is right on the nodes below its diagram, which an object holds, so that none of them is
  ever freed.

Each call is first looked at with no state of the program, on the library it works on
(`SessionsCallsProofs`). A collection keeps every node that a root reaches and changes nothing of it
(`Carried`); a call that makes nodes keeps all that were there (`Grown`); so everything that is right of edges
which are kept remains right. `apply`, `bddcostbound_le`, `threshold_gt` and `exact_count` then have one lemma each, by
induction over the level of the operands: started in a good library they leave one, and
either answer what is promised or have run out of slots, in which case the library
is still good but gives no answer, and the second attempt starts from what the collection leaves of it. For `bddcostbound_le` the lemma also says that the answer is right for
every bound in the interval it returns, whose two ends are kept by sums that stop at the ends of `long long`; this is why
`WeightsAssumption` is needed, and the only place where it is.
The induction is over the naturals: `NatRec` shows that the function a
recursion defines exists and unfolds (from the finiteness of 0..n, since the induction
theorems of the library cannot be used), and each lemma is a set of levels that contains 0 and with n also n + 1.
`SessionsProofs` has one lemma per action. `Tolerated = {}` is the only assumption on the program: it calls `threshold_gt` only where that needs no second
attempt, and uses no bound memo filled before a `bddfinal`. Without the first the statement is false, as
`threshold_retry` shows.

Only model-checked: liveness (`EveryCallEnds`) and termination of the loops, which the prover cannot handle; and the
other invariants of `Operations`, whose modules
declare recursive operators over families, functions and lists (the recursive forms
are there to be compared with the loops, and counts, costs and samples are recursive by nature), out of the
prover's reach. So the recursive forms, `bddandexist`, `bddoruniv`, `bddswap`, the conversions and the renamings
are checked for all operands over three variables, and not proved.

## 5. Not modelled

* Multi-valued diagrams (`mvdd.cpp`), cubes and vectors of diagrams (`sop.cpp`, `bddv.cpp`,
  `zbddv.cpp`, `mlzbddv.cpp`, `btoi.cpp`, `ctoi.cpp`): encodings on top of operations
  that are modelled. Noticed while reading, with no run about it: `MVBDD::ite`
  (`src/mvdd.cpp:340-345`) keeps its result in a plain local variable across `bddand` and `bddor`, which
  may collect before they begin, and so do `BDD::cube` and `BDD::clause`
  (`src/bdd_class.cpp:25-56`) across `bddprime`, `bddand` and `bddor`; the models hold a child of a
  node to be made in an object or in a bracket, so that no property would show it.
  `MVZDD::from_sets` protects its accumulators against such a collection, as the comment at
  `src/mvdd.cpp:664-666` says.
* Import, export and drawing: their content is the text. Statistics and printing, except
  the listings of permutations and sequences, where what is listed matters.
* The TdZdd front end, big integers (unbounded integers in the models), the Python
  binding, the sample applications, permutations as values.
* In the parts that are modelled: the sizes of hash tables and their growth, except the failure of
  it; the width of `bddp` (48 bits) and of levels, which no bound reaches; cache entries
  written by the user; `clear()` of a memo or a terminal table by the user; variables inserted
  between two calls of `Apply` or of the algorithms; `ZDD_Random` and the random families;
  `random` draws themselves.
* MTBDD and MTZDD nodes have no instance of `DDManager` (the proofs cover all kinds); their values and
  collections are checked in `sessions`, their operations in `operations`.
