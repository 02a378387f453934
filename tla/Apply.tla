-------------------------------- MODULE Apply --------------------------------
(***************************************************************************)
(* The binary operations on BDDs and ZDDs, step by step: bddand, bddxor,   *)
(* bddunion, bddintersec, bddsubtract and bddsymdiff.                      *)
(*                                                                         *)
(* Each has a recursive and an iterative form (foo_rec, foo_iter) that     *)
(* take the same steps; the frames of the explicit stack stand for the     *)
(* recursive calls as well.  The recursive form alone is subject to the    *)
(* recursion limit.  The call runs inside bdd_gc_guard, with its operands  *)
(* held by objects and everything else it has by nobody but its frames.    *)
(***************************************************************************)
EXTENDS Semantics, FiniteSets, Sequences, SequencesExt

CONSTANTS
  Handles,      \* the objects of the program
  GcLimit,      \* bdd_node_max * bdd_gc_threshold, rounded down
  CacheMax,     \* number of slots of the operation cache
  RecurLimit,   \* BDD_RecurLimit
  Modes,        \* the values of BddExecMode the program passes
  CallMax       \* bound on the number of calls

ASSUME ApplyAssumption ==
  /\ GcLimit \in 0..NodeMax
  /\ CacheMax \in Nat \ {0}
  /\ RecurLimit \in Nat \ {0}
  /\ CallMax \in Nat
  /\ Modes \subseteq {"auto", "recursive", "iterative"}

VARIABLES
  kind,         \* "bdd" or "zdd", the class of the objects
  root,         \* the root edge of every object
  cache,        \* the operation cache: [op, f, g, result]
  call,         \* the call in progress: [op, mode, f, g, dest] or NoCall
  attempt,      \* of bdd_gc_guard
  frames,       \* the stack of the operation, its top last
  result,       \* the result of the frame popped last
  outcome,      \* why the last call failed, or "none"
  calls         \* the calls made so far

callVars == <<call, attempt, frames, result, outcome, calls>>
vars == <<orderVars, tableVars, kind, root, cache, callVars>>

NoCall == [op |-> "none"]
Idle == call = NoCall

OpsOf(k) == IF k = "bdd" THEN {"and", "xor"}
            ELSE {"union", "intersec", "subtract", "symdiff"}

Live == Reach({root[h].node : h \in Handles})

\* Mutant: the operation cache outlives a collection.
CollectKeepingCache == Sweep(Live) /\ UNCHANGED cache

Collect == Sweep(Live) /\ cache' = {}

\* When the collector has no memory for its mark bits nothing happens.
Bddgc == Collect \/ UNCHANGED <<tableVars, cache>>

ShouldGc == count >= NodeMax /\ used - Cardinality(free) > GcLimit

-----------------------------------------------------------------------------
\* f > g on bddps: constants are the largest, then the slot, then the bit.
Greater(f, g) ==
  LET id(e) == IF e.node = 0 THEN 2 * NodeMax + 2 + e.comp
               ELSE 2 * e.node + e.comp
  IN  id(f) > id(g)

Ascending(f, g) == IF Greater(f, g) THEN <<g, f>> ELSE <<f, g>>

Plain(e) == [e EXCEPT !.comp = 0]

(***************************************************************************)
(* What distinguishes the operations.  For operands f and g,               *)
(*   answers  is the result where it is known at once (or empty),          *)
(*   key      is the pair the operation goes on with, and caches under,    *)
(*   flip     says whether the result for the key is to be complemented,   *)
(*   shape    how the pair is taken apart: "both" sides are recursed into  *)
(*            and joined by a node, "pass" only goes down the lo side of   *)
(*            the higher operand, "keepHi" recurses into the lo side and   *)
(*            keeps the hi side of f.                                      *)
(***************************************************************************)
bddand(f, g) ==
  [answers |-> (IF False \in {f, g} \/ f = Not(g) THEN {False} ELSE {})
               \cup (IF f = True \/ f = g THEN {g} ELSE {})
               \cup (IF g = True THEN {f} ELSE {}),
   key |-> Ascending(f, g), flip |-> FALSE, shape |-> "both"]

bddxor(f, g) ==
  [answers |-> (IF f.node = 0 THEN {IF f = True THEN Not(g) ELSE g} ELSE {})
               \cup (IF g.node = 0 THEN {IF g = True THEN Not(f) ELSE f} ELSE {})
               \cup (IF f = g THEN {False} ELSE {})
               \cup (IF f = Not(g) THEN {True} ELSE {}),
   key |-> Ascending(Plain(f), Plain(g)), flip |-> f.comp # g.comp,
   shape |-> "both"]

bddunion(f, g) ==
  [answers |-> (IF f = False THEN {g} ELSE {})
               \cup (IF g = False \/ f = g THEN {f} ELSE {}),
   key |-> Ascending(f, g), flip |-> FALSE, shape |-> "both"]

bddintersec(f, g) ==
  [answers |-> (IF False \in {f, g} THEN {False} ELSE {})
               \cup (IF f = g THEN {f} ELSE {}),
   key |-> Ascending(f, g), flip |-> FALSE,
   shape |-> IF Level(f) = Level(g) THEN "both" ELSE "pass"]

SubtractShape(key) ==
  CASE Level(key[1]) < Level(key[2]) -> "pass"
    [] Level(key[1]) > Level(key[2]) -> "keepHi"
    [] OTHER -> "both"

SubtractAnswers(f, g) ==
  (IF f = False \/ f = g THEN {False} ELSE {})
  \cup (IF g = False THEN {f} ELSE {})

\* Mutant: the operands are sorted, as in the other operations.
SubtractSorted(f, g) ==
  [answers |-> SubtractAnswers(f, g), key |-> Ascending(f, g), flip |-> FALSE,
   shape |-> SubtractShape(Ascending(f, g))]

bddsubtract(f, g) ==
  [answers |-> SubtractAnswers(f, g), key |-> <<f, g>>, flip |-> FALSE,
   shape |-> SubtractShape(<<f, g>>)]

bddsymdiff(f, g) ==
  [answers |-> (IF f = False THEN {g} ELSE {})
               \cup (IF g = False THEN {f} ELSE {})
               \cup (IF f = g THEN {False} ELSE {}),
   key |-> Ascending(f, g), flip |-> FALSE, shape |-> "both"]

Operation(op, f, g) ==
  CASE op = "and" -> bddand(f, g)
    [] op = "xor" -> bddxor(f, g)
    [] op = "union" -> bddunion(f, g)
    [] op = "intersec" -> bddintersec(f, g)
    [] op = "subtract" -> bddsubtract(f, g)
    [] op = "symdiff" -> bddsymdiff(f, g)

Terminal(op, f, g) == Operation(op, f, g).answers

Cached(op, key) == {c \in cache : c.op = op /\ c.f = key[1] /\ c.g = key[2]}

Written(op, key, r) ==
  LET others == {c \in cache : c.op # op \/ c.f # key[1] \/ c.g # key[2]}
      new == [op |-> op, f |-> key[1], g |-> key[2], result |-> r]
  IN  {kept \cup {new} : kept \in
         {K \in {others} \cup {others \ {c} : c \in others} :
            Cardinality(K) < CacheMax}}

-----------------------------------------------------------------------------
TopVar(f, g) ==
  nodes[(IF Level(f) >= Level(g) THEN f ELSE g).node].var

\* The cofactor of e on side b of variable v; a ZDD that skips v has no set
\* with v.
Cofactor(e, v, b) ==
  IF e.node # 0 /\ nodes[e.node].var = v THEN ChildOf(kind, e, b)
  ELSE IF kind = "zdd" /\ b = 1 THEN False
  ELSE e

Enter(f, g) == [phase |-> "enter", f |-> f, g |-> g]

Opened(op, f0, g0) ==
  LET o == Operation(op, f0, g0)
      f == o.key[1]
      g == o.key[2]
      v == TopVar(f, g)
  IN  [phase |-> IF o.shape = "both" THEN "lo" ELSE o.shape,
       f |-> f, g |-> g, var |-> v, flip |-> o.flip,
       fhi |-> Cofactor(f, v, 1), ghi |-> Cofactor(g, v, 1), lo |-> Null]

LoSide(fr) ==
  Enter(Cofactor(fr.f, fr.var, 0), Cofactor(fr.g, fr.var, 0))

-----------------------------------------------------------------------------
(***************************************************************************)
(* A call.  Operands that are terminal are answered before any guard is    *)
(* opened; then the guard collects if the table is nearly full, and the    *)
(* form is chosen: Auto takes the iterative one for operands above level   *)
(* BDD_RecurLimit.                                                         *)
(***************************************************************************)
MaxLevel(f, g) == IF Level(f) >= Level(g) THEN Level(f) ELSE Level(g)

Recursive(mode, f, g) ==
  \/ mode = "recursive"
  \/ mode = "auto" /\ MaxLevel(f, g) <= RecurLimit

BeginCall(op, mode, f, g, dest) ==
  /\ Idle
  /\ calls < CallMax
  /\ calls' = calls + 1
  /\ op \in OpsOf(kind)
  /\ call' = [op |-> op, f |-> f, g |-> g, dest |-> dest, mode |-> mode,
              rec |-> Recursive(mode, root[f], root[g])]
  /\ \/ /\ result' \in Terminal(op, root[f], root[g])
        /\ frames' = <<>>
        /\ UNCHANGED <<tableVars, cache>>
     \/ /\ Terminal(op, root[f], root[g]) = {}
        /\ frames' = <<Enter(root[f], root[g])>>
        /\ result' = Null
        /\ IF ShouldGc THEN Bddgc ELSE UNCHANGED <<tableVars, cache>>
  /\ attempt' = 1
  /\ outcome' = "none"
  /\ UNCHANGED <<orderVars, kind, root>>

Running == ~ Idle /\ frames # <<>>
Top == Last(frames)

\* Mutant: the limit is one short.
TooDeepEarly == call.rec /\ Len(frames) >= RecurLimit

\* BDD_RecurGuard at the head of the recursive form.
TooDeep == call.rec /\ Len(frames) > RecurLimit

Pop(r) == frames' = Front(frames) /\ result' = r

Push(below, above) ==
  frames' = Append(Append(Front(frames), below), above) /\ result' = result

Entering == Running /\ Top.phase = "enter" /\ ~ TooDeep

UnchangedByStep ==
  UNCHANGED <<orderVars, kind, root, call, attempt, outcome, calls>>

EnterTerminal ==
  /\ Entering
  /\ \E r \in Terminal(call.op, Top.f, Top.g) : Pop(r)
  /\ UNCHANGED <<tableVars, cache>>
  /\ UnchangedByStep

EnterCached ==
  /\ Entering
  /\ Terminal(call.op, Top.f, Top.g) = {}
  /\ LET o == Operation(call.op, Top.f, Top.g)
     IN  \E c \in Cached(call.op, o.key) :
           Pop(IF o.flip THEN Not(c.result) ELSE c.result)
  /\ UNCHANGED <<tableVars, cache>>
  /\ UnchangedByStep

EnterOpen ==
  /\ Entering
  /\ Terminal(call.op, Top.f, Top.g) = {}
  /\ Cached(call.op, Operation(call.op, Top.f, Top.g).key) = {}
  /\ LET fr == Opened(call.op, Top.f, Top.g) IN Push(fr, LoSide(fr))
  /\ UNCHANGED <<tableVars, cache>>
  /\ UnchangedByStep

\* Mutant: the frame of the lo side stays below the one of the hi side.
GotLoAgain ==
  /\ Running /\ Top.phase = "lo"
  /\ frames' = frames \o <<[Top EXCEPT !.phase = "hi", !.lo = result],
                          Enter(Top.fhi, Top.ghi)>>
  /\ UNCHANGED <<tableVars, cache, result>>
  /\ UnchangedByStep

\* GOT_LO: the result of the lo side is kept and the hi side begun.
GotLo ==
  /\ Running /\ Top.phase = "lo"
  /\ Push([Top EXCEPT !.phase = "hi", !.lo = result], Enter(Top.fhi, Top.ghi))
  /\ UNCHANGED <<tableVars, cache>>
  /\ UnchangedByStep

\* GOT_PASS: the result of the one side is the result.
GotPass ==
  /\ Running /\ Top.phase = "pass"
  /\ cache' \in Written(call.op, <<Top.f, Top.g>>, result)
  /\ Pop(result)
  /\ UNCHANGED tableVars
  /\ UnchangedByStep

\* The children of the node that joins the two sides.
JoinLo == IF Top.phase = "keepHi" THEN result ELSE Top.lo
JoinHi == IF Top.phase = "keepHi" THEN Top.fhi ELSE result

Joining == Running /\ Top.phase \in {"hi", "keepHi"}

\* Mutant: an exhausted table is collected although a guard is open; the two
\* children are kept, but not what the frames below hold.
JoinCollecting ==
  /\ Joining
  /\ \E r \in Results(kind, JoinLo) :
       /\ \/ Make(kind, Top.var, JoinLo, JoinHi, r)
          \/ MakeAfterSweep(Live \cup Reach({JoinLo.node, JoinHi.node}),
                            kind, Top.var, JoinLo, JoinHi, r)
       /\ cache' \in Written(call.op, <<Top.f, Top.g>>, r)
       /\ Pop(IF Top.flip THEN Not(r) ELSE r)
  /\ UnchangedByStep

\* GOT_HI: getnode_raw, the cache write, and the result.
Join ==
  /\ Joining
  /\ \E r \in Results(kind, JoinLo) :
       /\ Make(kind, Top.var, JoinLo, JoinHi, r)
       /\ cache' \in Written(call.op, <<Top.f, Top.g>>, r)
       /\ Pop(IF Top.flip THEN Not(r) ELSE r)
  /\ UnchangedByStep

-----------------------------------------------------------------------------
(***************************************************************************)
(* The two causes of std::overflow_error.  The exception unwinds the       *)
(* frames; the guard collects and starts again, once.                      *)
(***************************************************************************)
NoRoom ==
  /\ Joining
  /\ Exhausted
  /\ ~ Redundant(kind, JoinLo, JoinHi)
  /\ Existing(kind, Top.var, JoinLo, JoinHi) = {}

Overflow ==
  \/ NoRoom
  \/ Running /\ Top.phase = "enter" /\ TooDeep

\* Mutant: the guard starts the operation again as often as it overflows.
RetryWithoutEnd ==
  /\ Overflow
  /\ attempt = 1
  /\ Bddgc
  /\ frames' = <<Enter(root[call.f], root[call.g])>>
  /\ result' = Null
  /\ UNCHANGED <<orderVars, kind, root, call, outcome, attempt, calls>>

Retry ==
  /\ Overflow
  /\ attempt = 1
  /\ Bddgc
  /\ attempt' = 2
  /\ frames' = <<Enter(root[call.f], root[call.g])>>
  /\ result' = Null
  /\ UNCHANGED <<orderVars, kind, root, call, outcome, calls>>

GiveUp ==
  /\ Overflow
  /\ attempt = 2
  /\ outcome' = IF NoRoom THEN "exhausted" ELSE "too deep"
  /\ call' = NoCall
  /\ attempt' = 0
  /\ frames' = <<>>
  /\ result' = Null
  /\ UNCHANGED <<orderVars, tableVars, kind, root, cache, calls>>

\* The result is assigned to an object.
Finish ==
  /\ ~ Idle /\ frames = <<>>
  /\ root' = [root EXCEPT ![call.dest] = result]
  /\ call' = NoCall
  /\ attempt' = 0
  /\ result' = Null
  /\ UNCHANGED <<orderVars, tableVars, kind, cache, frames, outcome, calls>>

OpStep ==
  \/ EnterTerminal \/ EnterCached \/ EnterOpen
  \/ GotLo \/ GotPass \/ Join
  \/ Retry \/ GiveUp \/ Finish

-----------------------------------------------------------------------------
\* Between two calls the program collects, or lets go of a diagram.
Gc ==
  /\ Idle
  /\ Collect
  /\ UNCHANGED <<orderVars, kind, root, callVars>>

Forget(h) ==
  /\ Idle
  /\ root' = [root EXCEPT ![h] = False]
  /\ UNCHANGED <<orderVars, tableVars, kind, cache, callVars>>

Next ==
  \/ \E op \in OpsOf(kind), mode \in Modes, f, g \in Handles :
       BeginCall(op, mode, f, g, f)
  \/ OpStep
  \/ Gc
  \/ \E h \in Handles : Forget(h)

(***************************************************************************)
(* The operations may start in any well-formed state: all variables        *)
(* created, a sound table, and objects that refer to diagrams in the       *)
(* normal form of their class (an instance chooses some).  They leave the  *)
(* table well formed, whatever they write to it.                           *)
(***************************************************************************)
WellFormed ==
  /\ VarOrderTypeOK /\ LevelsInverse /\ varcount = VarMax
  /\ StoreInv
  /\ kind \in {"bdd", "zdd"}
  /\ root \in [Handles -> Edges]
  /\ \E S \in SUBSET ReducedNodes :
       Diagrams(kind, S) /\ \A h \in Handles : OfKind(kind, S, root[h])

CallInit ==
  /\ cache = {}
  /\ call = NoCall
  /\ attempt = 0
  /\ frames = <<>>
  /\ result = Null
  /\ outcome = "none"
  /\ calls = 0

\* One thread runs the operation to its end: a step of it that can be taken
\* is taken.
Fairness == WF_vars(OpStep)

Init == WellFormed /\ CallInit
Spec == Init /\ [][Next]_vars /\ Fairness

-----------------------------------------------------------------------------
Meaning(e) == [a \in Assignments |-> Value(kind, e, a)]

Algebra ==
  INSTANCE SetAlgebra WITH
    Objects <- Handles,
    Points <- SUBSET (1..VarMax),
    value <- [h \in Handles |-> Meaning(root[h])],
    pending <- IF Idle THEN NoCall
               ELSE [op |-> call.op, f |-> call.f, g |-> call.g,
                     dest |-> call.dest]

(***************************************************************************)
(* The operations compute what they promise: every call is answered with   *)
(* the function or family asked for, or refused, and whatever happens on   *)
(* the way, reading the cache, a full table, a collection, a second        *)
(* attempt, nodes in recycled slots, changes no other object.              *)
(***************************************************************************)
KeepsPromise == Algebra!SetAlgebraSpec

(***************************************************************************)
(* A cache entry that can be read holds the right result for its key,      *)
(* although slots are recycled: the collection that frees a slot drops     *)
(* every entry.                                                            *)
(***************************************************************************)
CacheRight ==
  \A c \in cache :
    /\ Sound(c.f) /\ Sound(c.g) /\ Sound(c.result)
    /\ Meaning(c.result) = Algebra!Combined(c.op, Meaning(c.f), Meaning(c.g))

(***************************************************************************)
(* What the frames hold, which no object refers to, is right as long as    *)
(* the operation needs it: operands and cofactors point to nodes, and the  *)
(* result kept for the lo side is the result of the operation on the lo    *)
(* cofactors, whatever the hi side does to the table meanwhile.            *)
(***************************************************************************)
FrameEdges(fr) ==
  IF fr.phase = "enter" THEN {fr.f, fr.g}
  ELSE {fr.f, fr.g, fr.fhi, fr.ghi, fr.lo}

LoRight(fr) ==
  Meaning(fr.lo) = Algebra!Combined(call.op, Meaning(LoSide(fr).f),
                                             Meaning(LoSide(fr).g))

FramesRight ==
  /\ Sound(result)
  /\ \A fr \in ToSet(frames) :
       /\ \A e \in FrameEdges(fr) : Sound(e)
       /\ fr.phase = "hi" => LoRight(fr)

(***************************************************************************)
(* The stack, and so the recursion, goes no deeper than the higher operand *)
(* of the call has levels, and one more frame for the constants: what      *)
(* bdd_internal.h:678 relies on when it chooses the form by the level.     *)
(***************************************************************************)
StackBounded ==
  ~ Idle => Len(frames) <= MaxLevel(root[call.f], root[call.g]) + 1

(***************************************************************************)
(* A call fails for its depth only in the recursive form: when it is asked *)
(* for and the operands reach up to level BDD_RecurLimit, and in Auto when *)
(* they reach up to exactly that level.                                    *)
(***************************************************************************)
TooDeepOnlyAtLimit ==
  [][~ Idle /\ outcome' = "too deep" =>
       LET level == MaxLevel(root[call.f], root[call.g])
       IN  \/ call.mode = "recursive" /\ level >= RecurLimit
           \/ call.mode = "auto" /\ level = RecurLimit]_vars

(***************************************************************************)
(* Every call ends.                                                        *)
(***************************************************************************)
EveryCallEnds == [](~ Idle => <> Idle)

(***************************************************************************)
(* Auto chooses the iterative form where the recursive one would hit the   *)
(* recursion limit, so a call in Auto never fails for its depth            *)
(* (test_exec_mode.cpp: Iterative "and Auto" succeed).                     *)
(***************************************************************************)
AutoNeverTooDeep ==
  [][call # NoCall /\ call.mode = "auto" => outcome' # "too deep"]_vars
=============================================================================
