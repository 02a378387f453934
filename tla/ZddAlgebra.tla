----------------------------- MODULE ZddAlgebra -----------------------------
(***************************************************************************)
(* The operations of ZddOps, ZddFilter and ZddSym, those of PiDD and       *)
(* RotPiDD on sets of permutations and those of SeqBDD on sets of          *)
(* sequences that Operations calls, in iterative mode; what each promises; *)
(* and that both forms keep the promise and the cache holds only what is   *)
(* true.                                                                   *)
(***************************************************************************)
EXTENDS ZddIterative, ZddSym

CONSTANTS Firsts, Seconds,    \* families passed as first and second operand
          Sizes,              \* values passed as shift or size
          PermLevels,         \* levels of the variables, with those of PiDD_NewVar
          PermSize, Tables,   \* elements of a permutation, and their tables
          Divisors,           \* sets of permutations passed as second operand
          PairWeights,        \* weights of pairs of elements
          SeqFirsts, SeqSeconds    \* sets of sequences passed as operands

OneNumber == {"bddlshiftz", "bddrshiftz", "bddpermitsym"}
Unary == {"bddmaximal", "bddminimal", "bddminhit", "bddclosure", "bddalways"}
Binary == TwoFamilies \cup {"bddjointjoin"}
Pairs == {"symset", "coimplyset"}     \* of the two sides of a family
WholeUnary == {"bddispoly", "bddsymgrp", "bddsymgrpnaive", "bdddivisor"}
WholeVariable == {"bddimplyset", "bddsymset", "bddcoimplyset", "bddpush"}
WholeVariables == {"bddswapz", "bddimplychk", "bddcoimplychk"}

\* Both diagrams of permutations, over variables made by PiDD_NewVar: its
\* tables are right only when no variable was put between others.
P == INSTANCE PiDD WITH var2level <- PermLevels
R == INSTANCE RotPiDD WITH var2level <- PermLevels, Factors <- Divisors,
                           Weights <- PairWeights
Q == INSTANCE SeqBDD

OtherLoops == P!Loops \cup R!Loops \cup Q!Loops
OtherWholes == P!Wholes \cup R!Wholes \cup Q!Wholes

\* The operations with an iterative form, and its frame.
FrameOf(op, a, got) ==
  CASE op \in P!Loops -> P!FrameOf(op, a, got)
    [] op \in R!Loops -> R!FrameOf(op, a, got)
    [] op \in Q!Loops -> Q!FrameOf(op, a, got)
    [] op \in ZddLoopOps -> ZddLoop(op, a, got)
    [] op = "bddlshiftz" -> bdd_lshift_iter(a, got)
    [] op = "bddrshiftz" -> bdd_rshift_iter(a, got)
    [] op = "bddjointjoin" -> bddjointjoin_iter(a, got)
    [] op = "bddmaximal" -> bddmaximal_iter(a, got)
    [] op = "bddminimal" -> bddminimal_iter(a, got)
    [] op = "bddminhit" -> bddminhit_iter(a, got)
    [] op = "bddpermitsym" -> bddpermitsym_iter(a, got)
    [] op = "bddalways" -> bddalways_iter(a, got)
    [] op = "bddsymchk" -> bddsymchk_iter(a, got)
    [] op = "symset" -> bddsymset_iter(a, got)
    [] op = "coimplyset" -> bddcoimplyset_iter(a, got)

\* The recursive form of every one of them, and the operations made of others.
Recursive(op, a) ==
  CASE op \in P!Loops -> P!Recursive(op, a)
    [] op \in R!Loops -> R!Recursive(op, a)
    [] op \in Q!Loops -> Q!Recursive(op, a)
    [] op = "bddoffset" -> bddoffset(a[1], a[2])
    [] op = "bddonset" -> bddonset(a[1], a[2])
    [] op = "bddonset0" -> bddonset0(a[1], a[2])
    [] op = "bddchange" -> bddchange(a[1], a[2])
    [] op = "bddlshiftz" -> bddlshiftz(a[1], a[2])
    [] op = "bddrshiftz" -> bddrshiftz(a[1], a[2])
    [] op = "bddissubset" -> bddissubset(a[1], a[2])
    [] op = "bddisdisjoint" -> bddisdisjoint(a[1], a[2])
    [] op = "bdddiv" -> bdddiv(a[1], a[2])
    [] op = "bddjoin" -> bddjoin(a[1], a[2])
    [] op = "bddproduct" -> bddproduct(a[1], a[2])
    [] op = "bddmeet" -> bddmeet(a[1], a[2])
    [] op = "bdddelta" -> bdddelta(a[1], a[2])
    [] op = "bdddisjoin" -> bdddisjoin(a[1], a[2])
    [] op = "bddjointjoin" -> bddjointjoin(a[1], a[2])
    [] op = "bddrestrict" -> bddrestrict(a[1], a[2])
    [] op = "bddpermit" -> bddpermit(a[1], a[2])
    [] op = "bddremove_supersets" -> bddremove_supersets(a[1], a[2])
    [] op = "bddremove_subsets" -> bddremove_subsets(a[1], a[2])
    [] op = "bddmaximal" -> bddmaximal(a[1])
    [] op = "bddminimal" -> bddminimal(a[1])
    [] op = "bddminhit" -> bddminhit(a[1])
    [] op = "bddclosure" -> bddclosure(a[1])
    [] op = "bddpermitsym" -> bddpermitsym(a[1], a[2])
    [] op = "bddalways" -> bddalways(a[1])
    [] op = "bddsymchk" -> bddsymchk(a[1], a[2], a[3])
    [] op = "symset" -> symset_rec(a[1], a[2])
    [] op = "coimplyset" -> coimplyset_rec(a[1], a[2])

Composition(op, a) ==
  CASE op \in P!Wholes -> P!Composition(op, a)
    [] op \in R!Wholes -> R!Composition(op, a)
    [] op \in Q!Wholes -> Q!Composition(op, a)
    [] op = "bddremainder" -> bddremainder(a[1], a[2])
    [] op = "bddispoly" -> bddispoly(a[1])
    [] op = "bddsymgrp" -> bddsymgrp(a[1])
    [] op = "bddsymgrpnaive" -> bddsymgrpnaive(a[1])
    [] op = "bdddivisor" -> bdddivisor(a[1])
    [] op = "bddimplyset" -> bddimplyset(a[1], a[2])
    [] op = "bddsymset" -> bddsymset(a[1], a[2])
    [] op = "bddcoimplyset" -> bddcoimplyset(a[1], a[2])
    [] op = "bddpush" -> bddpush(a[1], a[2])
    [] op = "bddswapz" -> bddswapz(a[1], a[2], a[3])
    [] op = "bddimplychk" -> bddimplychk(a[1], a[2], a[3])
    [] op = "bddcoimplychk" -> bddcoimplychk(a[1], a[2], a[3])

-----------------------------------------------------------------------------
(***************************************************************************)
(* What the operations promise (zdd_ops.h), said of the families.          *)
(***************************************************************************)
Shifted(f, n) == {{VarOf(LevelOf(v) + n) : v \in s} : s \in f}
Singletons(vars) == {{v} : v \in vars}
Always(f) == {v \in Support(f) : \A s \in f : v \in s}
Swapped(s, v, w) == {IF x = v THEN w ELSE IF x = w THEN v ELSE x : x \in s}
Symmetric(f, v, w) == f = {Swapped(s, v, w) : s \in f}
Implies(f, v, w) == \A s \in f : v \in s => w \in s

\* Whenever a set with v has no w, trading v for w gives a set of f too.
CoImplies(f, v, w) ==
  \A s \in f : v \in s /\ w \notin s => (s \ {v}) \cup {w} \in f

\* The family whose sides at a variable of its own are f0 and f1.
OfSides(f0, f1) == f0 \cup {s \cup {0} : s \in f1}

Hitting(f) == {h \in SUBSET Support(f) : \A s \in f : s \cap h # {}}
Inclusive(f) == {s \in f : \A t \in f : ~(t \subseteq s /\ t # s)}
Exclusive(f) == {s \in f : \A t \in f : ~(s \subseteq t /\ t # s)}

\* Symmetry is an equivalence on the support.
Classes(f) == {{w \in Support(f) : Symmetric(f, v, w)} : v \in Support(f)}

Promise(op, a) ==
  LET f == a[1]  g == a[2]
  IN  CASE op \in ZddLoopOps -> LoopPromise(op, a)
        [] op = "bddpush" -> {s \cup {g} : s \in f}
        [] op = "bddlshiftz" -> Shifted(f, g)
        [] op = "bddrshiftz" -> IF \E v \in Support(f) : LevelOf(v) <= g
                                THEN Thrown ELSE Shifted(f, -g)
        [] op = "bddremainder" -> {s \in f : \A q \in Quotient(f, g), t \in g : s # q \cup t}
        [] op = "bddjointjoin" -> {p[1] \cup p[2] : p \in {p \in f \X g : p[1] \cap p[2] # {}}}
        [] op = "bddmaximal" -> Exclusive(f)
        [] op = "bddminimal" -> Inclusive(f)
        [] op = "bddminhit" -> Inclusive(Hitting(f))
        [] op = "bddpermitsym" -> {s \in f : Cardinality(s) <= g}
        [] op = "bddispoly" -> Cardinality(f) > 1
        [] op = "bddalways" -> IF f = Empty THEN Empty ELSE Singletons(Always(f))
        [] op = "bddimplyset" -> Singletons({w \in Support(f) : w # g /\ Implies(f, g, w)})
        [] op = "bddcoimplyset" -> Singletons({w \in Support(f) : w # g /\ CoImplies(f, g, w)})
        [] op = "bddsymset" -> Singletons({w \in Support(f) : w # g /\ Symmetric(f, g, w)})
        [] op = "symset" -> Singletons({w \in Support(OfSides(f, g)) \ {0} :
                                          Symmetric(OfSides(f, g), 0, w)})
        [] op = "coimplyset" -> IF g = Empty THEN Empty
                                ELSE Singletons({w \in Support(OfSides(f, g)) \ {0} :
                                                   CoImplies(OfSides(f, g), 0, w)})
        [] op = "bddswapz" -> {Swapped(s, g, a[3]) : s \in f}
        [] op = "bddimplychk" -> Implies(f, g, a[3])
        [] op = "bddcoimplychk" -> CoImplies(f, g, a[3])
        [] op = "bddsymchk" -> Symmetric(f, g, a[3])
        [] op = "bddsymgrpnaive" -> Classes(f)
        [] op = "bddsymgrp" -> {c \in Classes(f) : Cardinality(c) > 1}

\* A divisor is any family that divides without remainder; one of a family
\* of several sets may be {{}} only.
Kept(op, a, value) ==
  CASE op \in P!Loops \cup P!Wholes -> P!Kept(op, a, value)
    [] op \in R!Loops \cup R!Wholes -> R!Kept(op, a, value)
    [] op \in Q!Loops \cup Q!Wholes -> Q!Kept(op, a, value)
    [] op = "bdddivisor" ->
         \/ value = Empty /\ a[1] = Empty
         \/ value # Empty /\ {p[1] \cup p[2] : p \in Quotient(a[1], value) \X value} = a[1]
    [] OTHER -> value = Promise(op, a)

-----------------------------------------------------------------------------
ZddCalls(op) ==
  LET args ==
        CASE op \in OneVariable -> Firsts \X Vars
          [] op \in WholeVariable -> {p \in Firsts \X Vars :
                op = "bddpush" => Level(p[1]) < LevelOf(p[2])}
          [] op \in OneNumber -> Firsts \X Sizes
          [] op \in Unary \cup WholeUnary -> {<<f>> : f \in Firsts}
          [] op \in Binary \cup {"bddremainder"} -> Firsts \X Seconds
          [] op \in Pairs -> {<<bddoffset(f, v), bddonset0(f, v)>> : f \in Firsts, v \in Vars}
          [] OTHER -> Firsts \X Vars \X Vars
  IN  {[op |-> op, args |-> a] : a \in args}

CallsOf(op) ==
  CASE op \in P!Loops \cup P!Wholes -> P!CallsOf(op)
    [] op \in R!Loops \cup R!Wholes -> R!CallsOf(op)
    [] op \in Q!Loops \cup Q!Wholes -> Q!CallsOf(op)
    [] OTHER -> ZddCalls(op)

InFrames == OneVariable \cup OneNumber \cup Unary \cup Binary \cup Pairs \cup {"bddsymchk"}
              \cup OtherLoops
Composed == OtherWholes \cup WholeUnary \cup WholeVariable \cup WholeVariables \cup {"bddremainder"}

-----------------------------------------------------------------------------
Others == (InFrames \cup Composed) \ ZddLoopOps

\* The loop of an iterative form ends with what the operation promises, and
\* so does an operation composed of others (LoopsRight has the other loops).
ResultRight ==
  Loop!Finished /\ call.op \in Others => Kept(call.op, call.args, result)

\* The recursive form gives what the iterative one gave.
FormsAgree ==
  Loop!Finished /\ call.op \in InFrames => Recursive(call.op, call.args) = result

\* An entry of the cache is true of every call that would be answered by it:
\* of both orders of the operands when the key is a sorted pair.
MemoRight ==
  Loop!Finished /\ call.op \in Others =>
    \A e \in DOMAIN memo : \A a \in e.key : Kept(e.op, a, memo[e])

\* A set of sequences is made again from a divisor, the left quotient and the
\* left remainder (test_seqbdd.cpp: "f == p * (f / p) + (f % p)").
RemainderIdentity ==
  Loop!Finished /\ call.op = "seq_remainder" /\ result # Q!Refused =>
    LET f == call.args[1]  p == call.args[2]
    IN  f = Q!union_rec(Q!concat(p, Q!quotient(f, p)), result)

\* The left quotient by a set has the sequences that follow every sequence of
\* the set (ops_seqbdd.rst: "When p contains multiple sequences, the result is
\* the intersection of individual quotients").
QuotientIsIntersection ==
  Loop!Finished /\ call.op = "seq_quotient" /\ result # Q!Refused =>
    result = Q!LeftQuotient(call.args[1], call.args[2])

\* Removing the elements from k on leaves permutations of the elements below k
\* (rotpidd.rst: "projecting each permutation down to a sub-permutation of
\* size k-1").
RemovedBelow ==
  Loop!Finished /\ call.op = "rot_remove_max" /\ call.args[2] > 1 =>
    \A pi \in R!Perms(result) : \A x \in R!Elements : x >= call.args[2] => pi[x] = x
=============================================================================
