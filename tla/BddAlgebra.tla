----------------------------- MODULE BddAlgebra -----------------------------
(***************************************************************************)
(* The operations of BddOps and Convert that Operations calls, in          *)
(* iterative mode; what each promises of the functions; and that both      *)
(* forms keep the promise and the cache or memo holds only what is true.   *)
(***************************************************************************)
EXTENDS Convert, BddIterative

CONSTANTS Functions, Operands,    \* functions passed first, and passed after
          Sizes,                  \* values passed as shift or distance
          Renamings,              \* maps of variables passed to bddpermute
          BddTrees, ZddTrees      \* unreduced diagrams passed to reduce_as_*

OfDiagram == {"bdd_to_qdd", "zdd_to_qdd", "zdd_to_bdd", "bdd_to_zdd", "expand_bdd",
              "expand_zdd"}
OfQdd == {"qdd_to_bdd", "qdd_to_zdd"}
Renamed == {"bddpermute", "bddpermutez"}
WholeDiagram == {"BddToQdd", "ZddToQdd", "bddsupport", "bddsupport_vec"}
WholeNumber == {"BddToZdd", "ZddToBdd"}

FrameOf(op, a, got) ==
  CASE op \in BddLoopOps -> BddLoop(op, a, got)
    [] op = "bddandexist" -> bddandexist_iter(a, got)
    [] op = "bddswap" -> bddswap_iter(a, got)
    [] op = "bdd_to_qdd" -> bdd_to_qdd_iter(a, got)
    [] op = "zdd_to_qdd" -> zdd_to_qdd_iter(a, got)
    [] op = "zdd_to_bdd" -> zdd_to_bdd_iter(a, got)
    [] op = "bdd_to_zdd" -> bdd_to_zdd_iter(a, got)
    [] op = "qdd_to_bdd" -> qdd_to_bdd_iter(a, got)
    [] op = "qdd_to_zdd" -> qdd_to_zdd_iter(a, got)
    [] op = "expand_bdd" -> expand_bdd_iter(a, got)
    [] op = "expand_zdd" -> expand_zdd_iter(a, got)
    [] op = "reduce" -> reduce_iter(a, got)
    [] op = "bddpermute" -> bddpermute_iter(a, got)
    [] op = "bddpermutez" -> bddpermutez_iter(a, got)

Recursive(op, a) ==
  CASE op = "bddite" -> bddite(a[1], a[2], a[3])
    [] op = "bddat0" -> bddat0(a[1], a[2])
    [] op = "bddat1" -> bddat1(a[1], a[2])
    [] op = "bddsmooth" -> bddsmooth(a[1], a[2])
    [] op = "bddspread" -> bddspread(a[1], a[2])
    [] op = "bddlshiftb" -> bddlshiftb(a[1], a[2])
    [] op = "bddrshiftb" -> bddrshiftb(a[1], a[2])
    [] op = "bddimply" -> bddimply(a[1], a[2])
    [] op = "bddcofactor" -> bddcofactor(a[1], a[2])
    [] op = "bddexist" -> bddexist(a[1], a[2])
    [] op = "bdduniv" -> bdduniv(a[1], a[2])
    [] op = "bddandexist" -> bddandexist(a[1], a[2], a[3])
    [] op = "bddoruniv" -> bddoruniv(a[1], a[2], a[3])
    [] op = "bddswap" -> bddswap(a[1], a[2], a[3])
    [] op = "bddsupport" -> bddsupport(a[1])
    [] op = "bddsupport_vec" -> bddsupport_vec(a[1])
    [] op = "bdd_to_qdd" -> bdd_to_qdd(a[1])
    [] op = "zdd_to_qdd" -> zdd_to_qdd(a[1])
    [] op = "zdd_to_bdd" -> zdd_to_bdd(a[1])
    [] op = "bdd_to_zdd" -> bdd_to_zdd(a[1])
    [] op = "qdd_to_bdd" -> qdd_to_bdd(a[1])
    [] op = "qdd_to_zdd" -> qdd_to_zdd(a[1])
    [] op = "expand_bdd" -> expand_bdd(a[1])
    [] op = "expand_zdd" -> expand_zdd(a[1])
    [] op = "reduce" -> reduce(a[1], a[2])
    [] op = "bddpermute" -> bddpermute_rec(a[1], a[2])
    [] op = "bddpermutez" -> bddpermutez_rec(a[1], a[2])
    [] op = "BddToQdd" -> BddToQdd(a[1])
    [] op = "ZddToQdd" -> ZddToQdd(a[1])
    [] op = "BddToZdd" -> BddToZdd(a[1], a[2])
    [] op = "ZddToBdd" -> ZddToBdd(a[1], a[2])
    [] op = "reduce_as_qdd" -> reduce_as_qdd(a[1])

-----------------------------------------------------------------------------
(***************************************************************************)
(* What the operations promise (bdd_ops.h), said of assignments.           *)
(***************************************************************************)
Exchanged(s, v, w) == {IF x = v THEN w ELSE IF x = w THEN v ELSE x : x \in s}

\* What an unreduced diagram says of an assignment, read as a BDD, and of a
\* set, read as a ZDD, where a sign turns the empty set only.
RECURSIVE HoldsIn(_, _), MemberOf(_, _), NullIn(_)
HoldsIn(t, s) ==
  (CASE t.v = 0 -> FALSE
     [] t.v = -1 -> s \in t.dd
     [] t.v > 0 -> IF t.v \in s THEN HoldsIn(t.below[2], s) ELSE HoldsIn(t.below[1], s)) # t.neg
MemberOf(t, s) ==
  (CASE t.v = 0 -> FALSE
     [] t.v = -1 -> s \in t.dd
     [] t.v > 0 -> IF t.v \in s THEN MemberOf(t.below[2], s \ {t.v}) ELSE MemberOf(t.below[1], s))
    # (t.neg /\ s = {})
NullIn(t) == t.v = -2 \/ (t.v > 0 /\ (NullIn(t.below[1]) \/ NullIn(t.below[2])))
MeaningOf(t, kind) == IF NullIn(t) THEN Thrown
                      ELSE IF kind = "bdd" THEN {s \in True : HoldsIn(t, s)}
                      ELSE {s \in True : MemberOf(t, s)}

\* The sets whose members above level n are forgotten are in f.
FreeAbove(f, n) == {s \in True : s \cap UpTo(n) \in f}
Within(f, n) == {s \in f : s \subseteq UpTo(n)}

Promise(op, a) ==
  LET f == a[1]  g == a[2]
  IN  CASE op \in BddLoopOps -> BddPromise(op, a)
        [] op = "bddandexist" -> Exists(f \cap g, MembersOf(a[3]))
        [] op = "bddoruniv" -> ForAll(f \cup g, MembersOf(a[3]))
        [] op = "bddswap" -> {s \in True : Exchanged(s, g, a[3]) \in f}
        [] op = "bddsupport" -> {s \in True : s \cap Depends(f) # {}}
        [] op = "bdd_to_qdd" -> Qdd(LevelIn(f), f)
        [] op = "zdd_to_qdd" -> Qdd(Level(f), FreeAbove(f, Level(f)))
        [] op = "zdd_to_bdd" -> FreeAbove(f, Level(f))
        [] op = "bdd_to_zdd" -> Within(f, LevelIn(f))
        [] op = "qdd_to_bdd" -> f.of
        [] op = "qdd_to_zdd" -> Within(f.of, f.height)
        [] op = "reduce" -> MeaningOf(f, g)
        [] op = "bddpermute" -> {s \in True : {v \in Vars : g[v] \in s} \in f}
        [] op = "bddpermutez" -> {{g[v] : v \in s} : s \in f}
        [] op = "BddToQdd" -> Qdd(Levels, f)
        [] op = "ZddToQdd" -> Qdd(Levels, f)
        [] op = "BddToZdd" -> IF g <= 0 THEN f
                              ELSE IF \E v \in Depends(f) : LevelOf(v) > g THEN Thrown
                              ELSE Within(f, g)
        [] op = "ZddToBdd" -> IF g <= 0 THEN f
                              ELSE IF \E v \in Support(f) : LevelOf(v) > g THEN Thrown
                              ELSE FreeAbove(f, g)
        [] op = "reduce_as_qdd" -> IF NullIn(f) THEN Thrown
                                   ELSE Qdd(Levels, MeaningOf(f, "bdd"))

RECURSIVE Signless(_)
Signless(t) == t.v = 0 \/ (~t.neg /\ Signless(t.below[1]) /\ Signless(t.below[2]))

\* The support is listed from the top; an expanded diagram means what it was
\* made from and has no complement edge.
Kept(op, a, value) ==
  CASE op \in BddLoopOps -> BddKept(op, a, value)
    [] op = "bddsupport_vec" ->
         /\ ToSet(value) = Depends(a[1])
         /\ \A i, j \in 1..Len(value) : i < j => LevelOf(value[i]) > LevelOf(value[j])
    [] op = "expand_bdd" -> Signless(value) /\ MeaningOf(value, "bdd") = a[1]
    [] op = "expand_zdd" -> Signless(value) /\ MeaningOf(value, "zdd") = a[1]
    [] OTHER -> value = Promise(op, a)

-----------------------------------------------------------------------------
\* Shifts stay within the variables there are.
CallsOf(op) ==
  LET args ==
        CASE op \in ByVariable -> Functions \X Vars
          [] op \in ByNumber -> {p \in Functions \X Sizes :
               op = "bddlshiftb" => LevelIn(p[1]) + p[2] <= Cardinality(Vars)}
          [] op \in ByFunction -> Functions \X Operands
          [] op \in BySet -> Functions \X Cubes
          [] op = "bddite" -> Functions \X Operands \X Operands
          [] op = "bddandexist" -> {<<f, g, c>> \in Functions \X Operands \X Cubes :
                                      Comp(c) => f \in Operands}
          [] op = "bddoruniv" -> Operands \X Operands \X Cubes
          [] op = "bddswap" -> {<<f, v, w>> \in Functions \X Vars \X Vars :
                                  LevelOf(v) > LevelOf(w)}
          [] op \in OfQdd -> {<<Qdd(Levels, f)>> : f \in Functions}
          [] op \in Renamed -> Functions \X {p \in Renamings : Moves(p)}
          [] op = "reduce" -> (BddTrees \X {"bdd"}) \cup (ZddTrees \X {"zdd"})
          [] op = "reduce_as_qdd" -> {<<t>> : t \in BddTrees}
          [] op \in WholeNumber -> Functions \X (-1..Levels)
          [] OTHER -> {<<f>> : f \in Functions}
  IN  {[op |-> op, args |-> a] : a \in args}

InFrames == BddLoopOps \cup OfDiagram \cup OfQdd \cup Renamed
              \cup {"bddandexist", "bddswap", "reduce"}
Composed == WholeDiagram \cup WholeNumber \cup {"bddoruniv", "reduce_as_qdd"}

-----------------------------------------------------------------------------
Right(ops) == BddRun!Finished /\ call.op \in ops => Kept(call.op, call.args, result)

\* The loop of an iterative form ends with what the operation promises, for
\* operands and variable sets of either sign, and so does an operation
\* composed of others.
ResultRight == Right(InFrames \cup Composed)

\* The recursive form gives what the iterative one gave, where the operation
\* is free to choose too.
FormsAgree ==
  BddRun!Finished /\ call.op \in InFrames \cup Composed =>
    Recursive(call.op, call.args) = result

\* An entry of the cache is true of every call it would answer: of both
\* orders of sorted operands, of the variable set before and after it was
\* shortened, and of an edge whose complement bit was taken off.
MemoRight ==
  BddRun!Finished /\ call.op \in InFrames =>
    \A e \in DOMAIN memo : \A a \in e.key : Kept(e.op, a, memo[e])
=============================================================================
