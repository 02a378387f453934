---------------------------- MODULE BddIterative ----------------------------
(***************************************************************************)
(* A program that calls the operations of BddLoops one after the other, in *)
(* iterative mode, with any Boolean function over the variables there are; *)
(* and what each promises (bdd_ops.h).  BddAlgebra calls others too.       *)
(***************************************************************************)
EXTENDS BddLoops, LoopState

ByVariable == {"bddat0", "bddat1", "bddsmooth"}
ByFunction == {"bddimply", "bddcofactor"}
BySet == {"bddexist", "bdduniv"}
ByNumber == {"bddspread", "bddlshiftb", "bddrshiftb"}
BddLoopOps == ByVariable \cup ByFunction \cup BySet \cup ByNumber \cup {"bddite"}

\* A shift stays within the variables there are.
BddFits(op, a) == op = "bddlshiftb" => LevelIn(a[1]) + a[2] <= Cardinality(Vars)

BddArgs(op) ==
  IF op \in ByVariable THEN (SUBSET True) \X Vars
  ELSE IF op \in ByFunction THEN (SUBSET True) \X (SUBSET True)
  ELSE IF op \in BySet THEN (SUBSET True) \X Cubes
  ELSE IF op \in ByNumber THEN {a \in (SUBSET True) \X Nat : BddFits(op, a)}
  ELSE (SUBSET True) \X (SUBSET True) \X (SUBSET True)

BddLoop(op, a, got) ==
  CASE op = "bddite" -> bddite_iter(a, got)
    [] op = "bddat0" -> bddat0_iter(a, got)
    [] op = "bddat1" -> bddat1_iter(a, got)
    [] op = "bddsmooth" -> bddsmooth_iter(a, got)
    [] op = "bddimply" -> bddimply_iter(a, got)
    [] op = "bddcofactor" -> bddcofactor_iter(a, got)
    [] op = "bddexist" -> bddexist_iter(a, got)
    [] op = "bdduniv" -> bdduniv_iter(a, got)
    [] op = "bddspread" -> bddspread_iter(a, got)
    [] op = "bddlshiftb" -> lshiftb_iter(a, got)
    [] op = "bddrshiftb" -> rshiftb_iter(a, got)

-----------------------------------------------------------------------------
\* The assignments that differ from s in variables of W only.
Elsewhere(s, W) == {t \in True : SymDiff(s, t) \subseteq W}
Exists(f, W) == {s \in True : Elsewhere(s, W) \cap f # {}}
ForAll(f, W) == {s \in True : Elsewhere(s, W) \subseteq f}

\* The variables a set stands for, whatever its sign.
MembersOf(cube) == Depends(cube)

\* The function whose variable at level n + k is f's at level n.
Moved(f, k) ==
  {s \in True : {VarOf(LevelOf(v) - k) : v \in {v \in s : LevelOf(v) - k \in Vars}} \in f}

BddPromise(op, a) ==
  LET f == a[1]  g == a[2]
  IN  CASE op = "bddite" -> {s \in True : IF s \in f THEN s \in g ELSE s \in a[3]}
        [] op = "bddat0" -> {s \in True : s \ {g} \in f}
        [] op = "bddat1" -> {s \in True : s \cup {g} \in f}
        [] op = "bddsmooth" -> Exists(f, {g})
        [] op = "bddimply" -> f \subseteq g
        [] op = "bddexist" -> Exists(f, MembersOf(g))
        [] op = "bdduniv" -> ForAll(f, MembersOf(g))
        [] op = "bddspread" -> {s \in True : \E t \in f : Cardinality(SymDiff(s, t)) <= g}
        [] op = "bddlshiftb" -> Moved(f, g)
        [] op = "bddrshiftb" -> IF \E v \in Depends(f) : LevelOf(v) <= g
                                THEN Thrown ELSE Moved(f, -g)

\* The generalised cofactor agrees with f wherever g holds, and depends on no
\* variable that neither of them depends on.
BddKept(op, a, value) ==
  IF op = "bddcofactor"
  THEN /\ value \cap a[2] = a[1] \cap a[2]
       /\ value \subseteq True /\ Depends(value) \subseteq Depends(a[1]) \cup Depends(a[2])
  ELSE value = BddPromise(op, a)

-----------------------------------------------------------------------------
BddRun == INSTANCE Frames

BddCall ==
  BddRun!Idle /\ \E op \in BddLoopOps : \E a \in BddArgs(op) :
                 BddRun!Begin([op |-> op, args |-> a])

BddNext == BddCall \/ BddRun!Step(BddLoop) \/ BddRun!Return

BddSpec == BddRun!FramesInit /\ [][BddNext]_loopVars

-----------------------------------------------------------------------------
\* The results a frame has got keep the promises of what it asked for.
BddAsked(op, a, got) ==
  \A j \in 1..Len(got) :
    \E does \in {BddLoop(op, a, SubSeq(got, 1, j - 1))} :
      does.kind = "ask" /\ BddKept(op, does.sub, got[j])

\* A frame works on the subproblem the one below it asked for.
BddStackRight ==
  \A i \in 1..Len(stack) : \E fr \in {stack[i]} :
    /\ fr.op = call.op
    /\ BddAsked(fr.op, fr.args, fr.got)
    /\ i = 1 => fr.args = call.args
    /\ i > 1 => \E below \in {stack[i - 1]} :
                  \E does \in {BddLoop(below.op, below.args, below.got)} :
                    does.kind = "ask" /\ fr.args = does.sub

\* Every entry of the cache is right for all arguments it would answer: for a
\* variable set of either sign.
BddEntriesRight == \A e \in DOMAIN memo : \A a \in e.key : BddKept(e.op, a, memo[e])

(***************************************************************************)
(* At every pass of the loop of a BDD operation: each frame works on what  *)
(* the one below asked for and holds right results of what it asked for    *)
(* itself, with the complement bits it took off put back by the one that   *)
(* took them; every cache entry is right, and the loop ends with what the  *)
(* operation promises.                                                     *)
(***************************************************************************)
BddLoopsRight ==
  call.op \in BddLoopOps =>
    /\ BddStackRight
    /\ BddEntriesRight
    /\ stack = <<>> => BddKept(call.op, call.args, result)
=============================================================================
