---------------------------- MODULE ZddIterative ----------------------------
(***************************************************************************)
(* A program that calls the operations of ZddLoops one after the other, in *)
(* iterative mode, with any family over the variables there are; and what  *)
(* each promises (zdd_ops.h).  ZddAlgebra calls others too.                *)
(***************************************************************************)
EXTENDS ZddLoops, LoopState

Families == SUBSET SUBSET Vars

OneVariable == {"bddoffset", "bddonset", "bddonset0", "bddchange"}
TwoFamilies == {"bddissubset", "bddisdisjoint", "bdddiv", "bddjoin", "bddproduct",
                "bddmeet", "bdddelta", "bdddisjoin", "bddrestrict", "bddpermit",
                "bddremove_supersets", "bddremove_subsets"}
ZddLoopOps == OneVariable \cup TwoFamilies \cup {"bddclosure"}

ArgsOf(op) ==
  IF op \in OneVariable THEN Families \X Vars
  ELSE IF op \in TwoFamilies THEN Families \X Families
  ELSE {<<f>> : f \in Families}

ZddLoop(op, a, got) ==
  CASE op = "bddoffset" -> bddoffset_iter(a, got)
    [] op = "bddonset" -> bddonset_iter(a, got)
    [] op = "bddonset0" -> bddonset0_iter(a, got)
    [] op = "bddchange" -> bddchange_iter(a, got)
    [] op = "bddissubset" -> bddissubset_iter(a, got)
    [] op = "bddisdisjoint" -> bddisdisjoint_iter(a, got)
    [] op = "bdddiv" -> bdddiv_iter(a, got)
    [] op = "bddjoin" -> bddjoin_iter(a, got)
    [] op = "bddproduct" -> bddproduct_iter(a, got)
    [] op = "bddmeet" -> bddmeet_iter(a, got)
    [] op = "bdddelta" -> bdddelta_iter(a, got)
    [] op = "bdddisjoin" -> bdddisjoin_iter(a, got)
    [] op = "bddrestrict" -> bddrestrict_iter(a, got)
    [] op = "bddpermit" -> bddpermit_iter(a, got)
    [] op = "bddremove_supersets" -> bddremove_supersets_iter(a, got)
    [] op = "bddremove_subsets" -> bddremove_subsets_iter(a, got)
    [] op = "bddclosure" -> bddclosure_iter(a, got)

-----------------------------------------------------------------------------
Quotient(f, g) ==
  IF g = Empty THEN Empty
  ELSE {s \in SUBSET Support(f) : \A t \in g : s \cap t = {} /\ s \cup t \in f}

LoopPromise(op, a) ==
  LET f == a[1]  g == a[2]
  IN  CASE op = "bddoffset" -> {s \in f : g \notin s}
        [] op = "bddonset" -> {s \in f : g \in s}
        [] op = "bddonset0" -> {s \ {g} : s \in {s \in f : g \in s}}
        [] op = "bddchange" -> {SymDiff(s, {g}) : s \in f}
        [] op = "bddissubset" -> f \subseteq g
        [] op = "bddisdisjoint" -> f \cap g = {}
        [] op = "bdddiv" -> Quotient(f, g)
        [] op = "bddjoin" -> {p[1] \cup p[2] : p \in f \X g}
        [] op = "bddproduct" -> IF Support(f) \cap Support(g) # {} THEN Thrown
                                ELSE {p[1] \cup p[2] : p \in f \X g}
        [] op = "bddmeet" -> {p[1] \cap p[2] : p \in f \X g}
        [] op = "bdddelta" -> {SymDiff(p[1], p[2]) : p \in f \X g}
        [] op = "bdddisjoin" -> {p[1] \cup p[2] : p \in {p \in f \X g : p[1] \cap p[2] = {}}}
        [] op = "bddrestrict" -> {s \in f : \E t \in g : t \subseteq s}
        [] op = "bddpermit" -> {s \in f : \E t \in g : s \subseteq t}
        [] op = "bddremove_supersets" -> {s \in f : \A t \in g : ~(t \subseteq s)}
        [] op = "bddremove_subsets" -> {s \in f : \A t \in g : ~(s \subseteq t)}
        [] op = "bddclosure" -> UNION {SUBSET s : s \in f}

-----------------------------------------------------------------------------
Loop == INSTANCE Frames

CallLoop ==
  Loop!Idle /\ \E op \in ZddLoopOps : \E a \in ArgsOf(op) :
                 Loop!Begin([op |-> op, args |-> a])

LoopNext == CallLoop \/ Loop!Step(ZddLoop) \/ Loop!Return

LoopSpec == Loop!FramesInit /\ [][LoopNext]_loopVars

-----------------------------------------------------------------------------
\* The results a frame has got are those of the subproblems it asked for.
Asked(op, a, got) ==
  \A j \in 1..Len(got) :
    \E does \in {ZddLoop(op, a, SubSeq(got, 1, j - 1))} :
      does.kind = "ask" /\ got[j] = LoopPromise(op, does.sub)

\* A frame works on the subproblem the one below it asked for.
StackRight ==
  \A i \in 1..Len(stack) : \E fr \in {stack[i]} :
    /\ fr.op = call.op
    /\ Asked(fr.op, fr.args, fr.got)
    /\ i = 1 => fr.args = call.args
    /\ i > 1 => \E below \in {stack[i - 1]} :
                  \E does \in {ZddLoop(below.op, below.args, below.got)} :
                    does.kind = "ask" /\ fr.args = does.sub

\* Every entry of the cache is the promise for all arguments it would answer:
\* for both orders of the operands when the key is a sorted pair.
EntriesRight == \A e \in DOMAIN memo : \A a \in e.key : memo[e] = LoopPromise(e.op, a)

(***************************************************************************)
(* At every pass of the loop: each frame on the stack works on what the    *)
(* one below asked for and holds the right results of what it asked for    *)
(* itself, every cache entry is right, and the loop ends with what the     *)
(* operation promises.                                                     *)
(***************************************************************************)
LoopsRight ==
  call.op \in ZddLoopOps =>
    /\ StackRight
    /\ EntriesRight
    /\ stack = <<>> => result = LoopPromise(call.op, call.args)
=============================================================================
