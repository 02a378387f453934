------------------------------ MODULE VarOrder ------------------------------
(***************************************************************************)
(* The variable order of the package: the two arrays var2level and         *)
(* level2var and the counter bdd_varcount (src/src/bdd_base.cpp).  A        *)
(* variable is created at the top of the order (bddnewvar) or in the       *)
(* middle of it (bddnewvaroflev), and variables are never destroyed except *)
(* by bddfinal.                                                            *)
(***************************************************************************)
EXTENDS Integers

CONSTANT VarMax          \* bound on the number of variables created

ASSUME VarMaxAssumption == VarMax \in Nat

VARIABLES varcount, var2level, level2var

orderVars == <<varcount, var2level, level2var>>

VarsUsed == 1..varcount

VarOrderInit ==
  /\ varcount = 0
  /\ var2level = [v \in 1..0 |-> 0]
  /\ level2var = [l \in 1..0 |-> 0]

(***************************************************************************)
(* bddnewvar: the new variable gets the next number and the level of the   *)
(* same number, whatever order the earlier variables are in.               *)
(***************************************************************************)
NewVar ==
  /\ varcount < VarMax
  /\ varcount' = varcount + 1
  /\ var2level' = [v \in 1..(varcount + 1) |->
                     IF v \in VarsUsed THEN var2level[v] ELSE v]
  /\ level2var' = [l \in 1..(varcount + 1) |->
                     IF l \in VarsUsed THEN level2var[l] ELSE l]

\* Mutant: the variable that had the level goes to the top instead.
SwappedToTop(lev) ==
  [v \in 1..(varcount + 1) |->
     IF v \notin VarsUsed THEN lev
     ELSE IF var2level[v] = lev THEN varcount + 1
     ELSE var2level[v]]

\* The level of variable v once the levels from lev up have made room.
Shifted(lev) ==
  [v \in 1..(varcount + 1) |->
     IF v \notin VarsUsed THEN lev
     ELSE IF var2level[v] >= lev THEN var2level[v] + 1
     ELSE var2level[v]]

\* Mutant: level2var is only extended, not rebuilt.
NewVarWithoutRebuild(lev) ==
  /\ varcount < VarMax
  /\ lev \in 1..(varcount + 1)
  /\ varcount' = varcount + 1
  /\ var2level' = Shifted(lev)
  /\ level2var' = [l \in 1..(varcount + 1) |->
                     IF l \in VarsUsed THEN level2var[l] ELSE l]

(***************************************************************************)
(* bddnewvaroflev: bddnewvar, then the levels from lev up are shifted, the *)
(* new variable takes lev, and level2var is rebuilt from var2level.        *)
(***************************************************************************)
NewVarOfLev(lev) ==
  /\ varcount < VarMax
  /\ lev \in 1..(varcount + 1)
  /\ varcount' = varcount + 1
  /\ var2level' = Shifted(lev)
  /\ level2var' = [l \in 1..(varcount + 1) |->
                     CHOOSE v \in 1..(varcount + 1) : Shifted(lev)[v] = l]

\* bddfinal followed by bddinit forgets every variable.
ForgetVars ==
  /\ varcount' = 0
  /\ var2level' = [v \in 1..0 |-> 0]
  /\ level2var' = [l \in 1..0 |-> 0]

VarOrderNext ==
  \/ NewVar
  \/ \E lev \in 1..(varcount + 1) : NewVarOfLev(lev)
  \/ ForgetVars

VarOrderSpec == VarOrderInit /\ [][VarOrderNext]_orderVars

-----------------------------------------------------------------------------
VarOrderTypeOK ==
  /\ varcount \in 0..VarMax
  /\ var2level \in [VarsUsed -> VarsUsed]
  /\ level2var \in [VarsUsed -> VarsUsed]

(***************************************************************************)
(* bddlevofvar and bddvaroflev are inverse to each other: no two variables *)
(* share a level and no level is without its variable, however creations   *)
(* at the top and in the middle of the order interleave.                   *)
(***************************************************************************)
LevelsInverse ==
  /\ \A v \in VarsUsed : level2var[var2level[v]] = v
  /\ \A l \in VarsUsed : var2level[level2var[l]] = l

(***************************************************************************)
(* Creating a variable never swaps two existing ones: a node whose         *)
(* children were below it stays above them, so no diagram becomes          *)
(* unordered (only a whole re-initialization may forget the order).        *)
(***************************************************************************)
RelativeOrderStep ==
  varcount' # 0 =>
    \A u, v \in VarsUsed :
       (var2level[u] < var2level[v]) <=> (var2level'[u] < var2level'[v])

RelativeOrderKept == [][RelativeOrderStep]_orderVars
=============================================================================
