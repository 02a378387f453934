------------------------------ MODULE PermVars ------------------------------
(***************************************************************************)
(* The variables of the diagrams of permutations, and how a family over    *)
(* them stands for a set of permutations: PiDD and RotPiDD have a variable *)
(* for every pair of elements (x, y) with x > y, those of x above those of *)
(* smaller elements.  A set with at most one variable per x stands for the *)
(* product of the permutations of its variables, the highest applied last. *)
(***************************************************************************)
EXTENDS ZddSym

CONSTANTS PermSize,    \* PiDD_TopVar: how often PiDD_NewVar was called
          Tables       \* between levels and transpositions, as it left them

Elements == 1..PermSize

-----------------------------------------------------------------------------
\* What PiDD_NewVar does to the tables: the call that makes x the largest
\* element creates x - 1 variables on top.
NewVar(t) ==
  LET used == t.used + t.top
      toplev == IF used = 0 THEN 0 ELSE LevelOf(used)
  IN  [top |-> t.top + 1, used |-> used,
       LevOfX |-> Append(t.LevOfX, IF t.top = 0 THEN 0 ELSE toplev),
       XOfLev |-> [lev \in (toplev - t.top + 1)..toplev |-> t.top + 1] @@ t.XOfLev]

\* Other variables may have been created before the first call.
Others == Cardinality(DOMAIN var2level) - (PermSize * (PermSize - 1)) \div 2

TablesAfter(n) ==
  FoldLeft(LAMBDA t, x : NewVar(t),
           [top |-> 0, used |-> Others, LevOfX |-> <<>>, XOfLev |-> <<>>],
           [x \in 1..n |-> x])

X_Lev(lev) == Tables.XOfLev[lev]
Y_Lev(lev) == Tables.LevOfX[X_Lev(lev)] - lev + 1
Lev_XY(x, y) == Tables.LevOfX[x] - y + 1

top_x(p) == IF Terminal(p) THEN 0 ELSE X_Lev(Level(p))
top_y(p) == IF Terminal(p) THEN 0 ELSE Y_Lev(Level(p))

-----------------------------------------------------------------------------
XOf(v) == X_Lev(LevelOf(v))
YOf(v) == Y_Lev(LevelOf(v))

\* The sets that stand for permutations: no two variables of one x.
Proper == LET own == {v \in DOMAIN var2level : LevelOf(v) \in DOMAIN Tables.XOfLev}
          IN  {s \in SUBSET own : \A v, w \in s : v # w => XOf(v) # XOf(w)}

\* Permutations as their images in order.
Identity(n) == [i \in 1..n |-> i]
Then(pi, sigma) == [i \in Elements |-> sigma[pi[i]]]
Extend(pi) == [i \in Elements |-> IF i \in DOMAIN pi THEN pi[i] ELSE i]
All == {pi \in [Elements -> Elements] : IsInjective(pi)}
Words(n) == {pi \in [1..n -> 1..n] : IsInjective(pi)}

Exchange(y, u, v) == IF y = u THEN v ELSE IF y = v THEN u ELSE y
Trans(x, y) == [i \in Elements |-> Exchange(i, x, y)]
LeftRot(x, y) == [i \in Elements |-> IF i = x THEN y ELSE IF i \in y..(x - 1) THEN i + 1 ELSE i]

Inversions(pi) == {p \in Elements \X Elements : p[1] < p[2] /\ pi[p[1]] > pi[p[2]]}
Odd(pi) == Cardinality(Inversions(pi)) % 2 = 1

Product(s, Factor(_, _)) ==
  FoldLeft(LAMBDA pi, v : Then(Factor(XOf(v), YOf(v)), pi), Identity(PermSize), HighestFirst(s))

\* A listing names every permutation of a set once.
Listed(value, perms, Read(_)) ==
  /\ Len(value) = Cardinality(perms)
  /\ {Read(value[i]) : i \in DOMAIN value} = perms
=============================================================================
