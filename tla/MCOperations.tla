---------------------------- MODULE MCOperations ----------------------------
(***************************************************************************)
(* Operations on three variables whose levels are not their numbers, with  *)
(* every family of sets of them, which is every Boolean function too, as   *)
(* first operand, and every unreduced diagram with complement edges over   *)
(* the two lower levels, some below a third.                               *)
(***************************************************************************)
EXTENDS Operations

MCOrder == <<2, 3, 1>>
MCFirsts == SUBSET SUBSET Vars
MCSeconds == {Empty, Single, {{1}}, {{2}, {2, 3}}, {{}, {1, 2}, {3}}, {{1}, {2, 3}, {1, 3}},
              SUBSET {1, 3}}

\* A plain variable, then those of two and of three elements.
MCPermLevels == <<1, 2, 3, 4>>
MCTables == [top |-> 3, used |-> 4, LevOfX |-> <<0, 2, 4>>,
             XOfLev |-> 2 :> 2 @@ 3 :> 3 @@ 4 :> 3]
MCDivisors == {Empty, Single, {{2}}, {{3}, {2, 4}}, {{}, {2, 3}, {4}}, {{}, {2}, {3}, {2, 4}}}
MCPairWeights == <<<<0, 2, -1>>, <<0, 0, 3>>, <<7, 0, 0>>>>

\* Sequences that repeat a symbol, and whose levels do not decrease.
MCSeqFirsts == SUBSET {<<>>, <<1>>, <<2>>, <<1, 1>>, <<1, 2>>, <<2, 1>>, <<3, 1, 2>>}
MCSeqSeconds == {Empty, {<<>>}, {<<1>>}, {<<>>, <<1>>}, {<<2>>, <<3, 1>>}, {<<1>>, <<2>>},
                 {<<3>>}, {<<1>>, <<1, 1>>}, {<<2, 1>>, <<1, 2>>, <<>>}}
-----------------------------------------------------------------------------
MCOperands == {bddnot(bddprime(1)), bddprime(1) \cap bddprime(3),
               bddnot(bddprime(2) \cap bddprime(3)), {s \in True : Cardinality(s) = 2}}

\* Exchanges, a cycle, and two that merge variables.
MCRenamings == {<<2, 1, 3>>, <<1, 3, 2>>, <<2, 3, 1>>, <<2, 2, 3>>, <<3, 3, 3>>}

C == INSTANCE Convert

\* Trees over the levels 1 (variable 3), 2 and 3, that may contain d.
Leaves == {C!Leaf(FALSE), C!Leaf(TRUE)}
Middle(d) == Leaves \cup {C!Null, C!Wrapped(d)}
               \cup {C!Tree(neg, 3, lo, hi) : neg \in BOOLEAN, lo, hi \in Leaves}
High(d) == {C!Tree(neg, 1, lo, hi) : neg \in BOOLEAN, lo, hi \in Middle(d)}
TreesOver(d) == Middle(d) \cup High(d)
                  \cup {C!Tree(TRUE, 2, C!Leaf(TRUE), hi) : hi \in High(d)}
MCBddTrees == TreesOver(bddprime(3))
MCZddTrees == TreesOver({{3}})
-----------------------------------------------------------------------------
MCFew == {Empty, Single, {{}, {1}, {2}}, {{1}, {1, 3}, {2, 3}, {1, 2, 3}},
          {s \in SUBSET {1, 2, 3} : Cardinality(s) # 1}, {{}, {3}, {1, 2}, {1, 3}, {2, 3}},
          SUBSET {1, 2, 3}}
MCWeightVectors == {<<2, 0, 3>>, <<-2, 3, 2>>}
MCBounds == {-9, -8, -2, -1, 1, 3, 4, 5, 7, 8}

\* Functions to 0, 1, 2: a terminal, and nodes over sums of their variables.
Of(F(_)) == [s \in SUBSET {1, 2, 3} |-> F(s)]
MCFewMaps == {Of(LAMBDA s : 0), Of(LAMBDA s : 2), Of(LAMBDA s : IF s = {} THEN 1 ELSE 0),
              Of(LAMBDA s : Cardinality(s) % 3), Of(LAMBDA s : IF s \in {{1}, {2, 3}} THEN 2 ELSE 0)}
MCMaps == MCFewMaps
  \cup {Of(LAMBDA s : IF s \in f THEN 1 ELSE 0) : f \in MCFew}
  \cup {Of(LAMBDA s : IF v \in s THEN c ELSE Cardinality(s \cap {w})) :
          v, w \in {1, 2, 3}, c \in {0, 2}}

MCLists == {<<>>, <<3>>, <<1, 3>>, <<2, 1, 2>>, <<3, 2, 1>>}
MCChains == {1..72, {n \in 1..72 : n % 3 # 0}, {n \in 1..72 : n % 7 \in {1, 2}}, {5, 6, 40, 70}}
=============================================================================
