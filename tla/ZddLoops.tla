------------------------------ MODULE ZddLoops ------------------------------
(***************************************************************************)
(* Iterative forms of zdd_ops*_iter.cpp and zdd_adv_filter_iter.cpp:       *)
(* foo_iter(a, got) is one pass of the loop of foo, over a frame with      *)
(* arguments a that has got the results of its first subproblems.  Union,  *)
(* intersection and difference, which module Apply covers, are \cup, \cap  *)
(* and \ here.  The recursive forms are in modules ZddOps and ZddFilter.    *)
(***************************************************************************)
EXTENDS Family

-----------------------------------------------------------------------------
\* One variable.

bddoffset_iter(a, got) ==
  LET f == a[1]  v == a[2]
  IN  IF Terminal(f) \/ Level(f) < LevelOf(v) THEN Answer(f)
      ELSE IF TopVar(f) = v THEN Keep(One(f, v), Lo(f))
      ELSE Open(One(f, v), <<<<Lo(f), v>>, <<Hi(f), v>>>>, got,
                Node(TopVar(f), got[1], got[2]))

bddonset_iter(a, got) ==
  LET f == a[1]  v == a[2]
  IN  IF Terminal(f) \/ Level(f) < LevelOf(v) THEN Answer(Empty)
      ELSE IF TopVar(f) = v THEN Keep(One(f, v), Node(v, Empty, Hi(f)))
      ELSE Open(One(f, v), <<<<Lo(f), v>>, <<Hi(f), v>>>>, got,
                Node(TopVar(f), got[1], got[2]))

bddonset0_iter(a, got) ==
  LET f == a[1]  v == a[2]
  IN  IF Terminal(f) \/ Level(f) < LevelOf(v) THEN Answer(Empty)
      ELSE IF TopVar(f) = v THEN Keep(One(f, v), Hi(f))
      ELSE Open(One(f, v), <<<<Lo(f), v>>, <<Hi(f), v>>>>, got,
                Node(TopVar(f), got[1], got[2]))

\* A variable above the top goes on top.
bddchange_iter(a, got) ==
  LET f == a[1]  v == a[2]
  IN  IF f = Empty THEN Answer(Empty)
      ELSE IF Level(f) < LevelOf(v) THEN Answer(Node(v, Empty, f))
      ELSE IF TopVar(f) = v THEN Keep(One(f, v), Node(v, Hi(f), Lo(f)))
      ELSE Open(One(f, v), <<<<Lo(f), v>>, <<Hi(f), v>>>>, got,
                Node(TopVar(f), got[1], got[2]))

-----------------------------------------------------------------------------
\* Inclusion and disjointness: the hi sides first, and the lo sides only when
\* the hi sides did not decide.

bddissubset_iter(a, got) ==
  LET f == a[1]  g == a[2]  key == One(f, g)
  IN  IF f = Empty \/ f = g THEN Answer(TRUE)
      ELSE IF g = Empty THEN Answer(FALSE)
      ELSE IF f = Single THEN Answer(HasEmpty(g))
      ELSE IF g = Single THEN Answer(FALSE)
      ELSE IF Level(f) > Level(g) THEN Keep(key, FALSE)
      ELSE IF Level(f) < Level(g) THEN Open(key, <<<<f, Lo(g)>>>>, got, got[1])
      ELSE IF got = <<FALSE>> THEN Keep(key, FALSE)
      ELSE Open(key, <<<<Hi(f), Hi(g)>>, <<Lo(f), Lo(g)>>>>, got, got[2])

bddisdisjoint_iter(a, got) ==
  LET f == a[1]  g == a[2]  v == Higher(f, g)  key == Either(f, g)
  IN  IF Empty \in {f, g} THEN Answer(TRUE)
      ELSE IF f = g THEN Answer(FALSE)
      ELSE IF f = Single THEN Answer(~HasEmpty(g))
      ELSE IF g = Single THEN Answer(~HasEmpty(f))
      ELSE IF Level(f) # Level(g)
      THEN Open(key, <<<<Off(f, v), Off(g, v)>>>>, got, got[1])
      ELSE IF got = <<FALSE>> THEN Keep(key, FALSE)
      ELSE Open(key, <<<<Hi(f), Hi(g)>>, <<Lo(f), Lo(g)>>>>, got, got[2])

-----------------------------------------------------------------------------
\* Quotient.

\* Mutant: the operands are sorted, as those of a commutative operation.
DivSorted(a, got) ==
  LET f == a[1]  g == a[2]  key == Either(f, g)
  IN  IF g = Single THEN Answer(f)
      ELSE IF Terminal(f) \/ g = Empty THEN Answer(Empty)
      ELSE IF Level(g) > Level(f) THEN Keep(key, Empty)
      ELSE IF Level(f) > Level(g)
      THEN Open(key, <<<<Lo(f), g>>, <<Hi(f), g>>>>, got,
                Node(TopVar(f), got[1], got[2]))
      ELSE IF Lo(g) = Empty THEN Open(key, <<<<Hi(f), Hi(g)>>>>, got, got[1])
      ELSE Open(key, <<<<Hi(f), Hi(g)>>, <<Lo(f), Lo(g)>>>>, got, got[1] \cap got[2])

bdddiv_iter(a, got) ==
  LET f == a[1]  g == a[2]  key == One(f, g)
  IN  IF g = Single THEN Answer(f)
      ELSE IF Terminal(f) \/ g = Empty THEN Answer(Empty)
      ELSE IF Level(g) > Level(f) THEN Keep(key, Empty)
      ELSE IF Level(f) > Level(g)
      THEN Open(key, <<<<Lo(f), g>>, <<Hi(f), g>>>>, got,
                Node(TopVar(f), got[1], got[2]))
      ELSE IF Lo(g) = Empty THEN Open(key, <<<<Hi(f), Hi(g)>>>>, got, got[1])
      ELSE Open(key, <<<<Hi(f), Hi(g)>>, <<Lo(f), Lo(g)>>>>, got, got[1] \cap got[2])

-----------------------------------------------------------------------------
\* Pairwise union, of all pairs and of operands over disjoint variables.

bddjoin_iter(a, got) ==
  LET f == a[1]  g == a[2]  v == Higher(f, g)
  IN  IF Empty \in {f, g} THEN Answer(Empty)
      ELSE IF f = Single THEN Answer(g)
      ELSE IF g = Single THEN Answer(f)
      ELSE IF Level(f) # Level(g)
      THEN Open(Either(f, g), <<<<Off(f, v), Off(g, v)>>, <<Down(f, v), Down(g, v)>>>>,
                got, Node(v, got[1], got[2]))
      ELSE Open(Either(f, g), <<<<Lo(f), Lo(g)>>, <<Lo(f), Hi(g)>>,
                                <<Hi(f), Lo(g)>>, <<Hi(f), Hi(g)>>>>,
                got, Node(v, got[1], got[2] \cup got[3] \cup got[4]))

bddproduct_iter(a, got) ==
  LET f == a[1]  g == a[2]  v == Higher(f, g)
  IN  IF Empty \in {f, g} THEN Answer(Empty)
      ELSE IF f = Single THEN Answer(g)
      ELSE IF g = Single THEN Answer(f)
      ELSE IF Level(f) = Level(g) \/ Thrown \in ToSet(got) THEN Answer(Thrown)
      ELSE Open(Either(f, g), <<<<Off(f, v), Off(g, v)>>, <<Down(f, v), Down(g, v)>>>>,
                got, Node(v, got[1], got[2]))

\* Pairwise intersection: what is only in one operand's sets disappears.
bddmeet_iter(a, got) ==
  LET f == a[1]  g == a[2]  v == Higher(f, g)
  IN  IF Empty \in {f, g} THEN Answer(Empty)
      ELSE IF Single \in {f, g} THEN Answer(Single)
      ELSE IF Level(f) # Level(g)
      THEN Open(Either(f, g), <<<<Off(f, v), Off(g, v)>>, <<Down(f, v), Down(g, v)>>>>,
                got, got[1] \cup got[2])
      ELSE Open(Either(f, g), <<<<Lo(f), Lo(g)>>, <<Lo(f), Hi(g)>>,
                                <<Hi(f), Lo(g)>>, <<Hi(f), Hi(g)>>>>,
                got, Node(v, got[1] \cup got[2] \cup got[3], got[4]))

\* Pairwise symmetric difference.
bdddelta_iter(a, got) ==
  LET f == a[1]  g == a[2]  v == Higher(f, g)
  IN  IF Empty \in {f, g} THEN Answer(Empty)
      ELSE IF f = Single THEN Answer(g)
      ELSE IF g = Single THEN Answer(f)
      ELSE IF Level(f) # Level(g)
      THEN Open(Either(f, g), <<<<Off(f, v), Off(g, v)>>, <<Down(f, v), Down(g, v)>>>>,
                got, Node(v, got[1], got[2]))
      ELSE Open(Either(f, g), <<<<Lo(f), Lo(g)>>, <<Hi(f), Hi(g)>>,
                                <<Lo(f), Hi(g)>>, <<Hi(f), Lo(g)>>>>,
                got, Node(v, got[1] \cup got[2], got[3] \cup got[4]))

-----------------------------------------------------------------------------
\* Pairwise union of the pairs that are disjoint.
bdddisjoin_iter(a, got) ==
  LET f == a[1]  g == a[2]  v == Higher(f, g)
  IN  IF Empty \in {f, g} THEN Answer(Empty)
      ELSE IF f = Single THEN Answer(g)
      ELSE IF g = Single THEN Answer(f)
      ELSE IF Level(f) # Level(g)
      THEN Open(Either(f, g), <<<<Off(f, v), Off(g, v)>>, <<Down(f, v), Down(g, v)>>>>,
                got, Node(v, got[1], got[2]))
      ELSE Open(Either(f, g), <<<<Lo(f), Lo(g)>>, <<Lo(f), Hi(g)>>, <<Hi(f), Lo(g)>>>>,
                got, Node(v, got[1], got[2] \cup got[3]))

-----------------------------------------------------------------------------
\* Members of f by the sets of g they include or are included in.

bddrestrict_iter(a, got) ==
  LET f == a[1]  g == a[2]  key == One(f, g)
  IN  IF Empty \in {f, g} THEN Answer(Empty)
      ELSE IF g = Single \/ f = g THEN Answer(f)
      ELSE IF Level(f) < Level(g) THEN Open(key, <<<<f, Lo(g)>>>>, got, got[1])
      ELSE Open(key, IF Level(f) > Level(g) THEN <<<<Lo(f), g>>, <<Hi(f), g>>>>
                     ELSE <<<<Lo(f), Lo(g)>>, <<Hi(f), Lo(g) \cup Hi(g)>>>>,
                got, Node(TopVar(f), got[1], got[2]))

bddpermit_iter(a, got) ==
  LET f == a[1]  g == a[2]  key == One(f, g)
  IN  IF Empty \in {f, g} THEN Answer(Empty)
      ELSE IF f = Single \/ f = g THEN Answer(f)
      ELSE IF Level(f) > Level(g) THEN Open(key, <<<<Lo(f), g>>>>, got, got[1])
      ELSE IF Level(f) < Level(g)
      THEN Open(key, <<<<f, Lo(g) \cup Hi(g)>>>>, got, got[1])
      ELSE Open(key, <<<<Lo(f), Lo(g) \cup Hi(g)>>, <<Hi(f), Hi(g)>>>>, got,
                Node(TopVar(f), got[1], got[2]))

bddremove_supersets_iter(a, got) ==
  LET f == a[1]  g == a[2]  key == One(f, g)
  IN  IF f = Empty \/ g = Single \/ f = g THEN Answer(Empty)
      ELSE IF g = Empty THEN Answer(f)
      ELSE IF Level(f) < Level(g) THEN Open(key, <<<<f, Lo(g)>>>>, got, got[1])
      ELSE Open(key, IF Level(f) > Level(g) THEN <<<<Lo(f), g>>, <<Hi(f), g>>>>
                     ELSE <<<<Lo(f), Lo(g)>>, <<Hi(f), Lo(g) \cup Hi(g)>>>>,
                got, Node(TopVar(f), got[1], got[2]))

\* A member with a variable above g is in no set of g: the hi side stays.
bddremove_subsets_iter(a, got) ==
  LET f == a[1]  g == a[2]  key == One(f, g)
  IN  IF f = Empty THEN Answer(Empty)
      ELSE IF g = Empty THEN Answer(f)
      ELSE IF f = Single \/ f = g THEN Answer(Empty)
      ELSE IF Level(f) > Level(g)
      THEN Open(key, <<<<Lo(f), g>>>>, got, Node(TopVar(f), got[1], Hi(f)))
      ELSE IF Level(f) < Level(g)
      THEN Open(key, <<<<f, Lo(g) \cup Hi(g)>>>>, got, got[1])
      ELSE Open(key, <<<<Lo(f), Lo(g) \cup Hi(g)>>, <<Hi(f), Hi(g)>>>>, got,
                Node(TopVar(f), got[1], got[2]))

\* All subsets of the members.
bddclosure_iter(a, got) ==
  LET f == a[1]
  IN  IF Terminal(f) THEN Answer(f)
      ELSE Open({a}, <<<<Lo(f)>>, <<Hi(f)>>>>, got,
                Node(TopVar(f), got[1] \cup got[2], got[2]))
=============================================================================
