----------------------------- MODULE ZddFilter -----------------------------
(***************************************************************************)
(* The operations of zdd_adv_filter.cpp: joins of the pairs that are (or   *)
(* are not) disjoint, and the filters of a family by the sets of another   *)
(* or by inclusion among its own.  Forms as in modules ZddOps and ZddLoops.*)
(***************************************************************************)
EXTENDS ZddOps

RECURSIVE bdddisjoin(_, _), bddjointjoin(_, _), bddrestrict(_, _),
          bddpermit(_, _), bddremove_supersets(_, _), bddremove_subsets(_, _),
          bddmaximal(_), bddminimal(_), bddminhit(_), bddclosure(_)

bdddisjoin(f, g) ==
  LET v == Higher(f, g)
  IN  IF Empty \in {f, g} THEN Empty
      ELSE IF f = Single THEN g
      ELSE IF g = Single THEN f
      ELSE IF Level(f) # Level(g)
      THEN Node(v, bdddisjoin(Off(f, v), Off(g, v)),
                   bdddisjoin(Down(f, v), Down(g, v)))
      ELSE Node(v, bdddisjoin(Lo(f), Lo(g)),
                   bdddisjoin(Lo(f), Hi(g)) \cup bdddisjoin(Hi(f), Lo(g)))

\* Two sets with the top variable meet in it: all their unions count.
bddjointjoin(f, g) ==
  LET v == Higher(f, g)
  IN  IF Terminal(f) \/ Terminal(g) THEN Empty
      ELSE IF Level(f) # Level(g)
      THEN Node(v, bddjointjoin(Off(f, v), Off(g, v)),
                   bddjointjoin(Down(f, v), Down(g, v)))
      ELSE Node(v, bddjointjoin(Lo(f), Lo(g)),
                   bddjointjoin(Lo(f), Hi(g)) \cup bddjointjoin(Hi(f), Lo(g))
                     \cup bddjoin(Hi(f), Hi(g)))

bddjointjoin_iter(a, got) ==
  LET f == a[1]  g == a[2]  v == Higher(f, g)
  IN  IF Terminal(f) \/ Terminal(g) THEN Answer(Empty)
      ELSE IF Level(f) # Level(g)
      THEN Open(Either(f, g), <<<<Off(f, v), Off(g, v)>>, <<Down(f, v), Down(g, v)>>>>,
                got, Node(v, got[1], got[2]))
      ELSE Open(Either(f, g), <<<<Lo(f), Lo(g)>>, <<Lo(f), Hi(g)>>, <<Hi(f), Lo(g)>>>>,
                got, Node(v, got[1], got[2] \cup got[3] \cup bddjoin(Hi(f), Hi(g))))

-----------------------------------------------------------------------------
\* Members of f by the sets of g they include or are included in.

bddrestrict(f, g) ==
  IF Empty \in {f, g} THEN Empty
  ELSE IF g = Single \/ f = g THEN f
  ELSE IF Level(f) > Level(g)
  THEN Node(TopVar(f), bddrestrict(Lo(f), g), bddrestrict(Hi(f), g))
  ELSE IF Level(f) < Level(g) THEN bddrestrict(f, Lo(g))
  ELSE Node(TopVar(f), bddrestrict(Lo(f), Lo(g)),
                       bddrestrict(Hi(f), Lo(g) \cup Hi(g)))

bddpermit(f, g) ==
  IF Empty \in {f, g} THEN Empty
  ELSE IF f = Single \/ f = g THEN f
  ELSE IF Level(f) > Level(g) THEN bddpermit(Lo(f), g)
  ELSE IF Level(f) < Level(g) THEN bddpermit(f, Lo(g) \cup Hi(g))
  ELSE Node(TopVar(f), bddpermit(Lo(f), Lo(g) \cup Hi(g)), bddpermit(Hi(f), Hi(g)))

bddremove_supersets(f, g) ==
  IF f = Empty \/ g = Single \/ f = g THEN Empty
  ELSE IF g = Empty THEN f
  ELSE IF Level(f) > Level(g)
  THEN Node(TopVar(f), bddremove_supersets(Lo(f), g), bddremove_supersets(Hi(f), g))
  ELSE IF Level(f) < Level(g) THEN bddremove_supersets(f, Lo(g))
  ELSE Node(TopVar(f), bddremove_supersets(Lo(f), Lo(g)),
                       bddremove_supersets(Hi(f), Lo(g) \cup Hi(g)))

\* A member with a variable above g is in no set of g: the hi side stays.
bddremove_subsets(f, g) ==
  IF f = Empty THEN Empty
  ELSE IF g = Empty THEN f
  ELSE IF f = Single \/ f = g THEN Empty
  ELSE IF Level(f) > Level(g)
  THEN Node(TopVar(f), bddremove_subsets(Lo(f), g), Hi(f))
  ELSE IF Level(f) < Level(g) THEN bddremove_subsets(f, Lo(g) \cup Hi(g))
  ELSE Node(TopVar(f), bddremove_subsets(Lo(f), Lo(g) \cup Hi(g)),
                       bddremove_subsets(Hi(f), Hi(g)))

-----------------------------------------------------------------------------
\* Inclusion among the members of one family.

bddmaximal(f) ==
  IF Terminal(f) THEN f
  ELSE Node(TopVar(f), bddremove_subsets(bddmaximal(Lo(f)), Hi(f)), bddmaximal(Hi(f)))

bddmaximal_iter(a, got) ==
  LET f == a[1]
  IN  IF Terminal(f) THEN Answer(f)
      ELSE Open({a}, <<<<Hi(f)>>, <<Lo(f)>>>>, got,
                Node(TopVar(f), bddremove_subsets(got[2], Hi(f)), got[1]))

bddminimal(f) ==
  IF Terminal(f) THEN f
  ELSE Node(TopVar(f), bddminimal(Lo(f)), bddremove_supersets(bddminimal(Hi(f)), Lo(f)))

bddminimal_iter(a, got) ==
  LET f == a[1]
  IN  IF Terminal(f) THEN Answer(f)
      ELSE Open({a}, <<<<Lo(f)>>, <<Hi(f)>>>>, got,
                Node(TopVar(f), got[1], bddremove_supersets(got[2], Lo(f))))

\* Hitting sets without the top variable hit both sides; one with it need
\* only hit the lo side, and is minimal unless it includes one of the former.
bddminhit(f) ==
  IF f = Empty THEN Single
  ELSE IF HasEmpty(f) THEN Empty
  ELSE LET p == bddminhit(Hi(f) \cup Lo(f))
       IN  Node(TopVar(f), p, bddremove_supersets(bddminhit(Lo(f)), p))

\* Mutant: hitting sets with the top variable are all kept.
MinhitUnfiltered(a, got) ==
  LET f == a[1]
  IN  IF f = Empty THEN Answer(Single)
      ELSE IF HasEmpty(f) THEN Answer(Empty)
      ELSE Open({a}, <<<<Hi(f) \cup Lo(f)>>, <<Lo(f)>>>>, got,
                Node(TopVar(f), got[1], got[2]))

bddminhit_iter(a, got) ==
  LET f == a[1]
  IN  IF f = Empty THEN Answer(Single)
      ELSE IF HasEmpty(f) THEN Answer(Empty)
      ELSE Open({a}, <<<<Hi(f) \cup Lo(f)>>, <<Lo(f)>>>>, got,
                Node(TopVar(f), got[1], bddremove_supersets(got[2], got[1])))

bddclosure(f) ==
  IF Terminal(f) THEN f
  ELSE Node(TopVar(f), bddclosure(Lo(f)) \cup bddclosure(Hi(f)), bddclosure(Hi(f)))
=============================================================================
