------------------------------- MODULE ZddSym -------------------------------
(***************************************************************************)
(* The operations of zdd_adv2.cpp: what can be said of the variables of a  *)
(* family (always present, implied, symmetric), and the divisor.           *)
(***************************************************************************)
EXTENDS ZddFilter

RECURSIVE bddispoly(_), bddpermitsym(_, _), bddalways(_), symchk_rec(_, _, _),
          symset_rec(_, _), coimplyset_rec(_, _)

Singleton(v) == {{v}}
support_to_singletons(f) == {{v} : v \in Support(f)}
HighestFirst(vars) == SetToSortSeq(vars, LAMBDA v, w : LevelOf(v) > LevelOf(w))

\* More than one set: a lo side that is not empty.
bddispoly(f) == ~Terminal(f) /\ (Lo(f) # Empty \/ bddispoly(Hi(f)))

bddswapz(f, v, w) ==
  IF v = w \/ Terminal(f) THEN f
  ELSE LET neither == bddoffset(bddoffset(f, v), w)
           both == bddchange(bddchange(bddonset0(bddonset0(f, v), w), v), w)
           one == (f \ neither) \ both
       IN  neither \cup both \cup bddchange(bddchange(one, v), w)

bddimplychk(f, v, w) ==
  v = w \/ Terminal(f) \/ bddoffset(bddonset0(f, v), w) = Empty

bddcoimplychk(f, v, w) ==
  \/ v = w \/ Terminal(f)
  \/ bddoffset(bddonset0(f, v), w) \ bddonset0(bddoffset(f, v), w) = Empty

bddpermitsym(f, n) ==
  IF f = Empty \/ n < 0 THEN Empty
  ELSE IF f = Single THEN Single
  ELSE IF n = 0 THEN f \cap Single
  ELSE bddchange(bddpermitsym(Hi(f), n - 1), TopVar(f)) \cup bddpermitsym(Lo(f), n)

bddpermitsym_iter(a, got) ==
  LET f == a[1]  n == a[2]
  IN  IF f = Empty \/ n < 0 THEN Answer(Empty)
      ELSE IF f = Single THEN Answer(Single)
      ELSE IF n = 0 THEN Answer(f \cap Single)
      ELSE Open({a}, <<<<Hi(f), n - 1>>, <<Lo(f), n>>>>, got,
                bddchange(got[1], TopVar(f)) \cup got[2])

\* The variables of every set of the hi side, and the top one if there is no
\* lo side; otherwise those common to both sides.
bddalways(f) ==
  IF Terminal(f) THEN Empty
  ELSE LET h == bddalways(Hi(f))
       IN  IF Lo(f) = Empty THEN h \cup Singleton(TopVar(f))
           ELSE IF h # Empty THEN h \cap bddalways(Lo(f))
           ELSE Empty

bddalways_iter(a, got) ==
  LET f == a[1]
  IN  IF Terminal(f) THEN Answer(Empty)
      ELSE IF Lo(f) = Empty
      THEN Open({a}, <<<<Hi(f)>>>>, got, got[1] \cup Singleton(TopVar(f)))
      ELSE IF got = <<Empty>> THEN Keep({a}, Empty)
      ELSE Open({a}, <<<<Hi(f)>>, <<Lo(f)>>>>, got, got[1] \cap got[2])

bddimplyset(f, v) ==
  IF Terminal(f) THEN Empty
  ELSE IF bddonset0(f, v) = Empty THEN support_to_singletons(f)
  ELSE bddalways(bddonset0(f, v))

-----------------------------------------------------------------------------
\* Symmetry of v and w, v the higher: the variables above w are split off,
\* those between v and w by rebuilding the node of v below them.

SymSplit(f, v) ==
  IF Level(f) > LevelOf(v) THEN <<Hi(f), Lo(f)>>
  ELSE LET f0 == bddoffset(f, v)
           f1 == bddonset0(f, v)
           t == IF Level(f0) > Level(f1) THEN TopVar(f0) ELSE TopVar(f1)
       IN  <<Node(v, bddonset0(f0, t), bddonset0(f1, t)),
             Node(v, bddoffset(f0, t), bddoffset(f1, t))>>

SymDecided(f, v, w) ==
  /\ Level(f) <= LevelOf(v)
  /\ Level(bddoffset(f, v)) <= LevelOf(w) /\ Level(bddonset0(f, v)) <= LevelOf(w)

SymHere(f, v, w) == bddonset0(bddoffset(f, v), w) = bddoffset(bddonset0(f, v), w)

Upper(v, w) == IF LevelOf(v) < LevelOf(w) THEN w ELSE v
Lower(v, w) == IF LevelOf(v) < LevelOf(w) THEN v ELSE w

symchk_rec(f, v, w) ==
  \/ Terminal(f)
  \/ IF SymDecided(f, v, w) THEN SymHere(f, v, w)
     ELSE \A i \in 1..2 : symchk_rec(SymSplit(f, v)[i], v, w)

bddsymchk(f, v, w) ==
  \/ v = w \/ Terminal(f)
  \/ symchk_rec(f, Upper(v, w), Lower(v, w))

bddsymchk_iter(a, got) ==
  LET f == a[1]  v == a[2]  w == a[3]
  IN  IF Terminal(f) \/ v = w THEN Answer(TRUE)
      ELSE IF LevelOf(v) < LevelOf(w) THEN Relay(<<<<f, w, v>>>>, got, got[1])
      ELSE IF SymDecided(f, v, w) THEN Keep({a}, SymHere(f, v, w))
      ELSE IF got = <<FALSE>> THEN Keep({a}, FALSE)
      ELSE Open({a}, [i \in 1..2 |-> <<SymSplit(f, v)[i], v, w>>], got, got[2])

\* Sides of a pair of families at their highest variable.
PairTop(f0, f1) == IF Level(f0) > Level(f1) THEN TopVar(f0) ELSE TopVar(f1)

SymsetAt(t, f00, f01, f10, f11) ==
  (IF f10 = f01 THEN Singleton(t) ELSE Empty)
    \cup IF f11 = Empty THEN symset_rec(f00, f10) \ support_to_singletons(f01)
         ELSE IF f10 = Empty THEN symset_rec(f01, f11) \ support_to_singletons(f00)
         ELSE symset_rec(f00, f10) \cap symset_rec(f01, f11)

symset_rec(f0, f1) ==
  IF f1 = Empty \/ (Terminal(f0) /\ Terminal(f1)) THEN Empty
  ELSE LET t == PairTop(f0, f1)
       IN  SymsetAt(t, bddoffset(f0, t), bddonset0(f0, t), bddoffset(f1, t), bddonset0(f1, t))

bddsymset(f, v) ==
  IF Terminal(f) THEN Empty ELSE symset_rec(bddoffset(f, v), bddonset0(f, v))

SymsetFrame(a, got, t, f00, f01, f10, f11) ==
  LET top == IF f10 = f01 THEN Singleton(t) ELSE Empty
  IN  IF f11 = Empty
      THEN Open({a}, <<<<f00, f10>>>>, got, (got[1] \ support_to_singletons(f01)) \cup top)
      ELSE IF f10 = Empty
      THEN Open({a}, <<<<f01, f11>>>>, got, (got[1] \ support_to_singletons(f00)) \cup top)
      ELSE Open({a}, <<<<f00, f10>>, <<f01, f11>>>>, got, (got[1] \cap got[2]) \cup top)

bddsymset_iter(a, got) ==
  LET f0 == a[1]  f1 == a[2]  t == PairTop(f0, f1)
  IN  IF f1 = Empty \/ (f1 = Single /\ Terminal(f0)) THEN Answer(Empty)
      ELSE SymsetFrame(a, got, t, bddoffset(f0, t), bddonset0(f0, t),
                       bddoffset(f1, t), bddonset0(f1, t))

CoimplysetAt(t, f00, f01, f10, f11) ==
  (IF f10 \ f01 = Empty THEN Singleton(t) ELSE Empty)
    \cup IF f11 = Empty THEN coimplyset_rec(f00, f10)
         ELSE IF f10 = Empty THEN coimplyset_rec(f01, f11)
         ELSE coimplyset_rec(f00, f10) \cap coimplyset_rec(f01, f11)

coimplyset_rec(f0, f1) ==
  IF f1 = Empty \/ (Terminal(f0) /\ Terminal(f1)) THEN Empty
  ELSE LET t == PairTop(f0, f1)
       IN  CoimplysetAt(t, bddoffset(f0, t), bddonset0(f0, t),
                        bddoffset(f1, t), bddonset0(f1, t))

bddcoimplyset(f, v) ==
  IF Terminal(f) THEN Empty
  ELSE IF bddonset0(f, v) = Empty THEN support_to_singletons(f)
  ELSE coimplyset_rec(bddoffset(f, v), bddonset0(f, v))

CoimplysetFrame(a, got, t, f00, f01, f10, f11) ==
  LET top == IF f10 \ f01 = Empty THEN Singleton(t) ELSE Empty
  IN  IF f11 = Empty THEN Open({a}, <<<<f00, f10>>>>, got, got[1] \cup top)
      ELSE IF f10 = Empty THEN Open({a}, <<<<f01, f11>>>>, got, got[1] \cup top)
      ELSE Open({a}, <<<<f00, f10>>, <<f01, f11>>>>, got, (got[1] \cap got[2]) \cup top)

bddcoimplyset_iter(a, got) ==
  LET f0 == a[1]  f1 == a[2]  t == PairTop(f0, f1)
  IN  IF f1 = Empty \/ (f1 = Single /\ Terminal(f0)) THEN Answer(Empty)
      ELSE CoimplysetFrame(a, got, t, bddoffset(f0, t), bddonset0(f0, t),
                           bddoffset(f1, t), bddonset0(f1, t))

-----------------------------------------------------------------------------
\* Groups of symmetric variables: the highest variable left, with those of
\* the rest that are symmetric to it.

Groups(f, symmetric(_, _)) ==
  FoldLeft(LAMBDA done, t : IF t \in UNION done THEN done
                            ELSE done \cup {{t} \cup {w \in Support(f) \ UNION done :
                                     LevelOf(w) < LevelOf(t) /\ symmetric(t, w)}},
           {}, HighestFirst(Support(f)))

bddsymgrp(f) ==
  {group \in Groups(f, LAMBDA t, w : bddsymchk(f, t, w)) : Cardinality(group) >= 2}

bddsymgrpnaive(f) ==
  Groups(f, LAMBDA t, w :
              bddonset0(bddoffset(f, t), w) = bddoffset(bddonset0(f, t), w))

\* Greedily takes the sets with a variable while there are several, and
\* gives up when the result does not divide f.
bdddivisor(f) ==
  IF f = Empty THEN Empty
  ELSE IF ~bddispoly(f) THEN Single
  ELSE LET cur == FoldLeft(LAMBDA c, t : IF bddispoly(bddonset0(c, t))
                                         THEN bddonset0(c, t) ELSE c,
                           f, HighestFirst(Support(f)))
       IN  IF bddjoin(bdddiv(f, cur), cur) # f THEN Single ELSE cur
=============================================================================
