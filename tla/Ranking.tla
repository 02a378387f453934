------------------------------ MODULE Ranking -------------------------------
(***************************************************************************)
(* The order of the members of a ZDD and what is selected by it or by a    *)
(* set of variables (zdd_adv_rank.cpp, zdd_adv_rank_iter.cpp,              *)
(* zdd_rank_iter.cpp).  The empty set comes first, then at each node the   *)
(* members with its variable before those without.                         *)
(*                                                                         *)
(* A vector of variables sorted from the top and an index into it is here  *)
(* the set of those still to come.                                         *)
(***************************************************************************)
EXTENDS Counting

HighestIn(W) == CHOOSE v \in W : \A w \in W : LevelOf(w) <= LevelOf(v)

RECURSIVE RankWalk(_, _, _), UnrankWalk(_, _), bddgetksets_rec(_, _),
          bddsupersets_of_rec(_, _), bddsubsets_of_rec(_, _), bddproject_rec(_, _)

-----------------------------------------------------------------------------
\* The rank of a member, and -1 for a set that is none.

RankWalk(f, s, rank) ==
  IF Terminal(f) THEN (IF f = Single /\ s = {} THEN rank ELSE -1)
  ELSE IF \E v \in s : LevelOf(v) > Level(f) THEN -1
  ELSE IF TopVar(f) \in s THEN RankWalk(Hi(f), s \ {TopVar(f)}, rank)
  ELSE RankWalk(Lo(f), s, rank + bddexactcount_rec(Hi(f)))

bddexactrank(f, s) ==
  IF f = Empty THEN -1
  ELSE IF f = Single \/ s = {}
  THEN (IF s = {} /\ bddhasempty(f) THEN 0 ELSE -1)
  ELSE IF bddhasempty(f) THEN RankWalk(Toggle(f), s, 1)
  ELSE RankWalk(f, s, 0)

\* The member of a rank.
OutOfRange == {-1}

UnrankWalk(f, n) ==
  IF Terminal(f) THEN {}
  ELSE LET k == bddexactcount_rec(Hi(f))
       IN  IF n < k THEN {TopVar(f)} \cup UnrankWalk(Hi(f), n)
           ELSE UnrankWalk(Lo(f), n - k)

bddexactunrank(f, n) ==
  IF n < 0 \/ n >= bddexactcount_rec(f) THEN OutOfRange
  ELSE IF ~bddhasempty(f) THEN UnrankWalk(f, n)
  ELSE IF n = 0 THEN {}
  ELSE UnrankWalk(Toggle(f), n - 1)

-----------------------------------------------------------------------------
\* The first k members.

bddgetksets_rec(f, k) ==
  LET inHi == bddexactcount_rec(Hi(f))
  IN  IF k = 0 \/ f = Empty THEN Empty
      ELSE IF f = Single THEN Single
      ELSE IF k >= bddexactcount_rec(f) THEN f
      ELSE IF k <= inHi THEN Node(TopVar(f), Empty, bddgetksets_rec(Hi(f), k))
      ELSE Node(TopVar(f), bddgetksets_rec(Lo(f), k - inHi), Hi(f))

bddgetksets_iter(a, got) ==
  LET f == a[1]  k == a[2]  inHi == bddexactcount_rec(Hi(f))
  IN  IF k = 0 \/ f = Empty THEN Answer(Empty)
      ELSE IF f = Single THEN Answer(Single)
      ELSE IF k >= bddexactcount_rec(f) THEN Answer(f)
      ELSE IF k <= inHi THEN Relay(<<<<Hi(f), k>>>>, got, Node(TopVar(f), Empty, got[1]))
      ELSE Relay(<<<<Lo(f), k - inHi>>>>, got, Node(TopVar(f), got[1], Hi(f)))

bddgetksets(f, k) ==
  IF k < 0 THEN Thrown
  ELSE IF k = 0 \/ f = Empty THEN Empty
  ELSE IF f = Single THEN Single
  ELSE IF k >= bddexactcount_rec(f) THEN f
  ELSE IF ~bddhasempty(f) THEN bddgetksets_rec(f, k)
  ELSE IF k = 1 THEN Single
  ELSE Toggle(bddgetksets_rec(Toggle(f), k - 1))

-----------------------------------------------------------------------------
\* The members that include W, those within W, and the members without the
\* variables of W.

bddsupersets_of_rec(f, W) ==
  LET v == HighestIn(W)
  IN  IF f = Empty \/ W = {} THEN f
      ELSE IF f = Single \/ LevelOf(v) > Level(f) THEN Empty
      ELSE IF v = TopVar(f) THEN Node(v, Empty, bddsupersets_of_rec(Hi(f), W \ {v}))
      ELSE Node(TopVar(f), bddsupersets_of_rec(Lo(f), W), bddsupersets_of_rec(Hi(f), W))

bddsupersets_of_iter(a, got) ==
  LET f == a[1]  W == a[2]  v == HighestIn(W)
  IN  IF f = Empty \/ W = {} THEN Answer(f)
      ELSE IF f = Single THEN Answer(Empty)
      ELSE IF LevelOf(v) > Level(f) THEN Keep({a}, Empty)
      ELSE IF v = TopVar(f)
      THEN Open({a}, <<<<Hi(f), W \ {v}>>>>, got, Node(v, Empty, got[1]))
      ELSE Open({a}, <<<<Lo(f), W>>, <<Hi(f), W>>>>, got, Node(TopVar(f), got[1], got[2]))

bddsubsets_of_rec(f, W) ==
  LET v == HighestIn(W)
  IN  IF Terminal(f) THEN f
      ELSE IF W = {} THEN (IF bddhasempty(f) THEN Single ELSE Empty)
      ELSE IF LevelOf(v) > Level(f) THEN bddsubsets_of_rec(f, W \ {v})
      ELSE IF v = TopVar(f)
      THEN Node(v, bddsubsets_of_rec(Lo(f), W \ {v}), bddsubsets_of_rec(Hi(f), W \ {v}))
      ELSE bddsubsets_of_rec(Lo(f), W)

\* The loop rewrites its frame where there is nothing to combine, and then
\* leaves no entry.
bddsubsets_of_iter(a, got) ==
  LET f == a[1]  W == a[2]  v == HighestIn(W)
  IN  IF Terminal(f) THEN Answer(f)
      ELSE IF W = {} THEN Answer(IF bddhasempty(f) THEN Single ELSE Empty)
      ELSE IF LevelOf(v) > Level(f) THEN Relay(<<<<f, W \ {v}>>>>, got, got[1])
      ELSE IF LevelOf(v) < Level(f) THEN Relay(<<<<Lo(f), W>>>>, got, got[1])
      ELSE Open({a}, <<<<Lo(f), W \ {v}>>, <<Hi(f), W \ {v}>>>>, got,
                Node(v, got[1], got[2]))

bddproject_rec(f, W) ==
  LET lo == bddproject_rec(Lo(f), W)  hi == bddproject_rec(Hi(f), W)
  IN  IF Terminal(f) THEN f
      ELSE IF TopVar(f) \in W THEN lo \cup hi
      ELSE Node(TopVar(f), lo, hi)

bddproject_iter(a, got) ==
  LET f == a[1]  W == a[2]
  IN  IF Terminal(f) THEN Answer(f)
      ELSE Open({a}, <<<<Lo(f), W>>, <<Hi(f), W>>>>, got,
                IF TopVar(f) \in W THEN got[1] \cup got[2] ELSE Node(TopVar(f), got[1], got[2]))

\* Only a call that would look at the variables checks them.
bddsupersets_of(f, W) ==
  IF f = Empty \/ W \subseteq Vars THEN bddsupersets_of_rec(f, W) ELSE Thrown
bddsubsets_of(f, W) ==
  IF f = Empty \/ W \subseteq Vars THEN bddsubsets_of_rec(f, W) ELSE Thrown
bddproject(f, W) ==
  IF f = Empty \/ W \subseteq Vars THEN bddproject_rec(f, W) ELSE Thrown

-----------------------------------------------------------------------------
\* ZddRankIterator: a walk in rank order on a stack of the nodes whose lo side
\* may be still to come.  An increment that finds nothing ends the iteration.
RECURSIVE descend(_, _), climb(_), Yielded(_)

Exhausted(it) == [it EXCEPT !.exhausted = TRUE]

descend(it, f) ==
  IF f = Empty THEN [it EXCEPT !.found = FALSE]
  ELSE IF f = Single THEN [it EXCEPT !.found = TRUE, !.current = ToSet(it.set)]
  ELSE descend([it EXCEPT !.stack = Append(@, [lo |-> Lo(f), phase |-> 0]),
                          !.set = Append(@, TopVar(f))], Hi(f))

climb(it) ==
  IF it.stack = <<>> THEN Exhausted(it)
  ELSE LET top == Len(it.stack)
           turned == descend([it EXCEPT !.set = Front(@), !.stack[top].phase = 1],
                             it.stack[top].lo)
       IN  IF it.stack[top].phase = 1 THEN climb([it EXCEPT !.stack = Front(@)])
           ELSE IF turned.found THEN turned
           ELSE climb([turned EXCEPT !.stack = Front(@)])

RankIterator(f) ==
  LET new == [root |-> Plain(f), pending |-> bddhasempty(f), stack |-> <<>>, set |-> <<>>,
              current |-> {}, found |-> FALSE, exhausted |-> FALSE]
  IN  IF f = Empty THEN Exhausted(new)
      ELSE IF bddhasempty(f) THEN new
      ELSE descend(new, f)

RankAdvance(it) ==
  IF ~it.pending THEN climb(it)
  ELSE IF it.root = Empty THEN Exhausted(it)
  ELSE descend([it EXCEPT !.pending = FALSE], it.root)

\* What a loop over the range of it sees.
Yielded(it) == IF it.exhausted THEN <<>> ELSE <<it.current>> \o Yielded(RankAdvance(it))

=============================================================================
