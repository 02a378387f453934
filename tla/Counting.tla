------------------------------ MODULE Counting ------------------------------
(***************************************************************************)
(* Counting: how many sets a ZDD has, of which sizes and with which        *)
(* members (zdd_adv_count.cpp, zdd_adv_count_iter.cpp), how many           *)
(* assignments satisfy a BDD (bdd_ops.cpp, bdd_ops_iter.cpp), and the      *)
(* operations composed of these.                                           *)
(*                                                                         *)
(* An edge without complement bit is a family without the empty set, so    *)
(* where the code looks for it behind the bit there is nothing to find.    *)
(***************************************************************************)
EXTENDS ZddOps, BddOps

CONSTANT CardMax      \* 2^39 - 1, the largest count a cache entry holds

ASSUME CardMaxAssumption == CardMax \in Nat \ {0}

AtMost(n) == IF n > CardMax THEN CardMax ELSE n

\* The edge of either sign that a result kept for the bare node will answer.
BothSigns(f) == {<<Plain(f)>>, <<Plain(f) \cup {{}}>>}

RECURSIVE bddhasempty(_), bddcontains(_, _), bddchoose_rec(_, _), bddprofile_rec(_),
          bddelmfreq_rec(_), bddcard(_), bddlit_rec(_), bddlen_rec(_), bddminsize_rec(_),
          bddcount_rec(_), bddexactcount_rec(_), bddcountintersec_rec(_, _),
          bddcount_bdd_rec(_, _), bddexactcount_bdd_rec(_, _)

-----------------------------------------------------------------------------
\* Membership.

bddhasempty(f) == IF Terminal(f) THEN f = Single ELSE bddhasempty(Lo(f))

bddcontains(f, s) ==
  IF Terminal(f) THEN f = Single /\ s = {}
  ELSE IF \E v \in s : LevelOf(v) > Level(f) THEN FALSE
  ELSE IF TopVar(f) \in s THEN bddcontains(Hi(f), s \ {TopVar(f)})
  ELSE bddcontains(Lo(f), s)

\* The members of k elements.  For k > 0 the sign of the edge is no matter.
bddchoose_rec(f, k) ==
  IF f = Empty \/ k < 0 THEN Empty
  ELSE IF f = Single THEN (IF k = 0 THEN Single ELSE Empty)
  ELSE IF k = 0 THEN (IF bddhasempty(f) THEN Single ELSE Empty)
  ELSE Node(TopVar(f), bddchoose_rec(Lo(f), k), bddchoose_rec(Hi(f), k - 1))

bddchoose_iter(a, got) ==
  LET f == a[1]  k == a[2]
  IN  IF f = Empty \/ k < 0 THEN Answer(Empty)
      ELSE IF f = Single THEN Answer(IF k = 0 THEN Single ELSE Empty)
      ELSE IF k = 0 THEN Answer(IF bddhasempty(f) THEN Single ELSE Empty)
      ELSE Open({Append(g, k) : g \in BothSigns(f)}, <<<<Lo(f), k>>, <<Hi(f), k - 1>>>>, got,
                Node(TopVar(f), got[1], got[2]))

-----------------------------------------------------------------------------
\* How many members there are of size 0, 1, and so on.
Grown(p, q) ==
  [i \in 1..Most(Len(p), Len(q) + 1) |->
     (IF i <= Len(p) THEN p[i] ELSE 0) + (IF i - 1 \in DOMAIN q THEN q[i - 1] ELSE 0)]
OneMoreEmpty(p) == IF p = <<>> THEN <<1>> ELSE [p EXCEPT ![1] = @ + 1]

bddprofile_rec(f) ==
  IF f = Empty THEN <<>> ELSE IF f = Single THEN <<1>>
  ELSE IF HasEmpty(f) THEN OneMoreEmpty(bddprofile_rec(Plain(f)))
  ELSE Grown(bddprofile_rec(Lo(f)), bddprofile_rec(Hi(f)))

bddprofile_iter(a, got) ==
  LET f == a[1]
  IN  IF f = Empty THEN Answer(<<>>) ELSE IF f = Single THEN Answer(<<1>>)
      ELSE IF HasEmpty(f) THEN Relay(<<<<Plain(f)>>>>, got, OneMoreEmpty(got[1]))
      ELSE Open({a}, <<<<Lo(f)>>, <<Hi(f)>>>>, got, Grown(got[1], got[2]))

\* How many members each variable is in, up to the last variable.
Frequencies(v, p, q, onv) ==
  LET at(r, i) == IF i \in DOMAIN r THEN r[i] ELSE 0
  IN  [i \in 1..Most(v, Most(Len(p), Len(q))) |->
         at(p, i) + at(q, i) + (IF i = v THEN onv ELSE 0)]

bddelmfreq_rec(f) ==
  IF Terminal(f) THEN <<>>
  ELSE Frequencies(TopVar(f), bddelmfreq_rec(Lo(f)), bddelmfreq_rec(Hi(f)),
                   bddexactcount_rec(Hi(f)))

bddelmfreq_iter(a, got) ==
  LET f == a[1]
  IN  IF Terminal(f) THEN Answer(<<>>)
      ELSE Open(BothSigns(f), <<<<Lo(f)>>, <<Hi(f)>>>>, got,
                Frequencies(TopVar(f), got[1], got[2], bddexactcount_rec(Hi(f))))

-----------------------------------------------------------------------------
\* Counts that stop at CardMax.

bddcard(f) ==
  IF f = Empty THEN 0 ELSE IF f = Single THEN 1
  ELSE IF HasEmpty(f) THEN AtMost(bddcard(Plain(f)) + 1)
  ELSE AtMost(bddcard(Lo(f)) + bddcard(Hi(f)))

\* Mutant: the last of the additions may pass the limit.
LitUnlimited(f) ==
  IF Terminal(f) THEN 0
  ELSE AtMost(bddlit_rec(Lo(f)) + bddlit_rec(Hi(f))) + bddcard(Hi(f))

bddlit_rec(f) ==
  IF Terminal(f) THEN 0
  ELSE AtMost(AtMost(bddlit_rec(Lo(f)) + bddlit_rec(Hi(f))) + bddcard(Hi(f)))

\* The loop carries the literals and the number of members of the bare node.
AdjustCard(f, card) == IF Terminal(f) \/ ~HasEmpty(f) THEN card ELSE AtMost(card + 1)

bddlit_iter(a, got) ==
  LET f == a[1]
      lo == Lo(Plain(f))  hi == Hi(f)
      card(i, g) == AdjustCard(g, got[i][2])
  IN  IF Terminal(f) THEN Answer(<<0, IF f = Single THEN 1 ELSE 0>>)
      ELSE Open(BothSigns(f), <<<<lo>>, <<hi>>>>, got,
                <<AtMost(AtMost(got[1][1] + got[2][1]) + card(2, hi)),
                  AtMost(card(1, lo) + card(2, hi))>>)

bddlen_rec(f) ==
  IF Terminal(f) THEN 0 ELSE Most(bddlen_rec(Lo(f)), AtMost(bddlen_rec(Hi(f)) + 1))
bddmaxsize(f) == bddlen_rec(f)

bddlen_iter(a, got) ==
  LET f == a[1]
  IN  IF Terminal(f) THEN Answer(0)
      ELSE Open(BothSigns(f), <<<<Lo(f)>>, <<Hi(f)>>>>, got, Most(got[1], AtMost(got[2] + 1)))

\* NoSize is UINT64_MAX, larger than every size.
NoSize == CardMax + 1
OneLarger(n) == IF n = NoSize THEN n ELSE AtMost(n + 1)

bddminsize_rec(f) ==
  IF f = Empty THEN NoSize ELSE IF f = Single THEN 0
  ELSE Least(bddminsize_rec(Lo(f)), OneLarger(bddminsize_rec(Hi(f))))

bddminsize_iter(a, got) ==
  LET f == a[1]
  IN  IF f = Empty THEN Answer(NoSize) ELSE IF f = Single THEN Answer(0)
      ELSE Open({a}, <<<<Lo(f)>>, <<Hi(f)>>>>, got, Least(got[1], OneLarger(got[2])))

bddminsize(f) ==
  IF Terminal(f) \/ bddhasempty(f) THEN 0
  ELSE LET n == bddminsize_rec(f) IN IF n = NoSize THEN 0 ELSE n

-----------------------------------------------------------------------------
\* Counts of doubles and of big integers, with a memo of bare nodes.

bddcount_rec(f) ==
  IF f = Empty THEN 0 ELSE IF f = Single THEN 1
  ELSE IF HasEmpty(f) THEN bddcount_rec(Plain(f)) + 1
  ELSE bddcount_rec(Lo(f)) + bddcount_rec(Hi(f))

bddcount_iter(a, got) ==
  LET f == a[1]
  IN  IF f = Empty THEN Answer(0) ELSE IF f = Single THEN Answer(1)
      ELSE IF HasEmpty(f) THEN Relay(<<<<Plain(f)>>>>, got, got[1] + 1)
      ELSE Open({a}, <<<<Lo(f)>>, <<Hi(f)>>>>, got, got[1] + got[2])

bddexactcount_rec(f) == bddcount_rec(f)
bddexactcount_iter(a, got) == bddcount_iter(a, got)

bddcountintersec_rec(f, g) ==
  IF Empty \in {f, g} THEN 0
  ELSE IF f = Single THEN (IF bddhasempty(g) THEN 1 ELSE 0)
  ELSE IF g = Single THEN (IF bddhasempty(f) THEN 1 ELSE 0)
  ELSE IF f = g THEN bddexactcount_rec(f)
  ELSE IF Level(f) > Level(g) THEN bddcountintersec_rec(Lo(f), g)
  ELSE IF Level(f) < Level(g) THEN bddcountintersec_rec(f, Lo(g))
  ELSE bddcountintersec_rec(Lo(f), Lo(g)) + bddcountintersec_rec(Hi(f), Hi(g))

bddcountintersec_iter(a, got) ==
  LET f == a[1]  g == a[2]  key == Either(f, g)
  IN  IF Empty \in {f, g} THEN Answer(0)
      ELSE IF f = Single THEN Answer(IF bddhasempty(g) THEN 1 ELSE 0)
      ELSE IF g = Single THEN Answer(IF bddhasempty(f) THEN 1 ELSE 0)
      ELSE IF f = g THEN Answer(bddexactcount_rec(f))
      ELSE IF Level(f) > Level(g) THEN Open(key, <<<<Lo(f), g>>>>, got, got[1])
      ELSE IF Level(f) < Level(g) THEN Open(key, <<<<f, Lo(g)>>>>, got, got[1])
      ELSE Open(key, <<<<Lo(f), Lo(g)>>, <<Hi(f), Hi(g)>>>>, got, got[1] + got[2])

\* Ratios are pairs; what they are without members is agreed.
similarity_counts(f, g) ==
  [f |-> bddexactcount_rec(f), g |-> bddexactcount_rec(g), fg |-> bddcountintersec_rec(f, g)]

bddjaccardindex(f, g) ==
  LET n == similarity_counts(f, g)
  IN  IF f = g THEN <<1, 1>> ELSE IF Empty \in {f, g} THEN <<0, 1>>
      ELSE <<n.fg, n.f + n.g - n.fg>>
bddoverlapcoeff(f, g) ==
  LET n == similarity_counts(f, g)
  IN  IF f = g THEN <<1, 1>> ELSE IF Empty \in {f, g} THEN <<0, 1>>
      ELSE <<n.fg, Least(n.f, n.g)>>
bddhammingdist(f, g) ==
  LET n == similarity_counts(f, g)
  IN  IF f = g THEN 0 ELSE IF f = Empty THEN n.g ELSE IF g = Empty THEN n.f
      ELSE n.f + n.g - n.fg - n.fg

-----------------------------------------------------------------------------
\* The family of the one set of every variable there is, and v2 made v1.

bddflatten(f) ==
  IF f = Empty THEN Empty
  ELSE FoldLeft(LAMBDA r, v : bddchange(r, v), Single,
                SetToSortSeq(Support(f), LAMBDA v, w : LevelOf(v) > LevelOf(w)))

bddcoalesce(f, v1, v2) ==
  LET b == bddonset0(f, v2)
      merged == bddonset(b, v1) \cup bddchange(bddoffset(b, v1), v1)
  IN  IF Terminal(f) \/ v1 = v2 THEN f
      ELSE IF {v1, v2} \subseteq Vars THEN bddoffset(f, v2) \cup merged
      ELSE Thrown

-----------------------------------------------------------------------------
\* Satisfying assignments of a BDD, over the levels from 1 to that of its top
\* variable.  A variable past n is no variable of the count: the call throws.
NoCount == -1
Shift(count, node, child) == count * 2^(LevelIn(node) - 1 - LevelIn(child))
SumOf(f, n0, n1) ==
  IF NoCount \in {n0, n1} THEN NoCount
  ELSE Shift(n0, f, Lo0(f)) + Shift(n1, f, Hi1(f))

bddcount_bdd_rec(f, n) ==
  IF Constant(f) THEN (IF f = False THEN 0 ELSE 1)
  ELSE IF Top(f) > n THEN NoCount
  ELSE SumOf(f, bddcount_bdd_rec(Lo0(f), n), bddcount_bdd_rec(Hi1(f), n))

bddcount_bdd_iter(a, got) ==
  LET f == a[1]  n == a[2]
  IN  IF Constant(f) THEN Answer(IF f = False THEN 0 ELSE 1)
      ELSE IF Top(f) > n \/ NoCount \in ToSet(got) THEN Answer(NoCount)
      ELSE Open({a}, <<<<Lo0(f), n>>, <<Hi1(f), n>>>>, got, SumOf(f, got[1], got[2]))

\* The exact count keeps the number of the bare node and subtracts it from
\* all of them for a complement edge.
Others(f, count) == IF count = NoCount THEN NoCount ELSE 2^LevelIn(f) - count

bddexactcount_bdd_rec(f, n) ==
  IF Constant(f) THEN (IF f = False THEN 0 ELSE 1)
  ELSE IF Comp(f) THEN Others(f, bddexactcount_bdd_rec(Strip(f), n))
  ELSE IF Top(f) > n THEN NoCount
  ELSE SumOf(f, bddexactcount_bdd_rec(Lo0(f), n), bddexactcount_bdd_rec(Hi1(f), n))

bddexactcount_bdd_iter(a, got) ==
  LET f == a[1]  n == a[2]
  IN  IF Constant(f) THEN Answer(IF f = False THEN 0 ELSE 1)
      ELSE IF Comp(f) THEN Relay(<<<<Strip(f), n>>>>, got, Others(f, got[1]))
      ELSE IF Top(f) > n \/ NoCount \in ToSet(got) THEN Answer(NoCount)
      ELSE Open({a}, <<<<Lo0(f), n>>, <<Hi1(f), n>>>>, got, SumOf(f, got[1], got[2]))

\* The levels above the top variable are free, those past n were counted.
Scaled(f, n, inner) ==
  CASE f = False -> 0
    [] f = True -> 2^n
    [] inner = NoCount -> NoCount
    [] OTHER -> IF n >= LevelIn(f) THEN inner * 2^(n - LevelIn(f))
                ELSE inner \div 2^(LevelIn(f) - n)

bddcount(f, n) == Scaled(f, n, bddcount_bdd_rec(f, n))
bddexactcount(f, n) == Scaled(f, n, bddexactcount_bdd_rec(f, n))
=============================================================================
