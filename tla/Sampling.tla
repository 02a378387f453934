------------------------------ MODULE Sampling ------------------------------
(***************************************************************************)
(* The methods of BDD and ZDD in bdd_class.cpp that are more than a call   *)
(* of a bdd... function: samples, single members, families made from       *)
(* vectors, statistics, with the loops of bdd_class_iter.cpp, and the      *)
(* random iterator of zdd_random_iter.h.                                   *)
(*                                                                         *)
(* A sampling walk is given by its law, the function from the sets it may  *)
(* return to their probabilities as pairs of numerator and denominator.    *)
(* The random numbers, doubles in the weighted walks, are exact here.      *)
(***************************************************************************)
EXTENDS Weights

RECURSIVE UniformLaw(_), AssignmentLaw(_, _, _), SumLaw(_, _, _), ProductLaw(_, _),
          ws_count_rec(_), ws_total_sum_rec(_, _), ws_total_prod_rec(_, _),
          one_set(_), SatWalk(_, _, _), enumerate_rec(_), combination_rec(_, _),
          zdd_orders(_)

-----------------------------------------------------------------------------
\* Laws.  A side of weight zero is never taken.
Refused == [s \in {OutOfRange} |-> <<1, 1>>]       \* the call throws
Certainly(s) == [t \in {s} |-> <<1, 1>>]

Mixed(v, w0, law0, w1, law1) ==
  LET off == IF w0 > 0 THEN DOMAIN law0 ELSE {}
      on == IF w1 > 0 THEN {s \cup {v} : s \in DOMAIN law1} ELSE {}
      times(n, p) == <<n * p[1], (w0 + w1) * p[2]>>
  IN  [s \in off \cup on |-> IF v \in s THEN times(w1, law1[s \ {v}]) ELSE times(w0, law0[s])]

\* ZDD::uniform_sample_impl: each side by the number of its members.
UniformLaw(f) ==
  IF f = Empty THEN Refused
  ELSE IF f = Single THEN Certainly({})
  ELSE Mixed(TopVar(f), bddexactcount_rec(Lo(f)), UniformLaw(Lo(f)),
             bddexactcount_rec(Hi(f)), UniformLaw(Hi(f)))
uniform_sample(f) == DOMAIN UniformLaw(f)

\* BDD::uniform_sample_impl, from level m down: a level without a node is a
\* coin toss, if its variable is one of 1..n.
AssignmentLaw(f, n, m) ==
  LET v == VarOf(m)
      below(g) == AssignmentLaw(g, n, m - 1)
  IN  IF f = False THEN Refused
      ELSE IF m = 0 THEN Certainly({})
      ELSE IF LevelIn(f) = m
      THEN Mixed(v, bddexactcount(Lo0(f), n), below(Lo0(f)),
                 bddexactcount(Hi1(f), n), below(Hi1(f)))
      ELSE IF v <= n THEN Mixed(v, 1, below(f), 1, below(f)) ELSE below(f)

HighestLevelTo(n) == IF n = 0 THEN 0 ELSE LevelOf(HighestIn(1..n))
sample_assignment(f, n) ==
  IF f = False \/ n > Cardinality(Vars) \/ bddexactcount(f, n) = NoCount THEN Refused
  ELSE AssignmentLaw(f, n, HighestLevelTo(n))

-----------------------------------------------------------------------------
\* Weighted samples, by the sum or the product of the weights of the members.

ws_count_rec(f) == bddcount_rec(f)
ws_count_iter(a, got) == bddcount_iter(a, got)
ws_total_sum_rec(f, w) == bddweightsum_rec(f, w)
ws_total_sum_iter(a, got) == bddweightsum_iter(a, got)

ws_total_prod_rec(f, w) ==
  IF f = Empty THEN 0 ELSE IF f = Single THEN 1
  ELSE IF HasEmpty(f) THEN ws_total_prod_rec(Plain(f), w) + 1
  ELSE ws_total_prod_rec(Lo(f), w) + w[TopVar(f)] * ws_total_prod_rec(Hi(f), w)

ws_total_prod_iter(a, got) ==
  LET f == a[1]  w == a[2]
  IN  IF f = Empty THEN Answer(0) ELSE IF f = Single THEN Answer(1)
      ELSE IF HasEmpty(f) THEN Relay(<<<<Plain(f), w>>>>, got, got[1] + 1)
      ELSE Open({a}, <<<<Lo(f), w>>, <<Hi(f), w>>>>, got, got[1] + w[TopVar(f)] * got[2])

\* Mutant: a side weighs what is still to come.
SumLawUnbiased(f, w, bias) ==
  LET v == TopVar(f)
  IN  IF f = Empty THEN Refused
      ELSE IF f = Single THEN Certainly({})
      ELSE Mixed(v, ws_total_sum_rec(Lo(f), w), SumLaw(Lo(f), w, bias),
                 ws_total_sum_rec(Hi(f), w) + w[v] * ws_count_rec(Hi(f)),
                 SumLaw(Hi(f), w, bias + w[v]))

\* bias is the weight of the variables taken so far.
SumLaw(f, w, bias) ==
  LET v == TopVar(f)
      side(g, taken) == ws_count_rec(g) * taken + ws_total_sum_rec(g, w)
  IN  IF f = Empty THEN Refused
      ELSE IF f = Single THEN Certainly({})
      ELSE Mixed(v, side(Lo(f), bias), SumLaw(Lo(f), w, bias),
                 side(Hi(f), bias + w[v]), SumLaw(Hi(f), w, bias + w[v]))

ProductLaw(f, w) ==
  LET v == TopVar(f)
  IN  IF f = Empty THEN Refused
      ELSE IF f = Single THEN Certainly({})
      ELSE Mixed(v, ws_total_prod_rec(Lo(f), w), ProductLaw(Lo(f), w),
                 w[v] * ws_total_prod_rec(Hi(f), w), ProductLaw(Hi(f), w))

\* The empty set has weight 0 in one mode and 1 in the other.
EmptyOr(law, total) ==
  [s \in DOMAIN law \cup {{}} |-> IF s = {} THEN <<1, total + 1>>
                                  ELSE <<total * law[s][1], (total + 1) * law[s][2]>>]

weighted_sample(f, w, mode) ==
  LET rest == Plain(f)
      total == IF mode = "Sum" THEN ws_total_sum_rec(rest, w) ELSE ws_total_prod_rec(rest, w)
  IN  IF f = Empty \/ \E v \in Support(f) : w[v] < 0 THEN Refused
      ELSE IF f = Single THEN Certainly({})
      ELSE IF mode = "Sum" THEN (IF total = 0 THEN Refused ELSE SumLaw(rest, w, 0))
      ELSE IF HasEmpty(f)
      THEN (IF total = 0 THEN Certainly({}) ELSE EmptyOr(ProductLaw(rest, w), total))
      ELSE (IF total = 0 THEN Refused ELSE ProductLaw(f, w))

-----------------------------------------------------------------------------
\* ZddRandomIterator: while less than half is sampled, samples of all of f
\* until one is new; from then on, of what remains of it.
RandomIterator(f) == [original |-> f, sampled |-> Empty, remaining |-> Empty,
                      direct |-> FALSE, sequence |-> <<>>]

Took(it, s) == [it EXCEPT !.sampled = @ \cup {s}, !.remaining = @ \ {s},
                          !.sequence = Append(@, s)]

\* The states after one more set, none when the iteration is over.
RandomAdvance(it) ==
  LET total == bddexactcount_rec(it.original)
      n == Len(it.sequence)
      switched == IF it.direct THEN it
                  ELSE [it EXCEPT !.direct = TRUE, !.remaining = it.original \ it.sampled]
  IN  IF n >= total THEN {}
      ELSE IF n = 0 \/ n + n < total
      THEN {Took(it, s) : s \in uniform_sample(it.original) \ it.sampled}
      ELSE {Took(switched, s) : s \in uniform_sample(switched.remaining)}

zdd_orders(it) ==
  LET more == RandomAdvance(it)
  IN  IF more = {} THEN {it.sequence} ELSE UNION {zdd_orders(next) : next \in more}

-----------------------------------------------------------------------------
\* One member, and one satisfying assignment, without a variable where it can
\* be left out.
NoMember == OutOfRange

one_set(f) ==
  IF f = Empty THEN NoMember
  ELSE IF f = Single THEN {}
  ELSE IF Lo(f) # Empty THEN one_set(Lo(f))
  ELSE {TopVar(f)} \cup one_set(Hi(f))

\* The literals from level m down; a level without a node gives its variable
\* a negative one, if it is one of the first n.
SatWalk(f, n, m) ==
  LET v == VarOf(m)
  IN  IF m = 0 THEN <<>>
      ELSE IF LevelIn(f) < m
      THEN (IF v <= n THEN <<-v>> ELSE <<>>) \o SatWalk(f, n, m - 1)
      ELSE IF Lo0(f) # False THEN <<-v>> \o SatWalk(Lo0(f), n, m - 1)
      ELSE <<v>> \o SatWalk(Hi1(f), n, m - 1)

sat_one(f) == IF f = False THEN <<0>> ELSE SatWalk(f, 0, LevelIn(f))
sat_one_full(f, n) ==
  IF f = False \/ n > Cardinality(Vars) \/ \E v \in Depends(f) : v > n THEN <<0>>
  ELSE SatWalk(f, n, HighestLevelTo(n))

-----------------------------------------------------------------------------
\* The members in the order of the walk, lo side first.

enumerate_rec(f) ==
  IF f = Empty THEN <<>> ELSE IF f = Single THEN <<{}>>
  ELSE enumerate_rec(Lo(f)) \o [i \in 1..Cardinality(Hi(f)) |->
                                  {TopVar(f)} \cup enumerate_rec(Hi(f))[i]]

enumerate_iter(a, got) ==
  LET f == a[1]
  IN  IF f = Empty THEN Answer(<<>>) ELSE IF f = Single THEN Answer(<<{}>>)
      ELSE Relay(<<<<Lo(f)>>, <<Hi(f)>>>>, got,
                 got[1] \o [i \in DOMAIN got[2] |-> {TopVar(f)} \cup got[2][i]])

-----------------------------------------------------------------------------
\* Families from vectors of variables, in which a variable may come twice.
Changed(f, variables) == FoldLeft(LAMBDA r, v : bddchange(r, v), f, variables)
unique(variables) == SetToSortSeq(ToSet(variables), <)

singleton(v) == bddchange(Single, v)
power_set(variables) ==
  FoldLeft(LAMBDA f, v : f \cup bddchange(f, v), Single, variables)
single_set(variables) == Changed(Single, unique(variables))
from_sets(sets) == FoldLeft(LAMBDA f, s : f \cup single_set(s), Empty, sets)

\* All sets of k of the variables W.
combination_rec(W, k) ==
  LET v == HighestIn(W)
  IN  IF k = 0 THEN Single
      ELSE IF Cardinality(W) < k THEN Empty
      ELSE IF Cardinality(W) = k THEN Changed(Single, unique(SetToSeq(W)))
      ELSE Node(v, combination_rec(W \ {v}, k), combination_rec(W \ {v}, k - 1))

combination_iter(a, got) ==
  LET W == a[1]  k == a[2]  v == HighestIn(W)
  IN  IF k = 0 THEN Answer(Single)
      ELSE IF Cardinality(W) < k THEN Answer(Empty)
      ELSE IF Cardinality(W) = k THEN Answer(Changed(Single, unique(SetToSeq(W))))
      ELSE Relay(<<<<W \ {v}, k>>, <<W \ {v}, k - 1>>>>, got, Node(v, got[1], got[2]))

\* A conjunction and a disjunction of literals.
Literal(l) == IF l > 0 THEN bddprime(l) ELSE bddnot(bddprime(-l))
cube(literals) == FoldLeft(LAMBDA f, l : f \cap Literal(l), True, literals)
clause(literals) == FoldLeft(LAMBDA f, l : f \cup Literal(l), False, literals)

-----------------------------------------------------------------------------
\* Statistics of the sizes; ratios are pairs.
Total(profile) == FoldLeft(LAMBDA sum, n : sum + n, 0, profile)
Moment(profile, e) ==
  FoldLeft(LAMBDA sum, i : sum + (i - 1)^e * profile[i], 0, [i \in DOMAIN profile |-> i])

average_size(f) ==
  LET p == bddprofile_rec(f) IN IF f = Empty THEN <<0, 1>> ELSE <<Moment(p, 1), Total(p)>>
variance_size(f) ==
  LET p == bddprofile_rec(f)  n == Total(p)
  IN  IF f = Empty THEN <<0, 1>> ELSE <<Moment(p, 2) * n - Moment(p, 1)^2, n^2>>

\* Twice the median, so as to be whole.
median_size(f) ==
  LET p == bddprofile_rec(f)
      upto(i) == Total(SubSeq(p, 1, i))
      reached == CHOOSE i \in DOMAIN p : /\ 2 * upto(i) >= Total(p)
                                         /\ \A j \in 1..(i - 1) : 2 * upto(j) < Total(p)
      later == {j \in DOMAIN p : j > reached /\ p[j] > 0}
      next == CHOOSE j \in later : \A k \in later : j <= k
  IN  IF f = Empty THEN 0
      ELSE IF 2 * upto(reached) > Total(p) \/ later = {} THEN 2 * (reached - 1)
      ELSE (reached - 1) + (next - 1)
=============================================================================
