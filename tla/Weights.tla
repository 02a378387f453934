------------------------------ MODULE Weights -------------------------------
(***************************************************************************)
(* Weights of the variables: sums, least and greatest members, the members *)
(* within a bound, the lightest and heaviest, and the iterators by weight  *)
(* (zdd_adv_weight.cpp, zdd_adv_weight_iter.cpp, zdd_weight_iter.cpp).     *)
(* w is the vector of the weights of the variables.                        *)
(***************************************************************************)
EXTENDS Ranking, Bounds

RECURSIVE bddweightsum_rec(_, _), bddminweight_rec(_, _), bddmaxweight_rec(_, _),
          bddminweightset_trace(_, _), bddmaxweightset_trace(_, _),
          bddcostbound_rec(_, _, _)

-----------------------------------------------------------------------------
\* The weights of all members together, and of the lightest and heaviest.

bddweightsum_rec(f, w) ==
  IF Terminal(f) THEN 0
  ELSE bddweightsum_rec(Lo(f), w) + bddweightsum_rec(Hi(f), w)
         + w[TopVar(f)] * bddexactcount_rec(Hi(f))

bddweightsum_iter(a, got) ==
  LET f == a[1]  w == a[2]
  IN  IF Terminal(f) THEN Answer(0)
      ELSE Open({Append(g, w) : g \in BothSigns(f)}, <<<<Lo(f), w>>, <<Hi(f), w>>>>, got,
                got[1] + got[2] + w[TopVar(f)] * bddexactcount_rec(Hi(f)))

bddminweight_rec(f, w) ==
  IF f = Empty THEN WeightMax ELSE IF f = Single THEN 0
  ELSE Least(bddminweight_rec(Lo(f), w),
             costbound_safe_add(w[TopVar(f)], bddminweight_rec(Hi(f), w)))

bddminweight_iter(a, got) ==
  LET f == a[1]  w == a[2]
  IN  IF f = Empty THEN Answer(WeightMax) ELSE IF f = Single THEN Answer(0)
      ELSE Open({a}, <<<<Lo(f), w>>, <<Hi(f), w>>>>, got,
                Least(got[1], costbound_safe_add(w[TopVar(f)], got[2])))

bddmaxweight_rec(f, w) ==
  IF f = Empty THEN WeightMin ELSE IF f = Single THEN 0
  ELSE Most(bddmaxweight_rec(Lo(f), w),
            costbound_safe_add(w[TopVar(f)], bddmaxweight_rec(Hi(f), w)))

bddmaxweight_iter(a, got) ==
  LET f == a[1]  w == a[2]
  IN  IF f = Empty THEN Answer(WeightMin) ELSE IF f = Single THEN Answer(0)
      ELSE Open({a}, <<<<Lo(f), w>>, <<Hi(f), w>>>>, got,
                Most(got[1], costbound_safe_add(w[TopVar(f)], got[2])))

\* The member found from the top, without the variable where both sides do.
bddminweightset_trace(f, w) ==
  IF Terminal(f) THEN {}
  ELSE IF bddminweight_rec(Lo(f), w)
            <= costbound_safe_add(w[TopVar(f)], bddminweight_rec(Hi(f), w))
  THEN bddminweightset_trace(Lo(f), w)
  ELSE {TopVar(f)} \cup bddminweightset_trace(Hi(f), w)

bddmaxweightset_trace(f, w) ==
  IF Terminal(f) THEN {}
  ELSE IF bddmaxweight_rec(Lo(f), w)
            >= costbound_safe_add(w[TopVar(f)], bddmaxweight_rec(Hi(f), w))
  THEN bddmaxweightset_trace(Lo(f), w)
  ELSE {TopVar(f)} \cup bddmaxweightset_trace(Hi(f), w)

\* The public functions refuse a family that has no member at all.
bddweight_validate(f, answer) == IF f = Empty THEN Thrown ELSE answer

bddminweight(f, w) == bddweight_validate(f, bddminweight_rec(f, w))
bddmaxweight(f, w) == bddweight_validate(f, bddmaxweight_rec(f, w))
bddminweightset(f, w) == bddweight_validate(f, bddminweightset_trace(f, w))
bddmaxweightset(f, w) == bddweight_validate(f, bddmaxweightset_trace(f, w))

-----------------------------------------------------------------------------
\* The members no heavier than b, and the interval [aw, rb) of bounds with
\* the same ones: CostBoundMemo answers for all of it.
AllBounds(h) == Bounded(h, WeightMin, WeightMax)
EmptySet(b) == IF b >= 0 THEN Bounded(Single, 0, WeightMax) ELSE Bounded(Empty, WeightMin, 0)

Joined(v, x, r0, r1) ==
  Bounded(Node(v, r0.h, r1.h), Most(r0.aw, costbound_safe_add(r1.aw, x)),
          Least(r0.rb, costbound_safe_add(r1.rb, x)))

bddcostbound_rec(f, w, b) ==
  LET x == w[TopVar(f)]
  IN  IF f = Empty THEN AllBounds(Empty)
      ELSE IF f = Single THEN EmptySet(b)
      ELSE Joined(TopVar(f), x, bddcostbound_rec(Lo(f), w, b),
                  bddcostbound_rec(Hi(f), w, costbound_safe_sub(b, x)))

\* Mutant: rb itself is answered too.
ClosedInterval(f, w, r) == {<<f, w, b>> : b \in {b \in Weights : r.aw <= b /\ b <= r.rb}}

\* Every call an interval kept for f answers.
interval(f, w, r) == {<<f, w, b>> : b \in {b \in Weights : r.aw <= b /\ b < r.rb}}

bddcostbound_iter(a, got) ==
  LET f == a[1]  w == a[2]  b == a[3]  x == w[TopVar(f)]
      joined == Joined(TopVar(f), x, got[1], got[2])
  IN  IF f = Empty THEN Answer(AllBounds(Empty))
      ELSE IF f = Single THEN Answer(EmptySet(b))
      ELSE IF Len(got) = 0 THEN Ask({a}, <<Lo(f), w, b>>)
      ELSE IF Len(got) = 1 THEN Ask({a}, <<Hi(f), w, costbound_safe_sub(b, x)>>)
      ELSE Keep(interval(f, w, joined), joined)

bddcostbound_le(f, w, b) ==
  IF f = Empty THEN Empty
  ELSE IF f = Single THEN (IF b >= 0 THEN Single ELSE Empty)
  ELSE bddcostbound_rec(f, w, b).h

costbound_negate_weights(w) == [v \in DOMAIN w |-> -w[v]]
bddcostbound_ge(f, w, b) ==
  IF b = WeightMin THEN Thrown ELSE bddcostbound_le(f, costbound_negate_weights(w), -b)

cost_bound_eq(f, w, b) ==
  IF b = WeightMin THEN bddcostbound_le(f, w, b)
  ELSE bddcostbound_le(f, w, b) \ bddcostbound_le(f, w, b - 1)
\* Mutant: the lower bound is left out.
RangeAbove(f, w, lo, hi) == bddcostbound_le(f, w, hi) \ bddcostbound_le(f, w, lo)

cost_bound_range(f, w, lo, hi) ==
  IF lo = WeightMin THEN bddcostbound_le(f, w, hi)
  ELSE bddcostbound_le(f, w, hi) \ bddcostbound_le(f, w, lo - 1)

size_le(f, k) == bddcostbound_le(f, [v \in Vars |-> 1], k)
size_ge(f, k) == bddcostbound_ge(f, [v \in Vars |-> 1], k)

-----------------------------------------------------------------------------
\* The k lightest, by bisection on the bound.  Of members of one weight that
\* do not all fit, strict < 0 leaves all out, strict > 0 takes all, and
\* strict = 0 takes the first ones by rank.
RECURSIVE Bisect(_, _, _, _, _, _)

Bisect(f, k, w, lo, hi, found) ==
  LET mid == lo + (hi - lo) \div 2
      within == bddcostbound_le(f, w, mid)
      n == bddexactcount_rec(within)
  IN  IF hi - lo <= 1 THEN found
      ELSE IF n = k THEN [left |-> within, right |-> within, exact |-> TRUE]
      ELSE IF n < k THEN Bisect(f, k, w, mid, hi, [found EXCEPT !.left = within])
      ELSE Bisect(f, k, w, lo, mid, [found EXCEPT !.right = within])

bddgetklightest(f, k, w, strict) ==
  LET least == bddminweight_rec(f, w)
      found == Bisect(f, k, w, IF least > WeightMin THEN least - 1 ELSE least,
                      bddmaxweight_rec(f, w), [left |-> Empty, right |-> f, exact |-> FALSE])
  IN  IF k < 0 THEN Thrown
      ELSE IF k = 0 \/ f = Empty THEN Empty
      ELSE IF f = Single \/ k >= bddexactcount_rec(f) THEN f
      ELSE IF found.exact \/ strict < 0 THEN found.left
      ELSE IF strict > 0 THEN found.right
      ELSE found.left \cup bddgetksets(found.right \ found.left,
                                       k - bddexactcount_rec(found.left))

bddgetkheaviest(f, k, w, strict) ==
  LET total == bddexactcount_rec(f)
  IN  IF k < 0 THEN Thrown
      ELSE IF k = 0 \/ f = Empty THEN Empty
      ELSE IF f = Single \/ k >= total THEN f
      ELSE f \ bddgetklightest(f, total - k, w, -strict)

-----------------------------------------------------------------------------
\* ZddMinWeightIterator: the k lightest paths one after the other.  A path is
\* the sequence of its nodes with the side taken; a candidate leaves a found
\* path at one node and goes on with the lightest suffix.  Of candidates of
\* one weight any may be at the head of the queue.
RECURSIVE trace_shortest_path(_, _), ByWeight(_)

compute_min_dist(f, w) == bddminweight_rec(f, w)

trace_shortest_path(f, w) ==
  IF Terminal(f) THEN <<>>
  ELSE IF compute_min_dist(Lo(f), w)
            <= costbound_safe_add(w[TopVar(f)], compute_min_dist(Hi(f), w))
  THEN <<<<f, 0>>>> \o trace_shortest_path(Lo(f), w)
  ELSE <<<<f, 1>>>> \o trace_shortest_path(Hi(f), w)

zdd_child(f, side) == IF side = 0 THEN Lo(f) ELSE Hi(f)
PathSet(path) == {TopVar(path[i][1]) : i \in {i \in DOMAIN path : path[i][2] = 1}}
PathWeight(path, w) ==
  FoldLeft(LAMBDA sum, step : IF step[2] = 1 THEN costbound_safe_add(sum, w[TopVar(step[1])])
                              ELSE sum, 0, path)
path_to_value(path, w) == <<PathWeight(path, w), PathSet(path)>>

\* Mutant: a candidate weighs what it has where it leaves the path.
SpurAlone(spur, rest, w) == PathWeight(spur, w)

SpurWeight(spur, rest, w) == costbound_safe_add(PathWeight(spur, w), compute_min_dist(rest, w))

\* Where a found path already left the last one that way, nothing is new.
generate_candidates(it) ==
  LET last == Last(it.found)
      turned(i) == <<last[i][1], 1 - last[i][2]>>
      prefix(i) == SubSeq(last, 1, i - 1)
      known(i) == \E p \in ToSet(it.found) :
                    Len(p) >= i /\ SubSeq(p, 1, i - 1) = prefix(i) /\ p[i] = turned(i)
      beyond(i) == zdd_child(turned(i)[1], turned(i)[2])
      new(i) == Append(prefix(i), turned(i)) \o trace_shortest_path(beyond(i), it.w)
      weight(i) == SpurWeight(Append(prefix(i), turned(i)), beyond(i), it.w)
  IN  {[weight |-> weight(i), path |-> new(i)] :
         i \in {i \in DOMAIN last : ~known(i) /\ compute_min_dist(beyond(i), it.w) # WeightMax}}

MinWeightIterator(f, w) ==
  [w |-> w, candidates |-> {}, found |-> IF f = Empty THEN <<>> ELSE <<trace_shortest_path(f, w)>>]

\* The states after an increment, none when the iteration is over.
MinWeightAdvance(it) ==
  LET queue == {c \in it.candidates \cup generate_candidates(it) : c.path \notin ToSet(it.found)}
      heads == {c \in queue : \A d \in queue : c.weight <= d.weight}
  IN  {[it EXCEPT !.found = Append(@, c.path), !.candidates = queue \ {c}] : c \in heads}

ByWeight(it) ==
  LET more == IF it.found = <<>> THEN {} ELSE MinWeightAdvance(it)
  IN  IF more = {} THEN {[i \in DOMAIN it.found |-> path_to_value(it.found[i], it.w)]}
      ELSE UNION {ByWeight(next) : next \in more}

\* ZddMaxWeightIterator runs it on the weights negated.
weight_saturate_negate(x) == IF x = WeightMin THEN WeightMax ELSE -x
ByWeightDown(f, w) ==
  {[i \in DOMAIN order |-> <<weight_saturate_negate(order[i][1]), order[i][2]>>] :
     order \in ByWeight(MinWeightIterator(f, costbound_negate_weights(w)))}
=============================================================================
