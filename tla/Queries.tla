------------------------------- MODULE Queries ------------------------------
(***************************************************************************)
(* The questions Operations asks of families, functions and diagrams with  *)
(* values: the operations of Counting, Ranking, Weights, Sampling, Multi   *)
(* and SkipLevels, those that have a loop in iterative mode; what each     *)
(* promises; and that both forms keep the promise and the cache or memo    *)
(* holds only what is true.                                                *)
(***************************************************************************)
EXTENDS Sampling, Multi, SkipLevels, LoopState

CONSTANTS Families, Few,        \* families passed first, and a choice of them
          WeightVectors,        \* weights of the variables, of either sign
          Maps, FewMaps,        \* functions with values, and a choice of them
          Bounds,               \* bounds on weights
          Lists,                \* vectors of variables
          Chains,               \* chains of levels for zlev
          Values                \* values at terminals

OfFamily == {"bddprofile", "bddelmfreq", "bddlit", "bddlen", "bddminsize", "bddcount_zdd",
             "enumerate"}
Numbered == {"bddchoose", "bddgetksets", "bddcount_bdd", "bddexactcount_bdd"}
MaybeNegative == {"bddchoose", "bddexactunrank", "bddgetksets_public", "size_le", "size_ge"}
WithVariables == {"bddsupersets_of", "bddsubsets_of", "bddproject"}
OfWeights == {"bddweightsum", "bddminweight", "bddmaxweight", "ws_total_prod"}
OfMaps == {"mtbdd_apply", "mtzdd_apply", "mtbdd_ite", "mtzdd_ite"}
FromTerminals == {"mtbdd_from_bdd", "mtzdd_from_zdd"}
OfMap == {"mtzdd_enumerate", "mtzdd_count"}
MapAndVariable == {"mtzdd_cofactor0", "mtzdd_cofactor1"}
InFrames == OfFamily \cup Numbered \cup WithVariables \cup OfWeights \cup OfMaps
              \cup FromTerminals \cup OfMap \cup MapAndVariable
              \cup {"bddcountintersec", "bddcostbound", "combination", "mtzdd_to_zdd",
                    "mtzdd_count_for_terminal"}

WholeFamily == {"bddcard", "bddminsize_public", "bddflatten", "ZddRankIterator",
                "uniform_sample", "one_set", "sat_one", "average_size", "variance_size",
                "median_size"}
Pairwise == {"bddjaccardindex", "bddoverlapcoeff", "bddhammingdist"}
AndMember == {"bddcontains", "bddexactrank"}
AndNumber == {"bddcount", "bddexactcount", "bddexactunrank", "bddgetksets_public",
              "sample_assignment", "sat_one_full", "size_le", "size_ge"}
Lightest == {"bddminweightset", "bddmaxweightset", "bddminweight_public",
             "bddmaxweight_public"}
Bounding == {"bddcostbound_le", "bddcostbound_ge", "cost_bound_eq", "cost_bound_range"}
Selecting == {"bddgetklightest", "bddgetkheaviest"}
Iterators == {"ZddMinWeightIterator", "ZddMaxWeightIterator"}
OfSequence == {"power_set", "cube", "clause"}
Evaluation == {"EvaluateBdd", "EvaluateZdd"}
Skipping == {"set_zskip", "set_zskip_iter"}
Wholes == WholeFamily \cup Pairwise \cup AndMember \cup AndNumber \cup Lightest \cup Bounding
            \cup Selecting \cup Iterators \cup OfSequence \cup Evaluation \cup Skipping
            \cup {"bddcoalesce", "weighted_sample", "ZddRandomIterator", "from_sets", "zlev"}

FrameOf(op, a, got) ==
  CASE op = "bddchoose" -> bddchoose_iter(a, got)
    [] op = "bddprofile" -> bddprofile_iter(a, got)
    [] op = "bddelmfreq" -> bddelmfreq_iter(a, got)
    [] op = "bddlit" -> bddlit_iter(a, got)
    [] op = "bddlen" -> bddlen_iter(a, got)
    [] op = "bddminsize" -> bddminsize_iter(a, got)
    [] op = "bddcount_zdd" -> bddexactcount_iter(a, got)
    [] op = "bddcountintersec" -> bddcountintersec_iter(a, got)
    [] op = "bddcount_bdd" -> bddcount_bdd_iter(a, got)
    [] op = "bddexactcount_bdd" -> bddexactcount_bdd_iter(a, got)
    [] op = "bddgetksets" -> bddgetksets_iter(a, got)
    [] op = "bddsupersets_of" -> bddsupersets_of_iter(a, got)
    [] op = "bddsubsets_of" -> bddsubsets_of_iter(a, got)
    [] op = "bddproject" -> bddproject_iter(a, got)
    [] op = "bddweightsum" -> bddweightsum_iter(a, got)
    [] op = "bddminweight" -> bddminweight_iter(a, got)
    [] op = "bddmaxweight" -> bddmaxweight_iter(a, got)
    [] op = "bddcostbound" -> bddcostbound_iter(a, got)
    [] op = "ws_total_prod" -> ws_total_prod_iter(a, got)
    [] op = "enumerate" -> enumerate_iter(a, got)
    [] op = "combination" -> combination_iter(a, got)
    [] op = "mtbdd_apply" -> mtbdd_apply_iter(a, got)
    [] op = "mtzdd_apply" -> mtzdd_apply_iter(a, got)
    [] op = "mtbdd_ite" -> mtbdd_ite_iter(a, got)
    [] op = "mtzdd_ite" -> mtzdd_ite_iter(a, got)
    [] op = "mtbdd_from_bdd" -> mtbdd_from_bdd_iter(a, got)
    [] op = "mtzdd_from_zdd" -> mtzdd_from_zdd_iter(a, got)
    [] op = "mtzdd_cofactor0" -> mtzdd_cofactor0_iter(a, got)
    [] op = "mtzdd_cofactor1" -> mtzdd_cofactor1_iter(a, got)
    [] op = "mtzdd_to_zdd" -> mtzdd_to_zdd_iter(a, got)
    [] op = "mtzdd_enumerate" -> mtzdd_enumerate_iter(a, got)
    [] op = "mtzdd_count" -> mtzdd_exact_count_iter(a, got)
    [] op = "mtzdd_count_for_terminal" -> mtzdd_exact_count_for_terminal_iter(a, got)

Recursive(op, a) ==
  CASE op = "bddchoose" -> bddchoose_rec(a[1], a[2])
    [] op = "bddprofile" -> bddprofile_rec(a[1])
    [] op = "bddelmfreq" -> bddelmfreq_rec(a[1])
    [] op = "bddlit" -> <<bddlit_rec(a[1]), bddcard(IF Terminal(a[1]) THEN a[1] ELSE Plain(a[1]))>>
    [] op = "bddlen" -> bddmaxsize(a[1])
    [] op = "bddminsize" -> bddminsize_rec(a[1])
    [] op = "bddcount_zdd" -> bddexactcount_rec(a[1])
    [] op = "bddcountintersec" -> bddcountintersec_rec(a[1], a[2])
    [] op = "bddcount_bdd" -> bddcount_bdd_rec(a[1], a[2])
    [] op = "bddexactcount_bdd" -> bddexactcount_bdd_rec(a[1], a[2])
    [] op = "bddgetksets" -> bddgetksets_rec(a[1], a[2])
    [] op = "bddsupersets_of" -> bddsupersets_of(a[1], a[2])
    [] op = "bddsubsets_of" -> bddsubsets_of(a[1], a[2])
    [] op = "bddproject" -> bddproject(a[1], a[2])
    [] op = "bddweightsum" -> ws_total_sum_rec(a[1], a[2])
    [] op = "bddminweight" -> compute_min_dist(a[1], a[2])
    [] op = "bddmaxweight" -> bddmaxweight_rec(a[1], a[2])
    [] op = "bddcostbound" -> bddcostbound_rec(a[1], a[2], a[3])
    [] op = "ws_total_prod" -> ws_total_prod_rec(a[1], a[2])
    [] op = "enumerate" -> enumerate_rec(a[1])
    [] op = "combination" -> combination_rec(a[1], a[2])
    [] op = "mtbdd_apply" -> mtbdd_apply_rec(a[1], a[2], a[3])
    [] op = "mtzdd_apply" -> mtzdd_apply_rec(a[1], a[2], a[3])
    [] op = "mtbdd_ite" -> mtbdd_ite_rec(a[1], a[2], a[3])
    [] op = "mtzdd_ite" -> mtzdd_ite_rec(a[1], a[2], a[3])
    [] op = "mtbdd_from_bdd" -> mtbdd_from_bdd_rec(a[1], a[2], a[3])
    [] op = "mtzdd_from_zdd" -> mtzdd_from_zdd_rec(a[1], a[2], a[3])
    [] op = "mtzdd_cofactor0" -> mtzdd_cofactor0_rec(a[1], a[2])
    [] op = "mtzdd_cofactor1" -> mtzdd_cofactor1_rec(a[1], a[2])
    [] op = "mtzdd_to_zdd" -> mtzdd_to_zdd_rec(a[1], a[2])
    [] op = "mtzdd_enumerate" -> mtzdd_enumerate_rec(a[1])
    [] op = "mtzdd_count" -> mtzdd_exact_count_rec(a[1])
    [] op = "mtzdd_count_for_terminal" -> mtzdd_exact_count_for_terminal_rec(a[1], a[2])

\* The operations without a loop of their own.
Composed(op, a) ==
  CASE op = "bddcontains" -> bddcontains(a[1], a[2])
    [] op = "bddcard" -> bddcard(a[1])
    [] op = "bddminsize_public" -> bddminsize(a[1])
    [] op = "bddjaccardindex" -> bddjaccardindex(a[1], a[2])
    [] op = "bddoverlapcoeff" -> bddoverlapcoeff(a[1], a[2])
    [] op = "bddhammingdist" -> bddhammingdist(a[1], a[2])
    [] op = "bddflatten" -> bddflatten(a[1])
    [] op = "bddcoalesce" -> bddcoalesce(a[1], a[2], a[3])
    [] op = "bddcount" -> bddcount(a[1], a[2])
    [] op = "bddexactcount" -> bddexactcount(a[1], a[2])
    [] op = "bddexactrank" -> bddexactrank(a[1], a[2])
    [] op = "bddexactunrank" -> bddexactunrank(a[1], a[2])
    [] op = "bddgetksets_public" -> bddgetksets(a[1], a[2])
    [] op = "ZddRankIterator" -> Yielded(RankIterator(a[1]))
    [] op = "bddminweight_public" -> bddminweight(a[1], a[2])
    [] op = "bddmaxweight_public" -> bddmaxweight(a[1], a[2])
    [] op = "bddminweightset" -> bddminweightset(a[1], a[2])
    [] op = "bddmaxweightset" -> bddmaxweightset(a[1], a[2])
    [] op = "bddcostbound_le" -> bddcostbound_le(a[1], a[2], a[3])
    [] op = "bddcostbound_ge" -> bddcostbound_ge(a[1], a[2], a[3])
    [] op = "cost_bound_eq" -> cost_bound_eq(a[1], a[2], a[3])
    [] op = "cost_bound_range" -> cost_bound_range(a[1], a[2], a[3], a[3] + 2)
    [] op = "size_le" -> size_le(a[1], a[2])
    [] op = "size_ge" -> size_ge(a[1], a[2])
    [] op = "bddgetklightest" -> bddgetklightest(a[1], a[2], a[3], a[4])
    [] op = "bddgetkheaviest" -> bddgetkheaviest(a[1], a[2], a[3], a[4])
    [] op = "ZddMinWeightIterator" -> ByWeight(MinWeightIterator(a[1], a[2]))
    [] op = "ZddMaxWeightIterator" -> ByWeightDown(a[1], a[2])
    [] op = "uniform_sample" -> UniformLaw(a[1])
    [] op = "sample_assignment" -> sample_assignment(a[1], a[2])
    [] op = "weighted_sample" -> weighted_sample(a[1], a[2], a[3])
    [] op = "ZddRandomIterator" -> zdd_orders(RandomIterator(a[1]))
    [] op = "one_set" -> one_set(a[1])
    [] op = "sat_one" -> sat_one(a[1])
    [] op = "sat_one_full" -> sat_one_full(a[1], a[2])
    [] op = "power_set" -> power_set(a[1])
    [] op = "from_sets" -> from_sets(a[1])
    [] op = "cube" -> cube(a[1])
    [] op = "clause" -> clause(a[1])
    [] op = "average_size" -> average_size(a[1])
    [] op = "variance_size" -> variance_size(a[1])
    [] op = "median_size" -> median_size(a[1])
    [] op = "EvaluateBdd" -> EvaluateBdd(a[1], a[2], a[3])
    [] op = "EvaluateZdd" -> EvaluateZdd(a[1], Cardinality(Vars), a[2], a[3])
    [] op = "zlev" -> zlev(a[1], a[2], LastOf(a[1]), a[3], a[4])
    [] op = "set_zskip" -> set_zskip_rec(a[1], a[2], LastOf(a[1]))
    [] op = "set_zskip_iter" -> set_zskip_iter(a[1], a[2], LastOf(a[1]))

-----------------------------------------------------------------------------
(***************************************************************************)
(* What the operations promise, said of sets of variables.                 *)
(***************************************************************************)
SizeOf(f) == [s \in f |-> Cardinality(s)]
SumOver(h) == FoldFunction(+, 0, h)
WeightOf(s, w) == SumOver([v \in s |-> w[v]])
WeightsIn(f, w) == {WeightOf(s, w) : s \in f}
LeastIn(N, none) == IF N = {} THEN none ELSE CHOOSE n \in N : \A m \in N : n <= m
MostIn(N, none) == IF N = {} THEN none ELSE CHOOSE n \in N : \A m \in N : m <= n
Product(s, w) == FoldFunction(LAMBDA x, y : x * y, 1, [v \in s |-> w[v]])

\* The order of the walk with the variable first, in which the empty set is
\* last, and the order of ranks, in which it is first.
Before(s, t) == s # t /\ HighestIn(SymDiff(s, t)) \in s
Sooner(s, t) == t # {} /\ (s = {} \/ Before(s, t))
Rank(f, s) == Cardinality({t \in f : Sooner(t, s)})

Assignments(f, n) == {s \in f : s \subseteq 1..n}
BelowTop(f) == Cardinality({s \in f : \A v \in s : LevelOf(v) <= LevelIn(f)})
OnlyUses(f, n) == \A v \in Depends(f) : v <= n

\* The sets chosen along a path of the ZDD f: each of their variables is one
\* that a member agreeing with them above it has.
Above(s, v) == {u \in s : LevelOf(u) > LevelOf(v)}
Paths(f) == {s \in Sets : \A v \in s : \E t \in f : v \in t /\ Above(s, v) = Above(t, v)}
\* The value at a set whose path in the ZDD f ends in a terminal.
FromZdd(f, zero, one) ==
  [s \in Sets |-> IF s \in f THEN one ELSE IF s \in Paths(f) THEN zero ELSE Zero]
NonZero(m) == {s \in Sets : m[s] # Zero}

PromiseOfFamily(op, f) ==
  LET sizes == {Cardinality(s) : s \in f}
  IN  CASE op = "bddprofile" ->
             [i \in 1..(1 + MostIn(sizes, -1)) |-> Cardinality({s \in f : Cardinality(s) = i - 1})]
        [] op = "bddelmfreq" ->
             [v \in 1..MostIn(Support(f), 0) |-> Cardinality({s \in f : v \in s})]
        [] op = "bddlit" -> <<AtMost(SumOver(SizeOf(f))),
                              AtMost(Cardinality(IF Terminal(f) THEN f ELSE Plain(f)))>>
        [] op = "bddlen" -> MostIn(sizes, 0)
        [] op = "bddminsize" -> LeastIn(sizes, NoSize)
        [] op = "bddminsize_public" -> LeastIn(sizes, 0)
        [] op = "bddcount_zdd" -> Cardinality(f)
        [] op = "bddcard" -> AtMost(Cardinality(f))
        [] op = "bddflatten" -> IF f = Empty THEN f ELSE {Support(f)}

PromiseOfSelection(op, f, g) ==
  CASE op = "bddchoose" -> {s \in f : Cardinality(s) = g}
    [] op = "bddgetksets" -> {s \in f : Cardinality({t \in f : Before(t, s)}) < g}
    [] op = "bddgetksets_public" -> IF g < 0 THEN Thrown ELSE {s \in f : Rank(f, s) < g}
    [] op = "bddexactrank" -> IF g \in f THEN Rank(f, g) ELSE -1
    [] op = "bddexactunrank" -> IF g \in 0..(Cardinality(f) - 1)
                                THEN CHOOSE s \in f : Rank(f, s) = g ELSE OutOfRange
    [] op = "bddcontains" -> g \in f
    [] op = "bddsupersets_of" -> {s \in f : g \subseteq s}
    [] op = "bddsubsets_of" -> {s \in f : s \subseteq g}
    [] op = "bddproject" -> {s \ g : s \in f}
    [] op = "bddcountintersec" -> Cardinality(f \cap g)
    [] op = "bddhammingdist" -> Cardinality(SymDiff(f, g))
    [] op = "bddcount_bdd" -> IF OnlyUses(f, g) THEN BelowTop(f) ELSE NoCount
    [] op = "bddexactcount_bdd" -> IF OnlyUses(f, g) THEN BelowTop(f) ELSE NoCount
    [] op \in {"bddcount", "bddexactcount"} ->
         IF ~OnlyUses(f, g) THEN NoCount
         ELSE Cardinality(Assignments(f, g)) * 2^(Most(g, Cardinality(Vars)) - Cardinality(Vars))
    [] op = "size_le" -> {s \in f : Cardinality(s) <= g}
    [] op = "size_ge" -> {s \in f : Cardinality(s) >= g}
    [] op = "combination" -> {s \in SUBSET f : Cardinality(s) = g}
    [] op = "mtzdd_to_zdd" -> {s \in Paths(NonZero(f)) : f[s] \in g}
    [] op = "mtzdd_count_for_terminal" -> Cardinality({s \in Paths(NonZero(f)) : f[s] = g})
    [] op = "mtzdd_cofactor0" -> [s \in Sets |-> IF g \in s THEN Zero ELSE f[s]]
    [] op = "mtzdd_cofactor1" -> [s \in Sets |-> IF g \in s THEN Zero ELSE f[s \cup {g}]]

PromiseOfWeights(op, f, w) ==
  CASE op = "bddweightsum" -> SumOver([s \in f |-> WeightOf(s, w)])
    [] op = "bddminweight" -> LeastIn(WeightsIn(f, w), WeightMax)
    [] op = "bddmaxweight" -> MostIn(WeightsIn(f, w), WeightMin)
    [] op = "ws_total_prod" -> SumOver([s \in f |-> Product(s, w)])

PromiseOfBound(op, f, w, b) ==
  LET within == {s \in f : WeightOf(s, w) <= b}
      least == {s \in f : WeightOf(s, w) >= b}
  IN  CASE op = "bddcostbound" -> Bounded(within, MostIn(WeightsIn(within, w), WeightMin),
                                          LeastIn(WeightsIn(f \ within, w), WeightMax))
        [] op = "bddcostbound_le" -> within
        [] op = "bddcostbound_ge" -> IF b = WeightMin THEN Thrown ELSE least
        [] op = "cost_bound_eq" -> within \cap least
        [] op = "cost_bound_range" -> {s \in least : WeightOf(s, w) <= b + 2}

PromiseOfValues(op, x, y, z) ==
  CASE op \in {"mtbdd_apply", "mtzdd_apply"} -> [s \in Sets |-> BinOp(x, y[s], z[s])]
    [] op \in {"mtbdd_ite", "mtzdd_ite"} -> [s \in Sets |-> IF x[s] # Zero THEN y[s] ELSE z[s]]
    [] op = "mtbdd_from_bdd" -> [s \in Sets |-> IF s \in x THEN z ELSE y]
    [] op = "mtzdd_from_zdd" -> FromZdd(x, y, z)

\* A walk that returns each set with its probability.
Law(law, f, share, total) ==
  /\ DOMAIN law = f
  /\ \A s \in f : law[s][1] * total = share[s] * law[s][2]

\* No set without r is lighter than one within, and where some of one weight
\* had to be left out, as few or as many as strict says are in r.
Lighter(r, f, k, w, strict) ==
  LET heaviest == {s \in r : \A t \in r : WeightOf(t, w) <= WeightOf(s, w)}
      next == {s \in f \ r : \A t \in f \ r : WeightOf(s, w) <= WeightOf(t, w)}
      most == Least(k, Cardinality(f))
  IN  /\ r \subseteq f
      /\ \A s \in r, t \in f \ r : WeightOf(s, w) <= WeightOf(t, w)
      /\ strict = 0 => Cardinality(r) = most
      /\ strict # 0 => \A s \in r, t \in f \ r : WeightOf(s, w) # WeightOf(t, w)
      /\ strict < 0 => /\ Cardinality(r) <= most
                       /\ r # f => Cardinality(r \cup next) > most
      /\ strict > 0 => /\ Cardinality(r) >= most
                       /\ r # {} => Cardinality(r \ heaviest) < most

\* Every order lists each member once, with its weight, none after a heavier.
InOrder(orders, f, w, down) ==
  \A order \in orders :
    /\ Len(order) = Cardinality(f)
    /\ ToSet(order) = {<<WeightOf(s, w), s>> : s \in f}
    /\ \A i, j \in DOMAIN order : i < j => IF down THEN order[i][1] >= order[j][1]
                                           ELSE order[i][1] <= order[j][1]

Once(order, S) == Len(order) = Cardinality(S) /\ ToSet(order) = S

\* Every assignment with these literals satisfies f, and the literals come
\* from the top, of distinct variables.
Satisfies(literals, f) ==
  LET var(i) == IF literals[i] > 0 THEN literals[i] ELSE -literals[i]
  IN  /\ \A i, j \in DOMAIN literals : i < j => LevelOf(var(i)) > LevelOf(var(j))
      /\ \A s \in True : (\A i \in DOMAIN literals : (literals[i] > 0) = (var(i) \in s)) => s \in f

Holds(literals, s) == {l \in ToSet(literals) : (l > 0) = ((IF l > 0 THEN l ELSE -l) \in s)}

\* The size of member i when they are put in order of size.
SizeAt(f, i) ==
  LeastIn({n \in 0..Cardinality(Vars) : Cardinality({s \in f : Cardinality(s) <= n}) >= i}, 0)

\* An entry of the cache for a chain leads to the lowest node no lower than
\* it may reach, or one node down.
SkipRight(chain, n, to) ==
  LET near == {m \in chain : zlevnum(n) <= m /\ m < n}
  IN  to = IF near = {} THEN offset(chain, n) ELSE LeastIn(near, 0)

Kept(op, a, value) ==
  LET f == a[1]
  IN  CASE op \in OfFamily \ {"enumerate"} -> value = PromiseOfFamily(op, f)
        [] op \in {"bddcard", "bddminsize_public", "bddflatten"} -> value = PromiseOfFamily(op, f)
        [] op = "uniform_sample" ->
             IF f = Empty THEN value = Refused
             ELSE Law(value, f, [s \in f |-> 1], Cardinality(f))
        [] op \in OfWeights -> value = PromiseOfWeights(op, f, a[2])
        [] op \in Bounding \cup {"bddcostbound"} -> value = PromiseOfBound(op, f, a[2], a[3])
        [] op \in OfMaps \cup FromTerminals ->
             value = PromiseOfValues(op, f, a[2], IF Len(a) = 3 THEN a[3] ELSE 0)
        [] op = "enumerate" -> Once(value, f)
        [] op = "ZddRankIterator" -> Once(value, f) /\ \A i \in DOMAIN value : Rank(f, value[i]) = i - 1
        [] op = "mtzdd_enumerate" -> Once(value, {<<s, f[s]>> : s \in NonZero(f)})
        [] op = "mtzdd_count" -> value = Cardinality(NonZero(f))
        [] op = "one_set" -> IF f = Empty THEN value = NoMember ELSE value \in f
        [] op = "sat_one" -> IF f = False THEN value = <<0>> ELSE Satisfies(value, f)
        [] op = "sat_one_full" ->
             IF f = False \/ a[2] > Cardinality(Vars) \/ ~OnlyUses(f, a[2]) THEN value = <<0>>
             ELSE Satisfies(value, f) /\ Len(value) = a[2]
        [] op = "average_size" ->
             value[1] * Cardinality(f) = value[2] * SumOver(SizeOf(f))
        [] op = "variance_size" ->
             LET sum == SumOver(SizeOf(f))  squares == SumOver([s \in f |-> Cardinality(s)^2])
             IN  value[1] * Cardinality(f)^2 = value[2] * (squares * Cardinality(f) - sum^2)
        [] op = "median_size" ->
             LET n == Cardinality(f)
             IN  value = IF f = Empty THEN 0
                         ELSE SizeAt(f, (n + 1) \div 2) + SizeAt(f, (n + 2) \div 2)
        [] op = "bddjaccardindex" ->
             IF f \cup a[2] = {} THEN value = <<1, 1>>
             ELSE value[1] * Cardinality(f \cup a[2]) = value[2] * Cardinality(f \cap a[2])
        [] op = "bddoverlapcoeff" ->
             IF Empty \in {f, a[2]} THEN value = IF f = a[2] THEN <<1, 1>> ELSE <<0, 1>>
             ELSE value[1] * Least(Cardinality(f), Cardinality(a[2]))
                    = value[2] * Cardinality(f \cap a[2])
        [] op = "bddcoalesce" ->
             value = IF Terminal(f) \/ a[2] = a[3] THEN f
                     ELSE IF {a[2], a[3]} \subseteq Vars
                     THEN {IF a[3] \in s THEN (s \ {a[3]}) \cup {a[2]} ELSE s : s \in f}
                     ELSE Thrown
        [] op \in Lightest /\ f = Empty -> value = Thrown
        [] op = "bddminweight_public" /\ f # Empty -> value = LeastIn(WeightsIn(f, a[2]), 0)
        [] op = "bddmaxweight_public" /\ f # Empty -> value = MostIn(WeightsIn(f, a[2]), 0)
        [] op = "bddminweightset" /\ f # Empty ->
             value \in f /\ WeightOf(value, a[2]) = LeastIn(WeightsIn(f, a[2]), 0)
        [] op = "bddmaxweightset" /\ f # Empty ->
             value \in f /\ WeightOf(value, a[2]) = MostIn(WeightsIn(f, a[2]), 0)
        [] op = "bddgetklightest" -> Lighter(value, f, a[2], a[3], a[4])
        [] op = "bddgetkheaviest" ->
             Lighter(value, f, a[2], costbound_negate_weights(a[3]), a[4])
        [] op = "ZddMinWeightIterator" -> InOrder(value, f, a[2], FALSE)
        [] op = "ZddMaxWeightIterator" -> InOrder(value, f, a[2], TRUE)
        [] op = "ZddRandomIterator" -> value = SetToSeqs(f)
        [] op = "sample_assignment" ->
             IF f = False \/ a[2] > Cardinality(Vars) \/ ~OnlyUses(f, a[2]) THEN value = Refused
             ELSE LET g == Assignments(f, a[2]) IN Law(value, g, [s \in g |-> 1], Cardinality(g))
        [] op = "weighted_sample" ->
             LET share == [s \in f |-> IF a[3] = "Sum" THEN WeightOf(s, a[2]) ELSE Product(s, a[2])]
             IN  IF \E v \in Support(f) : a[2][v] < 0 THEN value = Refused
                 ELSE IF f = Single THEN value = Certainly({})
                 ELSE IF SumOver(share) = 0 THEN value = Refused
                 ELSE Law(value, {s \in f : share[s] > 0}, share, SumOver(share))
        [] op = "power_set" -> value = SUBSET ToSet(f)
        [] op = "from_sets" -> value = {ToSet(f[i]) : i \in DOMAIN f}
        [] op = "cube" -> value = {s \in True : Holds(f, s) = ToSet(f)}
        [] op = "clause" -> value = {s \in True : Holds(f, s) # {}}
        [] op = "EvaluateBdd" ->
             IF value = TooShort THEN \E v \in SupportOf("mtbdd", f) : v >= a[2]
             ELSE \A s \in Sets : {v \in s : v < a[2]} = a[3] => f[s] = value
        [] op = "EvaluateZdd" ->
             IF value = TooShort THEN \E v \in SupportOf("mtzdd", f) : v >= a[2]
             ELSE value = f[a[3]]
        [] op = "zlev" ->
             LET beyond == {m \in f : m > a[3]}
             IN  value = IF ~a[4] \/ beyond = {} \/ a[3] \in f THEN MostIn({m \in f : m <= a[3]}, 0)
                         ELSE LeastIn(beyond, 0)
        [] op \in Skipping -> \A n \in DOMAIN value : SkipRight(f, n, value[n])
        [] OTHER -> value = PromiseOfSelection(op, f, a[2])

-----------------------------------------------------------------------------
\* Weights above the bounds of a sum are left out, and sets larger than the
\* orders to be looked at are.
Subsets == SUBSET Vars
UpToSize == 0..(Cardinality(Vars) + 1)
FewOf(n) == {f \in Few : Cardinality(f) <= n}
Signed(list) == {[i \in DOMAIN list |-> sign[i] * list[i]] : sign \in [DOMAIN list -> {-1, 1}]}
SkipsOf(chain) ==
  LET all == set_zskip_rec(chain, <<>>, LastOf(chain))
  IN  {[n \in {n \in DOMAIN all : n % 4 # r} |-> all[n]] : r \in 0..4}

CallsOf(op) ==
  LET args ==
        CASE op \in OfFamily \cup WholeFamily -> {<<f>> : f \in Families}
          [] op \in MaybeNegative -> Families \X ({-1} \cup UpToSize)
          [] op \in Numbered \cup AndNumber -> Families \X UpToSize
          [] op \in WithVariables \cup AndMember -> Families \X Subsets
          [] op = "bddcountintersec" -> Families \X Few
          [] op \in Pairwise -> Families \X Few
          [] op \in OfWeights \cup Lightest -> Families \X WeightVectors
          [] op \in Bounding \cup {"bddcostbound"} ->
               {<<f, w, b>> \in Families \X WeightVectors \X Bounds :
                  op = "cost_bound_range" => b + 2 <= WeightMax}
          [] op \in Selecting -> Few \X (0..5) \X WeightVectors \X {-1, 0, 1}
          [] op \in Iterators -> FewOf(5) \X WeightVectors
          [] op = "ZddRandomIterator" -> {<<f>> : f \in FewOf(4)}
          [] op = "weighted_sample" -> Families \X WeightVectors \X {"Sum", "Product"}
          [] op = "bddcoalesce" -> Few \X UpToSize \X UpToSize
          [] op = "combination" -> Subsets \X UpToSize
          [] op \in OfMaps ->
               IF op \in {"mtbdd_apply", "mtzdd_apply"}
               THEN {"+", "-", "*", "min", "max"} \X Maps \X FewMaps
               ELSE Maps \X FewMaps \X FewMaps
          [] op \in FromTerminals -> Families \X Values \X Values
          [] op \in OfMap -> {<<m>> : m \in Maps}
          [] op \in MapAndVariable -> Maps \X Vars
          [] op = "mtzdd_to_zdd" -> Maps \X SUBSET Values
          [] op = "mtzdd_count_for_terminal" -> Maps \X Values
          [] op \in Evaluation -> {<<m, n, s>> \in Maps \X (1..(Cardinality(Vars) + 1)) \X Subsets :
                                     \A v \in s : v < n}
          [] op = "power_set" -> {<<list>> : list \in Lists}
          [] op = "from_sets" -> {<<pair>> : pair \in Lists \X Lists}
          [] op \in OfSequence -> {<<list>> : list \in UNION {Signed(list) : list \in Lists}}
          [] op = "zlev" ->
               UNION {{c} \X SkipsOf(c) \X (1..MostIn(c, 0)) \X BOOLEAN : c \in Chains}
          [] op \in Skipping -> UNION {{c} \X SkipsOf(c) : c \in Chains}
  IN  {[op |-> op, args |-> a] : a \in args}

-----------------------------------------------------------------------------
Sampled == {"uniform_sample", "sample_assignment", "weighted_sample", "ZddRandomIterator"}
Ordered == Iterators \cup {"ZddRankIterator", "enumerate"}
Valued == OfMaps \cup FromTerminals \cup OfMap \cup MapAndVariable \cup Evaluation
            \cup {"mtzdd_to_zdd", "mtzdd_count_for_terminal"}
Shortcuts == Skipping \cup {"zlev"}

Loops == INSTANCE Frames

Right(ops) == Loops!Finished /\ call.op \in ops => Kept(call.op, call.args, result)

\* What a query of a family or a function returns is what the operation
\* promises of its members or satisfying assignments: counts that stop at the
\* limit, ranks, selections, bounds on weights, the lightest and heaviest.
AnswersRight == Right((InFrames \cup Wholes) \ (Sampled \cup Ordered \cup Valued \cup Shortcuts))

\* A sample has every member with exactly its share of the weight, and no
\* other set; the random iterator may yield every order of the members.
LawsRight == Right(Sampled)

\* An iterator yields every member once, in its order, whichever of several
\* candidates of one weight the queue has at its head.
OrdersRight == Right(Ordered)

\* An operation on diagrams with values is what it is on the values,
\* whichever variables its operands have.
ValuesRight == Right(Valued)

\* With any of the entries of set_zskip lost, zlev finds the node that a walk
\* along the lo edges finds.
ShortcutsRight == Right(Shortcuts)

\* The recursive form gives what the iterative one gave.
AnswersAgree ==
  Loops!Finished /\ call.op \in InFrames => Recursive(call.op, call.args) = result

\* An entry of the cache or memo is true of every call it would answer: of
\* both signs of the node it is kept under, of a BDD and its negation, and of
\* every bound in the interval kept with a family of bounded weight.
AnswerMemoRight ==
  Loops!Finished /\ call.op \in InFrames =>
    \A e \in DOMAIN memo : \A a \in e.key : Kept(e.op, a, memo[e])
=============================================================================
