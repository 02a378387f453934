-------------------------------- MODULE PiDD --------------------------------
(***************************************************************************)
(* Sets of permutations as products of transpositions (pidd.h), in both    *)
(* forms, recursive and iterative, as in ZddOps; then the calls a program  *)
(* makes on them and what each promises of the permutations themselves.    *)
(***************************************************************************)
EXTENDS PermVars

CONSTANT Divisors     \* second operands

RECURSIVE swap_rec(_, _, _), cofact_rec(_, _, _), multiply_rec(_, _),
          divide_rec(_, _), odd_rec(_), to_perms_rec(_, _), enumerate_rec(_, _),
          enumerate2_rec(_, _)

U_XYU(x, y, u) == IF x = u THEN y ELSE u    \* PiDD_U_XYU

-----------------------------------------------------------------------------
\* Every permutation followed by (u v).  Below all transpositions of u the
\* new one is toggled; otherwise (u v)(x y) is written as (x y')(u' v).
Ordered(u, v) == IF u < v THEN <<v, u>> ELSE <<u, v>>

swap_rec(p, u0, v0) ==
  LET u == Ordered(u0, v0)[1]  v == Ordered(u0, v0)[2]
      x == top_x(p)  y == top_y(p)
  IN  IF u = v THEN p
      ELSE IF x < u THEN bddchange(p, VarOf(Lev_XY(u, v)))
      ELSE swap_rec(Lo(p), u, v)
             \cup swap_rec(swap_rec(Hi(p), U_XYU(x, y, u), v), x, Exchange(y, u, v))

swap_iter(a, got) ==
  LET p == a[1]  u == Ordered(a[2], a[3])[1]  v == Ordered(a[2], a[3])[2]
      x == top_x(p)  y == top_y(p)
  IN  IF u = v THEN Answer(p)
      ELSE IF x < u THEN Answer(bddchange(p, VarOf(Lev_XY(u, v))))
      ELSE LET key == {<<p, u, v>>, <<p, v, u>>}
           IN  IF got = <<>> THEN Ask(key, <<Lo(p), u, v>>)
               ELSE IF Len(got) = 1 THEN Ask(key, <<Hi(p), U_XYU(x, y, u), v>>)
               ELSE IF Len(got) = 2 THEN Ask(key, <<got[2], x, Exchange(y, u, v)>>)
               ELSE Keep(key, got[1] \cup got[3])

swap(p, u, v) == IF {u, v} \subseteq Elements THEN swap_rec(p, u, v) ELSE Thrown

\* The permutations that map u to v, each followed by (u v).
CofactBelow(p, u, v) ==
  IF u >= v THEN <<Hi(p), u, v>> ELSE <<Hi(p), u, U_XYU(top_x(p), top_y(p), v)>>
CofactJoin(p, u, v, lo, hi) ==
  lo \cup swap_rec(hi, top_x(p), IF u >= v THEN Exchange(top_y(p), u, v)
                                 ELSE Exchange(top_y(p), v, u))

cofact_rec(p, u, v) ==
  LET x == top_x(p)  y == top_y(p)  below == CofactBelow(p, u, v)
  IN  IF x < u /\ x < v THEN IF u = v THEN p ELSE Empty
      ELSE IF x = u /\ y > v THEN Empty
      ELSE IF x = u /\ y = v THEN Hi(p)
      ELSE IF x = u \/ y = v THEN cofact_rec(Lo(p), u, v)
      ELSE CofactJoin(p, u, v, cofact_rec(Lo(p), u, v),
                      cofact_rec(below[1], below[2], below[3]))

\* Mutant: the two positions are sorted for the cache, as those of a swap.
CofactSorted(a, got) ==
  LET p == a[1]  u == a[2]  v == a[3]  x == top_x(p)  y == top_y(p)
  IN  IF x < u /\ x < v THEN Answer(IF u = v THEN p ELSE Empty)
      ELSE IF x = u /\ y > v THEN Answer(Empty)
      ELSE IF x = u /\ y = v THEN Answer(Hi(p))
      ELSE IF x = u \/ y = v THEN Relay(<<<<Lo(p), u, v>>>>, got, got[1])
      ELSE Open({a, <<p, v, u>>}, <<<<Lo(p), u, v>>, CofactBelow(p, u, v)>>, got,
                CofactJoin(p, u, v, got[1], got[2]))

cofact_iter(a, got) ==
  LET p == a[1]  u == a[2]  v == a[3]  x == top_x(p)  y == top_y(p)
  IN  IF x < u /\ x < v THEN Answer(IF u = v THEN p ELSE Empty)
      ELSE IF x = u /\ y > v THEN Answer(Empty)
      ELSE IF x = u /\ y = v THEN Answer(Hi(p))
      ELSE IF x = u \/ y = v THEN Relay(<<<<Lo(p), u, v>>>>, got, got[1])
      ELSE Open({a}, <<<<Lo(p), u, v>>, CofactBelow(p, u, v)>>, got,
                CofactJoin(p, u, v, got[1], got[2]))

-----------------------------------------------------------------------------
\* Every permutation of p followed by every permutation of q.
multiply_rec(p, q) ==
  IF Empty \in {p, q} THEN Empty
  ELSE IF p = Single THEN q
  ELSE IF q = Single THEN p
  ELSE multiply_rec(p, Lo(q)) \cup swap_rec(multiply_rec(p, Hi(q)), top_x(q), top_y(q))

multiply_iter(a, got) ==
  LET p == a[1]  q == a[2]
  IN  IF Empty \in {p, q} THEN Answer(Empty)
      ELSE IF p = Single THEN Answer(q)
      ELSE IF q = Single THEN Answer(p)
      ELSE Open({a}, <<<<p, Lo(q)>>, <<p, Hi(q)>>>>, got,
                got[1] \cup swap_rec(got[2], top_x(q), top_y(q)))

divide_rec(f, p) ==
  IF p = Single THEN f
  ELSE IF p = Empty THEN Thrown
  ELSE IF top_x(f) < top_x(p) THEN Empty
  ELSE LET x == top_x(p)  y == top_y(p)
           q == cofact_rec(divide_rec(cofact_rec(f, x, y), Hi(p)), y, y)
       IN  IF q = Empty \/ Lo(p) = Empty THEN q ELSE q \cap divide_rec(f, Lo(p))

divide_iter(a, got) ==
  LET f == a[1]  p == a[2]  x == top_x(p)  y == top_y(p)
  IN  IF p = Single THEN Answer(f)
      ELSE IF p = Empty THEN Answer(Thrown)
      ELSE IF top_x(f) < x THEN Answer(Empty)
      ELSE IF got = <<>> THEN Ask({a}, <<cofact_rec(f, x, y), Hi(p)>>)
      ELSE LET q == cofact_rec(got[1], y, y)
           IN  IF q = Empty \/ Lo(p) = Empty THEN Keep({a}, q)
               ELSE Open({a}, <<<<>>, <<f, Lo(p)>>>>, got, q \cap got[2])

remainder(f, p) ==
  IF p = Empty THEN Thrown ELSE f \ multiply_rec(divide_rec(f, p), p)

\* The odd permutations: those of Lo, and (x y) after the even ones of Hi.
odd_rec(p) ==
  IF top_x(p) = 0 THEN Empty
  ELSE odd_rec(Lo(p)) \cup swap_rec(Hi(p) \ odd_rec(Hi(p)), top_x(p), top_y(p))

odd_iter(a, got) ==
  LET p == a[1]
  IN  IF top_x(p) = 0 THEN Answer(Empty)
      ELSE Open({a}, <<<<Lo(p)>>, <<Hi(p)>>>>, got,
                got[1] \cup swap_rec(Hi(p) \ got[2], top_x(p), top_y(p)))

even(p) == p \ odd_rec(p)

swap_bound(p, n) == bddpermitsym(p, n)

-----------------------------------------------------------------------------
\* A permutation as its images in order.  The largest moved position is
\* peeled off until none is left; the transpositions are applied in reverse.
RECURSIVE Peel(_, _)
Peel(cur, x) ==
  IF x < 2 THEN <<>>
  ELSE IF cur[x] = x THEN Peel(cur, x - 1)
  ELSE <<<<x, cur[x]>>>> \o Peel([i \in DOMAIN cur |-> Exchange(cur[i], x, cur[x])], x - 1)

from_permutation(perm) ==
  FoldLeft(LAMBDA res, xy : IF res = Thrown THEN res ELSE swap(res, xy[1], xy[2]),
           Single, Reverse(Peel(perm, Len(perm))))

\* The walks that list a set: the part without the top transposition first,
\* then the part with it, with that transposition put before the rest.
With(p) == cofact_rec(p, top_x(p), top_y(p))
Without(p) == p \ swap_rec(With(p), top_x(p), top_y(p))

Transposed(varmap, x, y) ==
  [varmap EXCEPT ![x] = varmap[y], ![y] = varmap[x]]

to_perms_rec(p, varmap) ==
  IF p = Empty THEN <<>>
  ELSE IF p = Single THEN <<varmap>>
  ELSE to_perms_rec(Without(p), varmap)
         \o to_perms_rec(With(p), Transposed(varmap, top_x(p), top_y(p)))

to_perms_iter(a, got) ==
  LET p == a[1]  varmap == a[2]
  IN  IF p = Empty THEN Answer(<<>>)
      ELSE IF p = Single THEN Answer(<<varmap>>)
      ELSE Relay(<<<<Without(p), varmap>>,
                   <<With(p), Transposed(varmap, top_x(p), top_y(p))>>>>,
                 got, got[1] \o got[2])

\* What is printed of a permutation ends with the last element it moves.
enumerate_print(varmap) ==
  LET moved == {i \in DOMAIN varmap : varmap[i] # i}
  IN  SubSeq(varmap, 1, Max(moved \cup {0}))

enumerate_rec(p, varmap) ==
  IF p = Empty THEN <<>>
  ELSE IF p = Single THEN <<enumerate_print(varmap)>>
  ELSE enumerate_rec(Without(p), varmap)
         \o enumerate_rec(With(p), Transposed(varmap, top_x(p), top_y(p)))

enumerate_iter(a, got) ==
  LET p == a[1]  varmap == a[2]
  IN  IF p = Empty THEN Answer(<<>>)
      ELSE IF p = Single THEN Answer(<<enumerate_print(varmap)>>)
      ELSE Relay(<<<<Without(p), varmap>>,
                   <<With(p), Transposed(varmap, top_x(p), top_y(p))>>>>,
                 got, got[1] \o got[2])

\* The same walk, which prints the transpositions taken.
enumerate2_print(levs) == [i \in DOMAIN levs |-> <<X_Lev(levs[i]), Y_Lev(levs[i])>>]

enumerate2_rec(p, levs) ==
  IF p = Empty THEN <<>>
  ELSE IF p = Single THEN <<enumerate2_print(levs)>>
  ELSE enumerate2_rec(Without(p), levs) \o enumerate2_rec(With(p), Append(levs, Level(p)))

enumerate2_iter(a, got) ==
  LET p == a[1]  levs == a[2]
  IN  IF p = Empty THEN Answer(<<>>)
      ELSE IF p = Single THEN Answer(<<enumerate2_print(levs)>>)
      ELSE Relay(<<<<Without(p), levs>>, <<With(p), Append(levs, Level(p))>>>>,
                 got, got[1] \o got[2])
-----------------------------------------------------------------------------
(***************************************************************************)
(* The calls, in the frames of their loops and whole, and their promises.  *)
(***************************************************************************)
OfPosition == {"pidd_swap", "pidd_cofact"}
OfPair == {"pidd_multiply", "pidd_divide"}
Loops == OfPosition \cup OfPair
           \cup {"pidd_odd", "pidd_to_perms", "pidd_enumerate", "pidd_enumerate2"}
Wholes == {"pidd_remainder", "pidd_even", "pidd_swap_bound", "pidd_from_permutation"}

FrameOf(op, a, got) ==
  CASE op = "pidd_swap" -> swap_iter(a, got)
    [] op = "pidd_cofact" -> cofact_iter(a, got)
    [] op = "pidd_multiply" -> multiply_iter(a, got)
    [] op = "pidd_divide" -> divide_iter(a, got)
    [] op = "pidd_odd" -> odd_iter(a, got)
    [] op = "pidd_to_perms" -> to_perms_iter(a, got)
    [] op = "pidd_enumerate" -> enumerate_iter(a, got)
    [] op = "pidd_enumerate2" -> enumerate2_iter(a, got)

Recursive(op, a) ==
  CASE op = "pidd_swap" -> swap_rec(a[1], a[2], a[3])
    [] op = "pidd_cofact" -> cofact_rec(a[1], a[2], a[3])
    [] op = "pidd_multiply" -> multiply_rec(a[1], a[2])
    [] op = "pidd_divide" -> divide_rec(a[1], a[2])
    [] op = "pidd_odd" -> odd_rec(a[1])
    [] op = "pidd_to_perms" -> to_perms_rec(a[1], a[2])
    [] op = "pidd_enumerate" -> enumerate_rec(a[1], a[2])
    [] op = "pidd_enumerate2" -> enumerate2_rec(a[1], a[2])

Composition(op, a) ==
  CASE op = "pidd_remainder" -> remainder(a[1], a[2])
    [] op = "pidd_even" -> even(a[1])
    [] op = "pidd_swap_bound" -> swap_bound(a[1], a[2])
    [] op = "pidd_from_permutation" -> from_permutation(a[1])

Perms(f) == {Product(s, Trans) : s \in f}
FamilyOf(perms) == {s \in Proper : Product(s, Trans) \in perms}

\* The permutations that leave alone what the divisor's transpositions move,
\* and give one of f when followed by any of the divisor.
Quotient(f, p) ==
  LET moved == UNION {{XOf(v), YOf(v)} : v \in Support(p)}
  IN  {sigma \in All : /\ \A i \in moved : sigma[i] = i
                       /\ \A pi \in Perms(p) : Then(sigma, pi) \in Perms(f)}

Promise(op, a) ==
  LET f == a[1]
  IN  CASE op = "pidd_swap" -> FamilyOf({Then(pi, Trans(a[2], a[3])) : pi \in Perms(f)})
        [] op = "pidd_cofact" -> FamilyOf({Then(pi, Trans(a[2], a[3])) :
                                   pi \in {pi \in Perms(f) : pi[a[2]] = a[3]}})
        [] op = "pidd_multiply" -> FamilyOf({Then(p[1], p[2]) : p \in Perms(f) \X Perms(a[2])})
        [] op = "pidd_divide" -> IF a[2] = Empty THEN Thrown ELSE FamilyOf(Quotient(f, a[2]))
        [] op = "pidd_remainder" ->
             IF a[2] = Empty THEN Thrown
             ELSE FamilyOf(Perms(f) \ {Then(p[1], p[2]) : p \in Quotient(f, a[2]) \X Perms(a[2])})
        [] op = "pidd_odd" -> FamilyOf({pi \in Perms(f) : Odd(pi)})
        [] op = "pidd_even" -> FamilyOf({pi \in Perms(f) : ~Odd(pi)})
        [] op = "pidd_swap_bound" -> {s \in f : Cardinality(s) <= a[2]}
        [] op = "pidd_from_permutation" ->
             IF \E i \in DOMAIN f : i > PermSize /\ f[i] # i THEN Thrown
             ELSE FamilyOf({Extend(f)})

Kept(op, a, value) ==
  CASE op = "pidd_to_perms" -> Listed(value, Perms(a[1]), LAMBDA pi : pi)
    [] op = "pidd_enumerate" -> Listed(value, Perms(a[1]), Extend)
    [] op = "pidd_enumerate2" ->
         Listed(value, Perms(a[1]),
               LAMBDA word : FoldLeft(LAMBDA pi, xy : Then(Trans(xy[1], xy[2]), pi),
                                      Identity(PermSize), word))
    [] OTHER -> value = Promise(op, a)

CallsOf(op) ==
  LET fs == SUBSET Proper
      args ==
        CASE op \in OfPosition -> fs \X Elements \X Elements
          [] op \in OfPair \cup {"pidd_remainder"} -> fs \X Divisors
          [] op \in {"pidd_odd", "pidd_even"} -> {<<f>> : f \in fs}
          [] op = "pidd_to_perms" -> {<<f, Identity(PermSize)>> : f \in fs}
          [] op = "pidd_enumerate" -> {<<f, Identity(top_x(f))>> : f \in fs}
          [] op = "pidd_enumerate2" -> {<<f, <<>>>> : f \in fs}
          [] op = "pidd_swap_bound" -> fs \X (0..PermSize)
          [] op = "pidd_from_permutation" -> {<<pi>> : pi \in UNION {Words(n) : n \in 0..(PermSize + 1)}}
  IN  {[op |-> op, args |-> a] : a \in args}
=============================================================================
