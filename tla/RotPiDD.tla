------------------------------- MODULE RotPiDD -------------------------------
(***************************************************************************)
(* Sets of permutations as products of left rotations (rotpidd.h): the     *)
(* rotation of (x, y) moves the value at position x to position y and      *)
(* those between up by one.  Both forms of every operation, the calls a    *)
(* program makes, and what each promises of the permutations.              *)
(***************************************************************************)
EXTENDS PermVars

CONSTANTS Factors,     \* second operands
          Weights      \* weights of pairs that are out of order

RECURSIVE left_rot_rec(_, _, _), cofact_rec(_, _, _), multiply_rec(_, _), odd_rec(_),
          order_rec(_, _, _), inverse_rec(_), insert_rec(_, _, _), remove_max_rec(_, _),
          normalize_rec(_, _), extract_one_rec(_), to_perms_rec(_, _),
          enumerate2_rec(_, _), contmax_rec(_, _, _, _)

-----------------------------------------------------------------------------
\* Every permutation followed by the rotation of (u, v).  Below all variables
\* of u its own is toggled; otherwise the product of the rotations of (u, v)
\* and (x, y) is that of (x, ny) and one below: RotBelow is that one, and ny.
Ordered(u, v) == IF u < v THEN <<v, u>> ELSE <<u, v>>

RotBelow(u, v, y) ==
  CASE u < y -> <<u, v, y>>
    [] u = y -> <<1, 1, v>>
    [] u > y /\ v <= y -> <<u - 1, v, y + 1>>
    [] OTHER -> <<u - 1, v - 1, y>>

left_rot_rec(p, u0, v0) ==
  LET u == Ordered(u0, v0)[1]  v == Ordered(u0, v0)[2]
      below == RotBelow(u, v, top_y(p))
  IN  IF u = v THEN p
      ELSE IF top_x(p) < u THEN bddchange(p, VarOf(Lev_XY(u, v)))
      ELSE left_rot_rec(Lo(p), u, v)
             \cup left_rot_rec(left_rot_rec(Hi(p), below[1], below[2]), top_x(p), below[3])

\* When u = y nothing is below, and the loop goes straight to (x, ny).
left_rot_iter(a, got) ==
  LET p == a[1]  u == Ordered(a[2], a[3])[1]  v == Ordered(a[2], a[3])[2]
      x == top_x(p)  y == top_y(p)  below == RotBelow(u, v, y)
      key == {<<p, u, v>>, <<p, v, u>>}
  IN  IF u = v THEN Answer(p)
      ELSE IF x < u THEN Answer(bddchange(p, VarOf(Lev_XY(u, v))))
      ELSE IF got = <<>> THEN Ask(key, <<Lo(p), u, v>>)
      ELSE IF u = y THEN Open(key, <<<<>>, <<Hi(p), x, v>>>>, got, got[1] \cup got[2])
      ELSE IF Len(got) = 1 THEN Ask(key, <<Hi(p), below[1], below[2]>>)
      ELSE Open(key, <<<<>>, <<>>, <<got[2], x, below[3]>>>>, got, got[1] \cup got[3])

left_rot(p, u, v) == IF {u, v} \subseteq Elements THEN left_rot_rec(p, u, v) ELSE Thrown

-----------------------------------------------------------------------------
\* The permutations that map u to v, without that position and that value.
cofact_rec(p, u, v) ==
  LET x == top_x(p)  y == top_y(p)
  IN  IF x < u \/ x < v THEN IF u = v THEN p ELSE Empty
      ELSE IF x = u /\ y > v THEN Empty
      ELSE IF x = u /\ y = v THEN Hi(p)
      ELSE IF x = u \/ y = v THEN cofact_rec(Lo(p), u, v)
      ELSE cofact_rec(Lo(p), u, v)
             \cup IF v < y THEN left_rot_rec(cofact_rec(Hi(p), u, v), x - 1, y - 1)
                  ELSE left_rot_rec(cofact_rec(Hi(p), u, v - 1), x - 1, y)

cofact_iter(a, got) ==
  LET p == a[1]  u == a[2]  v == a[3]  x == top_x(p)  y == top_y(p)
      w == IF v < y THEN v ELSE v - 1
      z == IF v < y THEN y - 1 ELSE y
  IN  IF x < u \/ x < v THEN Answer(IF u = v THEN p ELSE Empty)
      ELSE IF x = u /\ y > v THEN Answer(Empty)
      ELSE IF x = u /\ y = v THEN Answer(Hi(p))
      ELSE IF x = u \/ y = v THEN Relay(<<<<Lo(p), u, v>>>>, got, got[1])
      ELSE Open({a}, <<<<Lo(p), u, v>>, <<Hi(p), u, w>>>>, got,
                got[1] \cup left_rot_rec(got[2], x - 1, z))

\* Every permutation of p followed by every permutation of q.
multiply_rec(p, q) ==
  IF Empty \in {p, q} THEN Empty
  ELSE IF p = Single THEN q
  ELSE IF q = Single THEN p
  ELSE multiply_rec(p, Lo(q)) \cup left_rot_rec(multiply_rec(p, Hi(q)), top_x(q), top_y(q))

multiply_iter(a, got) ==
  LET p == a[1]  q == a[2]
  IN  IF Empty \in {p, q} THEN Answer(Empty)
      ELSE IF p = Single THEN Answer(q)
      ELSE IF q = Single THEN Answer(p)
      ELSE Open({a}, <<<<p, Lo(q)>>, <<p, Hi(q)>>>>, got,
                got[1] \cup left_rot_rec(got[2], top_x(q), top_y(q)))

\* A swap and a reversal of positions: a product of rotations, taken first.
swap(p, a, b) ==
  LET lo == Ordered(a, b)[2]  hi == Ordered(a, b)[1]
      perm == FoldLeft(LAMBDA c, i : multiply_rec(left_rot_rec(Single, i - 1, i), c),
                       left_rot_rec(Single, lo, hi),
                       Reverse([k \in 1..(hi - lo - 1) |-> lo + k]))
  IN  IF ~({a, b} \subseteq Elements) THEN Thrown
      ELSE IF a = b THEN p
      ELSE multiply_rec(perm, p)

reverse(p, l, r) ==
  LET lo == Ordered(l, r)[2]  hi == Ordered(l, r)[1]
      perm == FoldLeft(LAMBDA c, i : multiply_rec(left_rot_rec(Single, lo, i), c),
                       Single, Reverse([k \in 1..(hi - lo) |-> lo + k]))
  IN  IF ~({l, r} \subseteq Elements) THEN Thrown
      ELSE IF l = r THEN p
      ELSE multiply_rec(perm, p)

-----------------------------------------------------------------------------
\* A rotation of (x, y) is x - y transpositions.
odd_rec(p) ==
  LET x == top_x(p)  y == top_y(p)
      flipped == IF (x - y) % 2 # 0 THEN Hi(p) \ odd_rec(Hi(p)) ELSE odd_rec(Hi(p))
  IN  IF x = 0 THEN Empty ELSE odd_rec(Lo(p)) \cup left_rot_rec(flipped, x, y)

odd_iter(a, got) ==
  LET p == a[1]  x == top_x(p)  y == top_y(p)
  IN  IF x = 0 THEN Answer(Empty)
      ELSE Open({a}, <<<<Lo(p)>>, <<Hi(p)>>>>, got,
                got[1] \cup left_rot_rec(IF (x - y) % 2 # 0 THEN Hi(p) \ got[2] ELSE got[2], x, y))

even(p) == p \ odd_rec(p)

rot_bound(p, n) == bddpermitsym(p, n)

\* The permutations with the value a before the value b.
OrderBelow(p, a, b) ==
  LET y == top_y(p)
  IN  <<Hi(p), IF y < a THEN a - 1 ELSE a, IF y < b THEN b - 1 ELSE b>>

order_rec(p, a, b) ==
  LET x == top_x(p)  y == top_y(p)  below == OrderBelow(p, a, b)
  IN  IF p = Empty THEN Empty
      ELSE IF p = Single THEN IF a < b THEN Single ELSE Empty
      ELSE IF x < a /\ b < a THEN Empty
      ELSE IF x < b /\ a < b THEN p
      ELSE order_rec(Lo(p), a, b)
             \cup CASE y = b -> left_rot_rec(Hi(p), x, y)
                    [] y # b /\ y = a -> Empty
                    [] OTHER -> left_rot_rec(order_rec(below[1], below[2], below[3]), x, y)

order_iter(a, got) ==
  LET p == a[1]  u == a[2]  v == a[3]  x == top_x(p)  y == top_y(p)
  IN  IF p = Empty THEN Answer(Empty)
      ELSE IF p = Single THEN Answer(IF u < v THEN Single ELSE Empty)
      ELSE IF x < u /\ v < u THEN Answer(Empty)
      ELSE IF x < v /\ u < v THEN Answer(p)
      ELSE IF got = <<>> THEN Ask({a}, <<Lo(p), u, v>>)
      ELSE IF y = v THEN Keep({a}, got[1] \cup left_rot_rec(Hi(p), x, y))
      ELSE IF y = u THEN Keep({a}, got[1])
      ELSE Open({a}, <<<<>>, OrderBelow(p, u, v)>>, got,
                got[1] \cup left_rot_rec(got[2], x, y))

\* The inverse of a rotation is made of rotations of neighbours.
InvRot(x, y) == FoldLeft(LAMBDA r, k : left_rot_rec(r, y + k - 1, y + k),
                         Single, [k \in 1..(x - y) |-> k])

inverse_rec(p) ==
  IF Terminal(p) THEN p
  ELSE inverse_rec(Lo(p)) \cup multiply_rec(InvRot(top_x(p), top_y(p)), inverse_rec(Hi(p)))

inverse_iter(a, got) ==
  LET p == a[1]
  IN  IF Terminal(p) THEN Answer(p)
      ELSE Open({a}, <<<<Lo(p)>>, <<Hi(p)>>>>, got,
                got[1] \cup multiply_rec(InvRot(top_x(p), top_y(p)), got[2]))

-----------------------------------------------------------------------------
\* Every permutation with the value v inserted at position p.  A value above
\* m, the top position of the result, is inserted as m and moved up.
InsertTop(f, p) == IF p <= top_x(f) THEN top_x(f) + 1 ELSE p
MoveUp(r, m, v) == FoldLeft(LAMBDA s, k : left_rot_rec(s, m + k, m + k - 1),
                            r, [k \in 1..(v - m) |-> k])
InsertBelow(f, p, v) == <<Hi(f), p, IF top_y(f) < v THEN v - 1 ELSE v>>
InsertJoin(f, v, lo, hi) ==
  lo \cup left_rot_rec(hi, top_x(f) + 1, IF v <= top_y(f) THEN top_y(f) + 1 ELSE top_y(f))

insert_rec(f, p, v) ==
  LET m == InsertTop(f, p)  below == InsertBelow(f, p, v)
  IN  IF f = Empty THEN Empty
      ELSE IF v > m THEN MoveUp(insert_rec(f, p, m), m, v)
      ELSE IF top_x(f) < p THEN left_rot_rec(f, p, v)
      ELSE InsertJoin(f, v, insert_rec(Lo(f), p, v), insert_rec(below[1], below[2], below[3]))

insert_iter(a, got) ==
  LET f == a[1]  p == a[2]  v == a[3]  m == InsertTop(f, p)
  IN  IF f = Empty THEN Answer(Empty)
      ELSE IF v > m THEN Open({a}, <<<<f, p, m>>>>, got, MoveUp(got[1], m, v))
      ELSE IF top_x(f) < p THEN Keep({a}, left_rot_rec(f, p, v))
      ELSE Open({a}, <<<<Lo(f), p, v>>, InsertBelow(f, p, v)>>, got,
                InsertJoin(f, v, got[1], got[2]))

\* The public call also refuses what needs an element that does not exist.
InsertFits(f, p, v) == {p, v} \subseteq Elements /\ (p <= top_x(f) => top_x(f) + 1 <= PermSize)
insert(f, p, v) ==
  IF ~({p, v} \subseteq Elements) THEN Thrown
  ELSE IF f = Empty THEN Empty
  ELSE IF ~InsertFits(f, p, v) THEN Thrown
  ELSE insert_rec(f, p, v)

remove_max_rec(p, k) ==
  IF k <= 0 \/ Terminal(p) \/ top_x(p) < k THEN p
  ELSE remove_max_rec(Lo(p), k)
         \cup left_rot_rec(remove_max_rec(Hi(p), k - 1), top_x(p) - 1, top_y(p))

remove_max_iter(a, got) ==
  LET p == a[1]  k == a[2]
  IN  IF k <= 0 \/ Terminal(p) \/ top_x(p) < k THEN Answer(p)
      ELSE Open({a}, <<<<Lo(p), k>>, <<Hi(p), k - 1>>>>, got,
                got[1] \cup left_rot_rec(got[2], top_x(p) - 1, top_y(p)))

\* Drops the variables of the elements above k.
normalize_rec(p, k) ==
  IF top_x(p) <= k THEN p ELSE normalize_rec(Lo(p), k) \cup normalize_rec(Hi(p), k)

normalize_iter(a, got) ==
  LET p == a[1]  k == a[2]
  IN  IF top_x(p) <= k THEN Answer(p)
      ELSE Open({a}, <<<<Lo(p), k>>, <<Hi(p), k>>>>, got, got[1] \cup got[2])

\* The permutation of the path of hi sides.
extract_one_rec(p) ==
  IF Terminal(p) THEN p ELSE left_rot_rec(extract_one_rec(Hi(p)), top_x(p), top_y(p))

extract_one_iter(a, got) ==
  LET p == a[1]
  IN  IF Terminal(p) THEN Answer(p)
      ELSE Relay(<<<<Hi(p)>>>>, got, left_rot_rec(got[1], top_x(p), top_y(p)))

-----------------------------------------------------------------------------
\* A vector of distinct numbers, by their ranks, as a set of one permutation:
\* the rotations that turn the identity into it, largest position first.
normalizePerm(v) == [i \in DOMAIN v |-> Cardinality({j \in DOMAIN v : v[j] <= v[i]})]

Rotated(list, x, y) ==
  [i \in DOMAIN list |-> IF i \in y..(x - 1) THEN list[i + 1] ELSE IF i = x THEN list[y] ELSE list[i]]

RECURSIVE Rotations(_, _, _)
Rotations(id, v, i) ==
  IF i = 0 THEN <<>>
  ELSE LET j == CHOOSE j \in 1..i : id[j] = v[i]
       IN  IF j = i THEN Rotations(id, v, i - 1)
           ELSE <<<<j, i>>>> \o Rotations(Rotated(id, i, j), v, i - 1)

from_vector(v) ==
  FoldLeft(LAMBDA res, ji : IF res = Thrown THEN res ELSE left_rot(res, ji[1], ji[2]),
           Single, Reverse(Rotations(Identity(Len(v)), normalizePerm(v), Len(v))))

\* The walks that list a set, as for PiDD; the rotations are printed from the
\* lowest up.
With(p) == cofact_rec(p, top_x(p), top_y(p))
Without(p) == p \ left_rot_rec(With(p), top_x(p), top_y(p))

to_perms_rec(p, varmap) ==
  IF p = Empty THEN <<>>
  ELSE IF p = Single THEN <<varmap>>
  ELSE to_perms_rec(Without(p), varmap)
         \o to_perms_rec(With(p), Rotated(varmap, top_x(p), top_y(p)))

to_perms_iter(a, got) ==
  LET p == a[1]  varmap == a[2]
  IN  IF p = Empty THEN Answer(<<>>)
      ELSE IF p = Single THEN Answer(<<varmap>>)
      ELSE Relay(<<<<Without(p), varmap>>,
                   <<With(p), Rotated(varmap, top_x(p), top_y(p))>>>>,
                 got, got[1] \o got[2])

enumerate_rec(p, varmap) == to_perms_rec(p, varmap)
enumerate_iter(a, got) == to_perms_iter(a, got)

enumerate2_print(levs) ==
  Reverse([i \in DOMAIN levs |-> <<X_Lev(levs[i]), Y_Lev(levs[i])>>])

enumerate2_rec(p, levs) ==
  IF p = Empty THEN <<>>
  ELSE IF p = Single THEN <<enumerate2_print(levs)>>
  ELSE enumerate2_rec(Without(p), levs) \o enumerate2_rec(With(p), Append(levs, Level(p)))

enumerate2_iter(a, got) ==
  LET p == a[1]  levs == a[2]
  IN  IF p = Empty THEN Answer(<<>>)
      ELSE IF p = Single THEN Answer(<<enumerate2_print(levs)>>)
      ELSE Relay(<<<<Without(p), levs>>, <<With(p), Append(levs, Level(p))>>>>,
                 got, got[1] \o got[2])

-----------------------------------------------------------------------------
\* The largest total weight of the pairs a permutation puts out of order.
\* list holds the elements not used yet in its first n places; the memo of
\* the call is keyed by the set of those used, whatever list and n are.
None == -1000000000

Marked(used, list, x, n) == used \cup {list[i] : i \in (x + 1)..n}
Gain(list, x, y) ==
  FoldLeft(LAMBDA sum, i : sum + Weights[list[x]][list[i]], 0,
           [k \in 1..(x - y) |-> y + k - 1])

contmax_rec(p, used, list, n) ==
  LET x == top_x(p)  y == top_y(p)
      marked == Marked(used, list, x, n)
      turned == Rotated(list, x, y)
      left == contmax_rec(Lo(p), marked, list, x)
      right == Gain(turned, x, y)
                 + contmax_rec(Hi(p), marked \cup {turned[x]}, turned, x - 1)
  IN  IF p = Empty THEN None
      ELSE IF p = Single THEN 0
      ELSE IF left > right THEN left ELSE right

contmax_iter(a, got) ==
  LET p == a[1]  used == a[2]  list == a[3]  n == a[4]  x == top_x(p)  y == top_y(p)
      marked == Marked(used, list, x, n)
      turned == Rotated(list, x, y)
      answered == {<<p, used>> \o k : k \in Words(PermSize) \X (0..PermSize)}
      right == Gain(turned, x, y) + got[2]
  IN  IF p = Empty THEN Answer(None)
      ELSE IF p = Single THEN Keep(answered, 0)
      ELSE Open(answered, <<<<Lo(p), marked, list, x>>,
                            <<Hi(p), marked \cup {turned[x]}, turned, x - 1>>>>,
                got, IF got[1] > right THEN got[1] ELSE right)

-----------------------------------------------------------------------------
(***************************************************************************)
(* The calls, in the frames of their loops and whole, and their promises.  *)
(***************************************************************************)
OfPosition == {"rot_left_rot", "rot_cofact", "rot_swap", "rot_reverse", "rot_insert"}
OfNumber == {"rot_remove_max", "rot_normalize", "rot_bound"}
OfOne == {"rot_odd", "rot_even", "rot_inverse", "rot_extract_one"}
OfList == {"rot_to_perms", "rot_enumerate"}
Wholes == {"rot_swap", "rot_reverse", "rot_even", "rot_bound", "rot_from_vector", "rot_insert_public"}
Loops == (OfPosition \cup OfNumber \cup OfOne \cup OfList
            \cup {"rot_multiply", "rot_order", "rot_enumerate2", "rot_contmax"}) \ Wholes

FrameOf(op, a, got) ==
  CASE op = "rot_left_rot" -> left_rot_iter(a, got)
    [] op = "rot_cofact" -> cofact_iter(a, got)
    [] op = "rot_multiply" -> multiply_iter(a, got)
    [] op = "rot_odd" -> odd_iter(a, got)
    [] op = "rot_order" -> order_iter(a, got)
    [] op = "rot_inverse" -> inverse_iter(a, got)
    [] op = "rot_insert" -> insert_iter(a, got)
    [] op = "rot_remove_max" -> remove_max_iter(a, got)
    [] op = "rot_normalize" -> normalize_iter(a, got)
    [] op = "rot_extract_one" -> extract_one_iter(a, got)
    [] op = "rot_to_perms" -> to_perms_iter(a, got)
    [] op = "rot_enumerate" -> enumerate_iter(a, got)
    [] op = "rot_enumerate2" -> enumerate2_iter(a, got)
    [] op = "rot_contmax" -> contmax_iter(a, got)

Recursive(op, a) ==
  CASE op = "rot_left_rot" -> left_rot_rec(a[1], a[2], a[3])
    [] op = "rot_cofact" -> cofact_rec(a[1], a[2], a[3])
    [] op = "rot_multiply" -> multiply_rec(a[1], a[2])
    [] op = "rot_odd" -> odd_rec(a[1])
    [] op = "rot_order" -> order_rec(a[1], a[2], a[3])
    [] op = "rot_inverse" -> inverse_rec(a[1])
    [] op = "rot_insert" -> insert_rec(a[1], a[2], a[3])
    [] op = "rot_remove_max" -> remove_max_rec(a[1], a[2])
    [] op = "rot_normalize" -> normalize_rec(a[1], a[2])
    [] op = "rot_extract_one" -> extract_one_rec(a[1])
    [] op = "rot_to_perms" -> to_perms_rec(a[1], a[2])
    [] op = "rot_enumerate" -> enumerate_rec(a[1], a[2])
    [] op = "rot_enumerate2" -> enumerate2_rec(a[1], a[2])
    [] op = "rot_contmax" -> contmax_rec(a[1], a[2], a[3], a[4])

Composition(op, a) ==
  CASE op = "rot_swap" -> swap(a[1], a[2], a[3])
    [] op = "rot_reverse" -> reverse(a[1], a[2], a[3])
    [] op = "rot_insert_public" -> insert(a[1], a[2], a[3])
    [] op = "rot_even" -> even(a[1])
    [] op = "rot_bound" -> rot_bound(a[1], a[2])
    [] op = "rot_from_vector" -> from_vector(a[1])

Perms(f) == {Product(s, LeftRot) : s \in f}
FamilyOf(perms) == {s \in Proper : Product(s, LeftRot) \in perms}

Reversal(l, r) == [i \in Elements |-> IF i \in l..r THEN l + r - i ELSE i]
PlaceOf(pi, v) == CHOOSE i \in Elements : pi[i] = v

\* Without a position and its value, those above it moved down; with one more.
Deleted(pi, u, v) ==
  [i \in Elements |-> IF i = PermSize THEN i
                      ELSE LET w == pi[IF i < u THEN i ELSE i + 1]
                           IN  IF w > v THEN w - 1 ELSE w]
Inserted(pi, p, v) ==
  [i \in 1..(PermSize + 1) |->
     IF i = p THEN v
     ELSE LET j == IF i < p THEN i ELSE i - 1
              w == IF j > PermSize THEN j ELSE pi[j]
          IN  IF w >= v THEN w + 1 ELSE w]
InsertedSet(f, p, v) == {Inserted(pi, p, v) : pi \in Perms(f)}
TooLong(sigma) == sigma[PermSize + 1] # PermSize + 1

\* The weight of the pairs of list that pi puts out of order.
Contradiction(pi, list) ==
  MapThenSumSet(LAMBDA ij : Weights[list[pi[ij[2]]]][list[pi[ij[1]]]], Inversions(pi))

\* The permutation of s without the element k, as the code takes it out: from
\* the top, rotations at or above a threshold that falls by one with each of
\* them become those of one element less.  rotpidd.rst promises a permutation
\* of fewer than k elements instead, which RemovedBelow states.
Lowered(s, k) ==
  LET down == HighestFirst(s)
      Falls(i) == \A j \in 1..i : k - j + 1 \in 1..XOf(down[j])
      Size(i) == IF Falls(i) THEN XOf(down[i]) - 1 ELSE XOf(down[i])
  IN  FoldLeft(LAMBDA pi, i : Then(LeftRot(Size(i), YOf(down[i])), pi),
               Identity(PermSize), Identity(Len(down)))

\* A call the walk makes: the first n of the list are those not used, in order.
WellCalled(used, list, n) ==
  /\ used = Elements \ {list[i] : i \in 1..n}
  /\ \A i, j \in 1..n : i < j => list[i] < list[j]

Promise(op, a) ==
  LET f == a[1]
  IN  CASE op = "rot_left_rot" ->
             FamilyOf({Then(pi, LeftRot(Ordered(a[2], a[3])[1], Ordered(a[2], a[3])[2])) :
                         pi \in Perms(f)})
        [] op = "rot_cofact" -> FamilyOf({Deleted(pi, a[2], a[3]) :
                                   pi \in {pi \in Perms(f) : pi[a[2]] = a[3]}})
        [] op = "rot_multiply" -> FamilyOf({Then(p[1], p[2]) : p \in Perms(f) \X Perms(a[2])})
        [] op = "rot_swap" -> FamilyOf({Then(Trans(a[2], a[3]), pi) : pi \in Perms(f)})
        [] op = "rot_reverse" ->
             FamilyOf({Then(Reversal(Ordered(a[2], a[3])[2], Ordered(a[2], a[3])[1]), pi) :
                         pi \in Perms(f)})
        [] op = "rot_odd" -> FamilyOf({pi \in Perms(f) : Odd(pi)})
        [] op = "rot_even" -> FamilyOf({pi \in Perms(f) : ~Odd(pi)})
        [] op = "rot_bound" -> {s \in f : Cardinality(s) <= a[2]}
        [] op = "rot_order" -> FamilyOf({pi \in Perms(f) : PlaceOf(pi, a[2]) < PlaceOf(pi, a[3])})
        [] op = "rot_inverse" -> FamilyOf({[v \in Elements |-> PlaceOf(pi, v)] : pi \in Perms(f)})
        [] op = "rot_insert" -> FamilyOf({SubSeq(sigma, 1, PermSize) : sigma \in InsertedSet(f, a[2], a[3])})
        [] op = "rot_insert_public" ->
             IF \E sigma \in InsertedSet(f, a[2], a[3]) : TooLong(sigma) THEN Thrown
             ELSE FamilyOf({SubSeq(sigma, 1, PermSize) : sigma \in InsertedSet(f, a[2], a[3])})
        [] op = "rot_remove_max" -> FamilyOf({Lowered(s, a[2]) : s \in f})
        [] op = "rot_normalize" -> {{v \in s : XOf(v) <= a[2]} : s \in f}
        [] op = "rot_from_vector" ->
             LET pi == normalizePerm(f)
             IN  IF \E i \in DOMAIN pi : i > PermSize /\ pi[i] # i THEN Thrown
                 ELSE FamilyOf({Extend(pi)})

Kept(op, a, value) ==
  CASE op \in OfList -> Listed(value, Perms(a[1]), LAMBDA pi : pi)
    [] op = "rot_enumerate2" ->
         Listed(value, Perms(a[1]),
               LAMBDA word : FoldLeft(LAMBDA pi, xy : Then(LeftRot(xy[1], xy[2]), pi),
                                      Identity(PermSize), Reverse(word)))
    [] op = "rot_extract_one" ->
         value \subseteq a[1] /\ Cardinality(value) = (IF a[1] = Empty THEN 0 ELSE 1)
    [] op = "rot_contmax" ->
         a[1] # Empty /\ top_x(a[1]) <= a[4] /\ WellCalled(a[2], a[3], a[4])
           => value = Max({Contradiction(pi, a[3]) : pi \in Perms(a[1])})
    [] OTHER -> value = Promise(op, a)

CallsOf(op) ==
  LET fs == SUBSET Proper
      args ==
        CASE op = "rot_insert" -> {a \in fs \X Elements \X Elements : InsertFits(a[1], a[2], a[3])}
          [] op \in OfPosition \cup {"rot_insert_public"} -> fs \X Elements \X Elements
          [] op = "rot_order" -> {a \in fs \X Elements \X Elements : a[2] # a[3]}
          [] op = "rot_multiply" -> fs \X Factors
          [] op \in OfNumber -> fs \X (0..PermSize)
          [] op \in OfOne -> {<<f>> : f \in fs}
          [] op \in OfList -> {<<f, Identity(PermSize)>> : f \in fs}
          [] op = "rot_enumerate2" -> {<<f, <<>>>> : f \in fs}
          [] op = "rot_contmax" -> {<<f, {}, Identity(PermSize), PermSize>> : f \in fs}
          [] op = "rot_from_vector" ->
               {<<[i \in DOMAIN pi |-> pi[i] * pi[i]]>> : pi \in UNION {Words(n) : n \in 0..(PermSize + 1)}}
  IN  {[op |-> op, args |-> a] : a \in args}
=============================================================================
