------------------------------- MODULE SeqBDD -------------------------------
(***************************************************************************)
(* Sets of sequences of symbols (seqbdd.h).  A SeqBDD is a ZDD whose hi    *)
(* children may have any level: the lo chain orders the first symbols, hi  *)
(* is the set of what follows.  As in Family the set determines the        *)
(* diagram: its top is the highest first symbol, lo the sequences that     *)
(* begin otherwise.  The operations of zdd_ops.cpp are run on diagrams     *)
(* they were not written for, and have definitions of their own here.      *)
(***************************************************************************)
EXTENDS Family

CONSTANTS SeqFirsts, SeqSeconds     \* sets passed as first and second operand

RECURSIVE union_rec(_, _), intersec_rec(_, _), subtract_rec(_, _), onset0(_, _),
          concat(_, _), quotient(_, _), print_seq_rec(_, _, _), len(_)

Epsilon == {<<>>}
Constant(f) == f \in {Empty, Epsilon}
Symbols(f) == {s[1] : s \in f \ Epsilon}
Top(f) == CHOOSE v \in Symbols(f) : \A w \in Symbols(f) : LevelOf(w) <= LevelOf(v)
LevelOfTop(f) == Max({LevelOf(v) : v \in Symbols(f)} \cup {0})
Rest(f, v) == {Tail(s) : s \in {s \in f : s # <<>> /\ s[1] = v}}
Below(f, v) == {s \in f : s = <<>> \/ s[1] # v}
SeqLo(f) == Below(f, Top(f))
SeqHi(f) == Rest(f, Top(f))

\* What a call gives when it throws, a node that is no diagram of a set, and
\* what is listed when the array is too short.
Refused == {<<-1>>}
Misplaced == {<<0>>}
Overrun == <<<<-1>>>>

\* ZDD::getnode_raw does not look at the levels of the children.  A lo child
\* at or above v would give a diagram that is not the one of any set.
SeqNode(v, lo, hi) ==
  IF LevelOfTop(lo) >= LevelOf(v) THEN Misplaced
  ELSE lo \cup {<<v>> \o s : s \in hi}

-----------------------------------------------------------------------------
\* The set operations split both operands at the higher of their tops.
union_rec(f, g) ==
  IF f = Empty THEN g
  ELSE IF g = Empty \/ f = g THEN f
  ELSE LET v == Top(f \cup g)
       IN  SeqNode(v, union_rec(Below(f, v), Below(g, v)), union_rec(Rest(f, v), Rest(g, v)))

intersec_rec(f, g) ==
  IF Empty \in {f, g} THEN Empty
  ELSE IF f = g THEN f
  ELSE LET v == Top(f \cup g)
       IN  SeqNode(v, intersec_rec(Below(f, v), Below(g, v)),
                      intersec_rec(Rest(f, v), Rest(g, v)))

subtract_rec(f, g) ==
  IF f = Empty \/ f = g THEN Empty
  ELSE IF g = Empty THEN f
  ELSE LET v == Top(f \cup g)
       IN  SeqNode(v, subtract_rec(Below(f, v), Below(g, v)),
                      subtract_rec(Rest(f, v), Rest(g, v)))

-----------------------------------------------------------------------------
\* One symbol.  onset0 walks down the lo chain to the level of v, and only
\* then asks the ZDD, which would search the hi children as well.
push(f, v) == SeqNode(v, Empty, f)

onset0(f, v) ==
  IF LevelOfTop(f) > LevelOf(v) THEN onset0(SeqLo(f), v)
  ELSE IF LevelOfTop(f) < LevelOf(v) THEN Empty
  ELSE SeqHi(f)

onset(f, v) == push(onset0(f, v), v)

offset(f, v) ==
  IF LevelOfTop(f) = LevelOf(v) THEN SeqLo(f)
  ELSE subtract_rec(f, push(onset0(f, v), v))

-----------------------------------------------------------------------------
concat(f, g) ==
  IF Empty \in {f, g} THEN Empty
  ELSE IF f = Epsilon THEN g
  ELSE IF g = Epsilon THEN f
  ELSE union_rec(push(concat(onset0(f, Top(f)), g), Top(f)), concat(SeqLo(f), g))

\* The left quotient, over the symbols that begin the divisor.
quotient(f, p) ==
  IF p = Empty THEN Refused
  ELSE IF p = Epsilon THEN f
  ELSE IF f = p THEN Epsilon
  ELSE IF Constant(f) \/ LevelOfTop(f) < LevelOfTop(p) THEN Empty
  ELSE LET q == quotient(onset0(f, Top(p)), onset0(p, Top(p)))
           p0 == offset(p, Top(p))
       IN  IF q = Empty \/ p0 = Empty THEN q
           ELSE intersec_rec(q, quotient(offset(f, Top(p)), p0))

remainder(f, p) ==
  IF p = Empty THEN Refused ELSE subtract_rec(f, concat(quotient(f, p), p))

-----------------------------------------------------------------------------
\* What is printed: the levels of the symbols of every sequence.  arr holds
\* those of the symbols above, in an array made for the longest sequence.
len(f) == IF Constant(f) THEN 0
          ELSE LET lo == len(SeqLo(f))  hi == len(SeqHi(f)) + 1
               IN  IF lo > hi THEN lo ELSE hi

HasEpsilon(f) == intersec_rec(f, Epsilon) = Epsilon
Printed(f, arr) == IF HasEpsilon(f) THEN <<arr>> ELSE <<>>
WithoutEpsilon(f) == IF HasEpsilon(f) THEN subtract_rec(f, Epsilon) ELSE f

print_seq_rec(f, arr, size) ==
  LET g == WithoutEpsilon(f)
  IN  IF g = Empty THEN Printed(f, arr)
      ELSE IF Len(arr) >= size THEN Overrun
      ELSE Printed(f, arr)
             \o print_seq_rec(onset0(g, Top(g)), Append(arr, LevelOfTop(g)), size)
             \o print_seq_rec(offset(g, Top(g)), arr, size)

print_seq_iter(a, got) ==
  LET f == a[1]  arr == a[2]  size == a[3]  g == WithoutEpsilon(f)
  IN  IF g = Empty THEN Answer(Printed(f, arr))
      ELSE IF Len(arr) >= size THEN Answer(Overrun)
      ELSE Relay(<<<<onset0(g, Top(g)), Append(arr, LevelOfTop(g)), size>>,
                   <<offset(g, Top(g)), arr, size>>>>,
                 got, Printed(f, arr) \o got[1] \o got[2])

\* print_seq and seq_str make the array before they choose the form.
ArrayFor(f) == IF len(f) > 0 THEN len(f) ELSE 1
-----------------------------------------------------------------------------
(***************************************************************************)
(* The calls, in the frames of their loops and whole, and their promises.  *)
(***************************************************************************)
OfSymbol == {"seq_push", "seq_onset0", "seq_onset", "seq_offset"}
OfSets == {"seq_union", "seq_intersec", "seq_subtract", "seq_concat", "seq_quotient",
           "seq_remainder"}
Loops == {"seq_str"}
Wholes == OfSymbol \cup OfSets

FrameOf(op, a, got) == print_seq_iter(a, got)

Recursive(op, a) == print_seq_rec(a[1], a[2], a[3])

Composition(op, a) ==
  CASE op = "seq_push" -> push(a[1], a[2])
    [] op = "seq_onset0" -> onset0(a[1], a[2])
    [] op = "seq_onset" -> onset(a[1], a[2])
    [] op = "seq_offset" -> offset(a[1], a[2])
    [] op = "seq_union" -> union_rec(a[1], a[2])
    [] op = "seq_intersec" -> intersec_rec(a[1], a[2])
    [] op = "seq_subtract" -> subtract_rec(a[1], a[2])
    [] op = "seq_concat" -> concat(a[1], a[2])
    [] op = "seq_quotient" -> quotient(a[1], a[2])
    [] op = "seq_remainder" -> remainder(a[1], a[2])

Concatenated(f, g) == {s[1] \o s[2] : s \in f \X g}

\* The tails that give a sequence of f after every sequence of p
\* (ops_seqbdd.rst).
LeftQuotient(f, p) ==
  {t \in UNION {Suffixes(s) : s \in f} : \A s \in p : s \o t \in f}

\* The code leaves out the tails that, after a sequence s of p, continue as
\* another sequence of p does.  The promises of the quotient and the remainder
\* are what it computes; that the documented quotient has those tails, and the
\* documented remainder others, is what QuotientIsIntersection and
\* RemainderIdentity show.
Continued(p, t) ==
  \E s, u \in p : t # <<>> /\ IsPrefix(Append(s, t[1]), u)

Promise(op, a) ==
  LET f == a[1]  g == a[2]
      q == {t \in LeftQuotient(f, g) : ~Continued(g, t)}
  IN  CASE op = "seq_push" -> {<<g>> \o s : s \in f}
        [] op = "seq_onset0" -> Rest(f, g)
        [] op = "seq_onset" -> {s \in f : s # <<>> /\ s[1] = g}
        [] op = "seq_offset" -> {s \in f : s = <<>> \/ s[1] # g}
        [] op = "seq_union" -> f \cup g
        [] op = "seq_intersec" -> f \cap g
        [] op = "seq_subtract" -> f \ g
        [] op = "seq_concat" -> Concatenated(f, g)
        [] op = "seq_quotient" -> IF g = Empty THEN Refused ELSE q
        [] op = "seq_remainder" -> IF g = Empty THEN Refused ELSE f \ Concatenated(q, g)

\* A listing names every sequence once.
Kept(op, a, value) ==
  IF op = "seq_str"
  THEN /\ Len(value) = Cardinality(a[1])
       /\ ToSet(value) = {[i \in DOMAIN s |-> LevelOf(s[i])] : s \in a[1]}
  ELSE value = Promise(op, a)

CallsOf(op) ==
  LET args == CASE op = "seq_str" -> {<<f, <<>>, ArrayFor(f)>> : f \in SeqFirsts}
                [] op \in OfSymbol -> SeqFirsts \X Vars
                [] op \in OfSets -> SeqFirsts \X SeqSeconds
  IN  {[op |-> op, args |-> a] : a \in args}
=============================================================================
