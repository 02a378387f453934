------------------------------- MODULE NatRec -------------------------------
(***************************************************************************)
(* The functions h[n \in Nat] == Step(n, IF n = 0 THEN None ELSE h[n - 1]) *)
(* exist, and induction over the numbers, stated for a set: a theorem with *)
(* an operator parameter cannot be used by the provers, one of an INSTANCE *)
(* of a module with an operator constant can.                              *)
(***************************************************************************)
EXTENDS Naturals, FiniteSets, FiniteSetTheorems, TLAPS

CONSTANTS Step(_, _), None

IsRec(h) == h = [n \in Nat |-> Step(n, IF n = 0 THEN None ELSE h[n - 1])]

\* A set of numbers with 0 that is closed under adding 1 is all of Nat: else
\* adding 1 would inject its part below a number n that it lacks into the
\* same part without 0.
LEMMA Induct ==
  ASSUME NEW S, 0 \in S, \A n \in Nat : n \in S => n + 1 \in S
  PROVE  Nat \subseteq S
<1> SUFFICES ASSUME NEW n \in Nat, n \notin S PROVE FALSE
  OBVIOUS
<1> DEFINE U == {u \in 0..n : u \in S}
           s == [u \in U |-> u + 1]
<1>1. 0 \in U
  OBVIOUS
<1>2. \A u \in U : u + 1 \in U \ {0}
  OBVIOUS
<1>3. IsFiniteSet(U) /\ IsFiniteSet(U \ {0})
  <2>1. IsFiniteSet(0..n)
    BY FS_Interval
  <2>2. U \subseteq 0..n /\ U \ {0} \subseteq 0..n
    OBVIOUS
  <2>3. QED
    BY <2>1, <2>2, FS_Subset
<1>4. Cardinality(U) <= Cardinality(U \ {0})
  <2>1. s \in Injection(U, U \ {0})
    BY <1>2 DEF Injection, IsInjective
  <2> HIDE DEF U, s
  <2>2. QED
    BY <1>3, <2>1, FS_Injection
<1>5. Cardinality(U \ {0}) = Cardinality(U) - 1
  BY <1>1, <1>3, FS_RemoveElement
<1>6. Cardinality(U) \in Nat
  BY <1>3, FS_CardinalityType
<1>7. QED
  BY <1>4, <1>5, <1>6

\* The first n + 1 values of such a function.
Part(n, g) == \A i \in 0..n : g[i] = Step(i, IF i = 0 THEN None ELSE g[i - 1])

LEMMA PartsAgree ==
  ASSUME NEW n \in Nat, NEW m \in Nat, NEW g, NEW h, Part(n, g), Part(m, h)
  PROVE  \A i \in Nat : i <= n /\ i <= m => g[i] = h[i]
<1> DEFINE S == {i \in Nat : i <= n /\ i <= m => g[i] = h[i]}
<1>1. 0 \in S
  BY DEF Part
<1>2. ASSUME NEW i \in Nat, i \in S
      PROVE  i + 1 \in S
  <2> SUFFICES ASSUME i + 1 <= n, i + 1 <= m
               PROVE  g[i + 1] = h[i + 1]
    OBVIOUS
  <2>1. i + 1 \in 0..n /\ i + 1 \in 0..m /\ i + 1 # 0 /\ (i + 1) - 1 = i /\ g[i] = h[i]
    BY <1>2
  <2>2. g[i + 1] = Step(i + 1, g[i]) /\ h[i + 1] = Step(i + 1, h[i])
    BY <2>1 DEF Part
  <2>3. QED
    BY <2>1, <2>2
<1> HIDE DEF S
<1>3. Nat \subseteq S
  BY <1>1, <1>2, Induct
<1>4. QED
  BY <1>3 DEF S

LEMMA PartExists == \A n \in Nat : \E g : Part(n, g)
<1> DEFINE S == {n \in Nat : \E g : Part(n, g)}
<1>1. 0 \in S
  <2>1. Part(0, [i \in {0} |-> Step(0, None)])
    BY DEF Part
  <2>2. QED
    BY <2>1
<1>2. ASSUME NEW n \in Nat, n \in S
      PROVE  n + 1 \in S
  <2>1. PICK g : Part(n, g)
    BY <1>2
  <2> DEFINE h == [i \in 0..(n + 1) |-> IF i <= n THEN g[i] ELSE Step(i, g[n])]
  <2>2. ASSUME NEW i \in 0..(n + 1)
        PROVE  h[i] = Step(i, IF i = 0 THEN None ELSE h[i - 1])
    <3>1. CASE i = 0
      BY <2>1, <3>1 DEF Part
    <3>2. CASE i # 0 /\ i <= n
      BY <2>1, <3>2 DEF Part
    <3>3. CASE i = n + 1
      <4>1. h[i - 1] = g[n] /\ h[i] = Step(i, g[n])
        BY <3>3
      <4>2. i # 0
        BY <3>3
      <4> HIDE DEF h
      <4>3. QED
        BY <4>1, <4>2
    <3>4. QED
      BY <3>1, <3>2, <3>3
  <2> HIDE DEF h
  <2>3. Part(n + 1, h)
    BY <2>2 DEF Part
  <2>4. QED
    BY <2>3
<1> HIDE DEF S
<1>3. Nat \subseteq S
  BY <1>1, <1>2, Induct
<1>4. QED
  BY <1>3 DEF S

\* The function that takes its n-th value from the part of length n.
LEMMA RecExists == \E h : IsRec(h)
<1> DEFINE part(n) == CHOOSE g : Part(n, g)
           h == [n \in Nat |-> part(n)[n]]
<1>1. \A n \in Nat : Part(n, part(n))
  BY PartExists
<1>2. ASSUME NEW n \in Nat
      PROVE  h[n] = Step(n, IF n = 0 THEN None ELSE h[n - 1])
  <2>1. h[n] = Step(n, IF n = 0 THEN None ELSE part(n)[n - 1])
    BY <1>1 DEF Part
  <2>2. ASSUME n # 0
        PROVE  part(n)[n - 1] = h[n - 1]
    <3>1. n - 1 \in Nat /\ n - 1 <= n
      BY <2>2
    <3>2. Part(n, part(n)) /\ Part(n - 1, part(n - 1))
      BY <1>1, <3>1
    <3> HIDE DEF part
    <3>3. part(n)[n - 1] = part(n - 1)[n - 1]
      BY <3>1, <3>2, PartsAgree
    <3>4. QED
      BY <3>1, <3>3
  <2> HIDE DEF h, part
  <2>3. CASE n = 0
    BY <2>1, <2>3
  <2>4. CASE n # 0
    BY <2>1, <2>2, <2>4
  <2>5. QED
    BY <2>3, <2>4
<1>3. h = [n \in Nat |-> h[n]]
  OBVIOUS
<1> HIDE DEF h
<1>4. [n \in Nat |-> h[n]] = [n \in Nat |-> Step(n, IF n = 0 THEN None ELSE h[n - 1])]
  BY <1>2, Zenon
<1>5. IsRec(h)
  BY <1>3, <1>4 DEF IsRec
<1>6. QED
  BY <1>5

\* What h[n \in Nat] == Step(n, IF n = 0 THEN None ELSE h[n - 1]) denotes has
\* the values it is written to have.
LEMMA RecUnfolds ==
  LET h == CHOOSE g : IsRec(g)
  IN  h[0] = Step(0, None) /\ \A n \in Nat : h[n + 1] = Step(n + 1, h[n])
<1> DEFINE h == CHOOSE g : IsRec(g)
<1>1. IsRec(h)
  BY RecExists
<1> HIDE DEF h
<1>2. \A n \in Nat : h[n] = Step(n, IF n = 0 THEN None ELSE h[n - 1])
  <2>1. h = [n \in Nat |-> Step(n, IF n = 0 THEN None ELSE h[n - 1])]
    BY <1>1 DEF IsRec
  <2> DEFINE E(n) == Step(n, IF n = 0 THEN None ELSE h[n - 1])
  <2>2. h = [n \in Nat |-> E(n)]
    BY <2>1
  <2> HIDE DEF E
  <2>3. \A n \in Nat : h[n] = E(n)
    BY <2>2
  <2>4. QED
    BY <2>3 DEF E
<1>3. h[0] = Step(0, None)
  BY <1>2
<1>4. ASSUME NEW n \in Nat
      PROVE  h[n + 1] = Step(n + 1, h[n])
  <2>1. n + 1 \in Nat /\ n + 1 # 0 /\ (n + 1) - 1 = n
    OBVIOUS
  <2>2. h[n + 1] = Step(n + 1, IF n + 1 = 0 THEN None ELSE h[(n + 1) - 1])
    BY <1>2, <2>1
  <2>3. QED
    BY <2>1, <2>2
<1>5. QED
  BY <1>3, <1>4 DEF h
=============================================================================
