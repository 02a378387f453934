------------------------ MODULE ZddIterativeProofs ------------------------
(***************************************************************************)
(* The iterative ZDD operations keep their promises for every number of    *)
(* variables and every order of them.  A pass of a loop is right when what *)
(* it answers or keeps is the promise and what it asks for is in range     *)
(* (PassRight).  First each of the 17 bodies is shown right for one pass,  *)
(* from facts on families and their sides; then the loop over the explicit *)
(* stack and the cache, for any bodies that are right.                     *)
(***************************************************************************)
EXTENDS ZddIterative, FiniteSetTheorems, TLAPS

(***************************************************************************)
(* The loop, for any body that is right for one pass (BodyRight).          *)
(***************************************************************************)
IsFrame(fr, op) ==
  /\ fr = [op |-> fr.op, args |-> fr.args, got |-> fr.got]
  /\ fr.op = op /\ fr.args \in ArgsOf(op)
  /\ \E S : fr.got \in Seq(S)

Links(low, fr) ==
  \E does \in {ZddLoop(low.op, low.args, low.got)} :
    does.kind = "ask" /\ fr.args = does.sub

\* The stack s of a call c.
StackFor(c, s) ==
  /\ \E S : s \in Seq(S)
  /\ \A i \in 1..Len(s) :
       /\ IsFrame(s[i], c.op)
       /\ Asked(s[i].op, s[i].args, s[i].got)
       /\ i = 1 => s[i].args = c.args
       /\ i > 1 => Links(s[i - 1], s[i])

LoopInv ==
  IF Loop!Idle THEN stack = <<>> /\ memo = Loop!NoMemo
  ELSE /\ call.op \in ZddLoopOps /\ call.args \in ArgsOf(call.op)
       /\ StackFor(call, stack)
       /\ EntriesRight
       /\ stack = <<>> => result = LoopPromise(call.op, call.args)

\* What a pass of the loop of op over a frame with arguments a does is right.
PassRight(op, a, does) ==
  /\ does.kind \in {"answer", "keep", "ask"}
  /\ does.kind # "ask" => does.value = LoopPromise(op, a)
  /\ does.kind = "keep" => \A k \in does.key : does.value = LoopPromise(op, k)
  /\ does.kind = "ask" => does.sub \in ArgsOf(op)

-----------------------------------------------------------------------------
(***************************************************************************)
(* Families and their sides.                                               *)
(***************************************************************************)
LEMMA HasMax ==
  ASSUME NEW n \in Nat, NEW T, T \subseteq 0..n, T # {}
  PROVE  /\ Max(T) \in T
         /\ \A y \in T : y <= Max(T)
<1>1. \E x \in T : \A y \in T : x >= y
  <2> SUFFICES ASSUME \A x \in T : \E y \in T : x < y PROVE FALSE
    OBVIOUS
  <2> DEFINE U == {u \in 0..n : \E t \in T : u < t}
             W == U \cup T
             s == [u \in W |-> u + 1]
  <2>1. \A u \in W : u + 1 \in W
    <3>1. ASSUME NEW u \in W PROVE u + 1 \in W
      <4>1. PICK t \in T : u < t
        OBVIOUS
      <4>2. PICK y \in T : t < y
        OBVIOUS
      <4>3. u + 1 \in 0..n /\ u + 1 < y
        BY <4>1, <4>2
      <4>4. QED
        BY <4>2, <4>3
    <3>2. QED
      BY <3>1
  <2>2. PICK l \in W : \A u \in W : l <= u
    <3>1. 0 \in W
      <4>1. PICK t \in T : TRUE
        OBVIOUS
      <4>2. PICK y \in T : t < y
        OBVIOUS
      <4>3. 0 \in 0..n /\ 0 < y
        BY <4>1, <4>2
      <4>4. QED
        BY <4>3
    <3>2. \A u \in W : 0 <= u
      OBVIOUS
    <3>3. QED
      BY <3>1, <3>2
  <2>3. IsFiniteSet(W) /\ IsFiniteSet(W \ {l})
    <3>1. IsFiniteSet(0..n)
      BY FS_Interval
    <3>2. W \subseteq 0..n /\ W \ {l} \subseteq 0..n
      OBVIOUS
    <3>3. QED
      BY <3>1, <3>2, FS_Subset
  <2>4. Cardinality(W) <= Cardinality(W \ {l})
    <3>1. W \subseteq Int /\ \A u \in W : u + 1 # l
      <4>1. W \subseteq Int
        <5>1. W \subseteq 0..n
          OBVIOUS
        <5> HIDE DEF W
        <5>2. QED
          BY <5>1
      <4> HIDE DEF W
      <4>2. ASSUME NEW u \in W PROVE u + 1 # l
        <5>1. l <= u /\ l \in Int /\ u \in Int
          BY <2>2, <4>1
        <5>2. QED
          BY <5>1
      <4>3. QED
        BY <4>1, <4>2
    <3> HIDE DEF W
    <3>2. s \in [W -> W \ {l}]
      BY <2>1, <3>1
    <3>3. \A a, b \in W : s[a] = s[b] => a = b
      BY <3>1
    <3>4. s \in Injection(W, W \ {l})
      BY <3>2, <3>3 DEF Injection, IsInjective
    <3> HIDE DEF s
    <3>5. QED
      BY <2>3, <3>4, FS_Injection
  <2>5. Cardinality(W \ {l}) = Cardinality(W) - 1 /\ Cardinality(W) \in Nat
    BY <2>2, <2>3, FS_RemoveElement, FS_CardinalityType
  <2>6. QED
    BY <2>4, <2>5
<1>2. PICK x : x = Max(T)
  OBVIOUS
<1>3. x \in T /\ \A y \in T : x >= y
  BY <1>1, <1>2 DEF Max
<1>4. QED
  BY <1>2, <1>3

\* var2level numbers the variables, each with its own level.
LEMMA VarsFacts ==
  /\ \E n \in Nat : Vars = 1..n
  /\ \A v \in Vars : /\ LevelOf(v) = var2level[v]
                     /\ var2level[v] \in Nat /\ var2level[v] > 0 /\ v \in Nat
  /\ \A v, w \in Vars : var2level[v] = var2level[w] => v = w
<1>1. Cardinality(Vars) \in Nat
  BY FamilyAssumption, FS_CardinalityType
<1>2. \A v \in Vars : var2level[v] \in Vars /\ LevelOf(v) = var2level[v]
  BY FamilyAssumption DEF LevelOf, Vars
<1>3. QED
  BY <1>1, <1>2, FamilyAssumption

\* Every variable of f is, or is below, v; every one is below v.
UpTo(f, v) == \A w \in Support(f) : var2level[w] <= var2level[v]
Below(f, v) == \A w \in Support(f) : var2level[w] < var2level[v]

\* The variables of a family are those of its sets; a terminal has none.
LEMMA SupportFacts ==
  ASSUME NEW f \in Families
  PROVE  /\ Support(f) \subseteq Vars
         /\ \A s \in f : s \subseteq Support(f)
         /\ Terminal(f) <=> Support(f) = {}
<1>1. Support(f) \subseteq Vars /\ \A s \in f : s \subseteq Support(f)
  BY DEF Families, Support
<1>2. ASSUME Terminal(f) PROVE Support(f) = {}
  BY <1>2 DEF Terminal, Empty, Single, Support
<1>3. ASSUME Support(f) = {}, f # {} PROVE f = {{}}
  <2>1. \A s \in f : s = {}
    BY <1>1, <1>3
  <2>2. QED
    BY <1>3, <2>1
<1>4. QED
  BY <1>1, <1>2, <1>3 DEF Terminal, Empty, Single

\* The level of a family is that of its top variable, 0 for a terminal.
LEMMA LevelFacts ==
  ASSUME NEW f \in Families
  PROVE  /\ Level(f) \in Nat
         /\ \A w \in Support(f) : var2level[w] <= Level(f)
         /\ Terminal(f) => Level(f) = 0
         /\ ~ Terminal(f) => /\ TopVar(f) \in Support(f)
                             /\ Level(f) = var2level[TopVar(f)]
                             /\ Level(f) > 0
<1> DEFINE T == {LevelOf(v) : v \in Support(f)} \cup {0}
<1>1. PICK n \in Nat : Vars = 1..n
  BY VarsFacts
<1>2. \A v \in Support(f) : v \in Vars /\ LevelOf(v) = var2level[v]
  BY SupportFacts, VarsFacts
<1>3. \A v \in Vars : var2level[v] \in 1..n
  BY <1>1, FamilyAssumption
<1>4. T \subseteq 0..n /\ T # {}
  BY <1>2, <1>3
<1> HIDE DEF T
<1>5. Max(T) \in T /\ \A y \in T : y <= Max(T)
  BY <1>4, HasMax
<1>6. Level(f) = Max(T)
  BY DEF Level, T
<1>7. \A w \in Support(f) : var2level[w] \in T
  BY <1>2 DEF T
<1>8. Level(f) \in 0..n
  BY <1>4, <1>5, <1>6
<1>9. CASE Terminal(f)
  <2>1. T = {0}
    BY <1>9, SupportFacts DEF T
  <2>2. QED
    BY <1>5, <1>6, <1>7, <1>8, <1>9, <2>1
<1>10. CASE ~ Terminal(f)
  <2>1. PICK u : u \in Support(f)
    BY <1>10, SupportFacts
  <2>2. var2level[u] \in T /\ var2level[u] > 0
    BY <1>2, <1>3, <2>1 DEF T
  <2>3. Level(f) > 0
    <3>1. var2level[u] <= Level(f) /\ var2level[u] \in 0..n
      BY <1>4, <1>5, <1>6, <2>2
    <3>2. QED
      BY <1>8, <2>2, <3>1
  <2>4. PICK x \in Support(f) : Level(f) = var2level[x]
    <3>1. Level(f) \in T /\ Level(f) # 0
      BY <1>5, <1>6, <1>8, <2>3
    <3>2. PICK x \in Support(f) : Level(f) = LevelOf(x)
      BY <3>1 DEF T
    <3>3. QED
      BY <1>2, <3>2
  <2>5. \A w \in Support(f) : LevelOf(w) <= LevelOf(x)
    BY <1>2, <1>5, <1>6, <1>7, <2>4
  <2>6. PICK t : t = TopVar(f)
    OBVIOUS
  <2>7. t \in Support(f) /\ \A w \in Support(f) : LevelOf(w) <= LevelOf(t)
    BY <2>5, <2>6 DEF TopVar
  <2>8. var2level[x] <= var2level[t] /\ var2level[t] <= var2level[x]
    BY <1>2, <2>4, <2>5, <2>7
  <2>9. Level(f) = var2level[t]
    <3>1. var2level[x] \in Int /\ var2level[t] \in Int
      BY <1>2, <1>3, <2>4, <2>7
    <3>2. QED
      BY <2>4, <2>8, <3>1
  <2>10. QED
    BY <1>5, <1>6, <1>7, <1>8, <1>10, <2>3, <2>6, <2>7, <2>9
<1>11. QED
  BY <1>9, <1>10

\* The lo and the hi side of a family at any variable.
LEMMA SideFacts ==
  ASSUME NEW f \in Families, NEW v \in Vars
  PROVE  /\ Off(f, v) \in Families /\ On(f, v) \in Families
         /\ \A s : s \in Off(f, v) <=> s \in f /\ v \notin s
         /\ \A s : s \in On(f, v) <=> v \notin s /\ s \cup {v} \in f
         /\ Support(Off(f, v)) \subseteq Support(f) \ {v}
         /\ Support(On(f, v)) \subseteq Support(f) \ {v}
<1>1. \A s : s \in Off(f, v) <=> s \in f /\ v \notin s
  BY DEF Off
<1>2. \A s : s \in On(f, v) <=> v \notin s /\ s \cup {v} \in f
  <2>1. ASSUME NEW s, s \in On(f, v) PROVE v \notin s /\ s \cup {v} \in f
    <3>1. PICK t \in f : v \in t /\ s = t \ {v}
      BY <2>1 DEF On, Off
    <3>2. s \cup {v} = t
      BY <3>1
    <3>3. QED
      BY <3>1, <3>2
  <2>2. ASSUME NEW s, v \notin s, s \cup {v} \in f PROVE s \in On(f, v)
    <3>1. s = (s \cup {v}) \ {v}
      BY <2>2
    <3>2. s \cup {v} \in f \ Off(f, v)
      BY <1>1, <2>2
    <3>3. QED
      BY <3>1, <3>2 DEF On
  <2>3. QED
    BY <2>1, <2>2
<1>3. Off(f, v) \subseteq f /\ Off(f, v) \in Families
  BY <1>1 DEF Families
<1>4. \A s \in On(f, v) : s \subseteq Support(f) \ {v}
  BY <1>2 DEF Support
<1>5. \A s \in Off(f, v) : s \subseteq Support(f) \ {v}
  BY <1>1 DEF Support
<1>6. On(f, v) \in Families
  BY <1>4, SupportFacts DEF Families
<1>7. QED
  BY <1>1, <1>2, <1>3, <1>4, <1>5, <1>6 DEF Support

\* The sides at the top variable have only variables below it.
LEMMA SidesBelow ==
  ASSUME NEW f \in Families, NEW v \in Vars, UpTo(f, v)
  PROVE  Below(Off(f, v), v) /\ Below(On(f, v), v)
<1>1. \A w \in Support(f) \ {v} : var2level[w] < var2level[v]
  <2>1. ASSUME NEW w \in Support(f) \ {v} PROVE var2level[w] < var2level[v]
    <3>1. w \in Vars /\ w # v /\ var2level[w] <= var2level[v]
      BY SupportFacts DEF UpTo
    <3>2. var2level[w] # var2level[v] /\ var2level[w] \in Int /\ var2level[v] \in Int
      BY <3>1, VarsFacts
    <3>3. QED
      BY <3>1, <3>2
  <2>2. QED
    BY <2>1
<1>2. QED
  BY <1>1, SideFacts DEF Below

\* What getnode makes of two sides that are below the variable.
LEMMA NodeFacts ==
  ASSUME NEW lo \in Families, NEW hi \in Families, NEW v \in Vars,
         Below(lo, v), Below(hi, v)
  PROVE  /\ Node(v, lo, hi) \in Families
         /\ \A s : s \in Node(v, lo, hi) <=>
                     (v \notin s /\ s \in lo) \/ (v \in s /\ s \ {v} \in hi)
<1>1. Thrown \notin {lo, hi}
  <2>1. -1 \notin Vars
    BY VarsFacts
  <2>2. QED
    BY <2>1 DEF Thrown, Families
<1>2. \A w \in Support(lo) \cup Support(hi) : ~ (w < 1 \/ LevelOf(w) >= LevelOf(v))
  <2>1. ASSUME NEW w \in Support(lo) \cup Support(hi)
        PROVE  ~ (w < 1 \/ LevelOf(w) >= LevelOf(v))
    <3>1. w \in Vars /\ var2level[w] < var2level[v]
      BY SupportFacts DEF Below
    <3>2. /\ LevelOf(w) = var2level[w] /\ LevelOf(v) = var2level[v]
          /\ var2level[w] \in Nat /\ var2level[v] \in Nat
      BY <3>1, VarsFacts
    <3>3. ~ (w < 1)
      <4>1. PICK n \in Nat : Vars = 1..n
        BY VarsFacts
      <4>2. QED
        BY <3>1, <4>1
    <3>4. QED
      BY <3>1, <3>2, <3>3
  <2>2. QED
    BY <2>1
<1>3. Node(v, lo, hi) = lo \cup {s \cup {v} : s \in hi}
  BY <1>1, <1>2 DEF Node
<1>4. (\A s \in lo : v \notin s) /\ (\A s \in hi : v \notin s)
  <2>1. ~ (var2level[v] < var2level[v])
    BY VarsFacts
  <2>2. QED
    BY <2>1 DEF Below, Support
<1>5. Node(v, lo, hi) \in Families
  BY <1>3 DEF Families
<1>6. ASSUME NEW s
      PROVE  s \in Node(v, lo, hi) <=> (v \notin s /\ s \in lo) \/ (v \in s /\ s \ {v} \in hi)
  <2>1. CASE v \in s
    <3>1. s = (s \ {v}) \cup {v}
      BY <2>1
    <3>2. \A t \in hi : s = t \cup {v} => s \ {v} = t
      BY <1>4
    <3>3. s \notin lo
      BY <1>4, <2>1
    <3>4. s \in Node(v, lo, hi) <=> \E t \in hi : s = t \cup {v}
      BY <1>3, <3>3
    <3>5. QED
      BY <2>1, <3>1, <3>2, <3>4
  <2>2. CASE v \notin s
    BY <1>3, <2>2
  <2>3. QED
    BY <2>1, <2>2
<1>7. QED
  BY <1>5, <1>6

\* A family is put together from its sides.
LEMMA NodeIs ==
  ASSUME NEW lo \in Families, NEW hi \in Families, NEW v \in Vars,
         Below(lo, v), Below(hi, v), NEW r,
         \A s : (s \in r <=> (v \notin s /\ s \in lo) \/ (v \in s /\ s \ {v} \in hi))
  PROVE  Node(v, lo, hi) = r
<1>1. \A s : s \in Node(v, lo, hi) <=> (v \notin s /\ s \in lo) \/ (v \in s /\ s \ {v} \in hi)
  BY NodeFacts
<1> HIDE DEF Node
<1>2. \A s : s \in Node(v, lo, hi) <=> s \in r
  BY <1>1
<1>3. QED
  BY <1>2

\* Lo and Hi are the sides at the top variable.
LEMMA TopFacts ==
  ASSUME NEW f \in Families, ~ Terminal(f), NEW v, v = TopVar(f)
  PROVE  /\ v \in Vars /\ v \in Support(f) /\ UpTo(f, v)
         /\ Level(f) = var2level[v]
         /\ Lo(f) = Off(f, v) /\ Hi(f) = On(f, v)
BY LevelFacts, SupportFacts DEF UpTo, Lo, Hi

\* A family without v is its own lo side.
LEMMA WithoutVar ==
  ASSUME NEW f \in Families, NEW v \in Vars, v \notin Support(f)
  PROVE  Off(f, v) = f /\ On(f, v) = {} /\ Down(f, v) = f
<1>1. \A s \in f : v \notin s
  BY DEF Support
<1>2. Off(f, v) = f
  BY <1>1 DEF Off
<1>3. QED
  BY <1>2 DEF On, Down

\* A family of a lower level does not have the variable.
LEMMA BelowFacts ==
  ASSUME NEW f \in Families, NEW v \in Vars, Level(f) < var2level[v]
  PROVE  /\ v \notin Support(f) /\ Below(f, v) /\ UpTo(f, v)
         /\ Off(f, v) = f /\ On(f, v) = {} /\ Down(f, v) = f
<1>1. ASSUME NEW w \in Support(f) PROVE var2level[w] < var2level[v]
  <2>1. var2level[w] <= Level(f) /\ Level(f) \in Nat
    BY LevelFacts
  <2>2. var2level[w] \in Nat /\ var2level[v] \in Nat
    BY SupportFacts, VarsFacts
  <2>3. QED
    BY <2>1, <2>2
<1>2. var2level[v] \in Nat
  BY VarsFacts
<1>3. v \notin Support(f)
  BY <1>1, <1>2
<1>4. \A w \in Support(f) : var2level[w] <= var2level[v]
  <2>1. ASSUME NEW w \in Support(f) PROVE var2level[w] <= var2level[v]
    <3>1. var2level[w] \in Nat
      BY SupportFacts, VarsFacts
    <3>2. QED
      BY <1>1, <1>2, <3>1
  <2>2. QED
    BY <2>1
<1>5. QED
  BY <1>1, <1>3, <1>4, WithoutVar DEF Below, UpTo

\* The higher variable of two operands.
LEMMA HigherFacts ==
  ASSUME NEW f \in Families, NEW g \in Families, ~ Terminal(f), ~ Terminal(g),
         NEW v, v = Higher(f, g)
  PROVE  /\ v \in Vars /\ UpTo(f, v) /\ UpTo(g, v)
         /\ Level(f) > Level(g) => /\ v = TopVar(f) /\ v \in Support(f)
                                  /\ v \notin Support(g) /\ Below(g, v)
         /\ Level(f) < Level(g) => /\ v = TopVar(g) /\ v \in Support(g)
                                  /\ v \notin Support(f) /\ Below(f, v)
         /\ Level(f) = Level(g) => /\ v = TopVar(f) /\ v = TopVar(g)
                                  /\ v \in Support(f) /\ v \in Support(g)
<1> DEFINE x == TopVar(f)
           y == TopVar(g)
<1>1. /\ x \in Vars /\ x \in Support(f) /\ UpTo(f, x) /\ Level(f) = var2level[x]
      /\ y \in Vars /\ y \in Support(g) /\ UpTo(g, y) /\ Level(g) = var2level[y]
  BY TopFacts
<1>2. Level(f) \in Nat /\ Level(g) \in Nat
  BY LevelFacts
<1>3. v = IF Level(f) >= Level(g) THEN x ELSE y
  BY DEF Higher
<1> HIDE DEF x, y
<1>4. CASE Level(f) > Level(g)
  <2>1. v = x /\ Level(g) < var2level[x]
    BY <1>1, <1>2, <1>3, <1>4
  <2>2. QED
    BY <1>1, <1>2, <1>4, <2>1, BelowFacts DEF x
<1>5. CASE Level(f) < Level(g)
  <2>1. v = y /\ Level(f) < var2level[y]
    BY <1>1, <1>2, <1>3, <1>5
  <2>2. QED
    BY <1>1, <1>2, <1>5, <2>1, BelowFacts DEF y
<1>6. CASE Level(f) = Level(g)
  <2>1. v = x /\ x = y
    BY <1>1, <1>2, <1>3, <1>6, VarsFacts
  <2>2. ~ (Level(f) > Level(g)) /\ ~ (Level(f) < Level(g))
    BY <1>2, <1>6
  <2>3. QED
    BY <1>1, <1>6, <2>1, <2>2 DEF x, y
<1>7. QED
  BY <1>2, <1>4, <1>5, <1>6

\* Down goes to the hi side of an operand that has the variable.
LEMMA DownFacts ==
  ASSUME NEW f \in Families, NEW v \in Vars
  PROVE  /\ v \in Support(f) => Down(f, v) = On(f, v)
         /\ v \notin Support(f) => Off(f, v) = f /\ On(f, v) = {} /\ Down(f, v) = f
BY WithoutVar DEF Down

\* What is made of the sets of f and g has no other variables.
LEMMA Inside ==
  ASSUME NEW f \in Families, NEW g \in Families, NEW r,
         \A s \in r : s \subseteq Support(f) \cup Support(g)
  PROVE  /\ r \in Families
         /\ \A v : Below(f, v) /\ Below(g, v) => Below(r, v)
<1>1. Support(f) \subseteq Vars /\ Support(g) \subseteq Vars
  BY SupportFacts
<1>2. Support(r) \subseteq Support(f) \cup Support(g)
  BY DEF Support
<1>3. \A s \in r : s \subseteq Vars
  BY <1>1
<1>4. r \in Families
  BY <1>3 DEF Families
<1>5. QED
  BY <1>2, <1>4 DEF Below

\* The two terminals are families.
LEMMA Constants == Empty \in Families /\ Single \in Families
BY DEF Empty, Single, Families

-----------------------------------------------------------------------------
(***************************************************************************)
(* One pass of a loop that asks for the results of subs, in order.         *)
(***************************************************************************)
Sequence(s) == \E S : s \in Seq(S)

AsksOnly(op, a, key, subs) ==
  \A h : Sequence(h) => \/ ZddLoop(op, a, h).kind \in {"answer", "keep"}
                        \/ \E v : ZddLoop(op, a, h) = Open(key, subs, h, v)

\* Open asks for the next of subs, and once all are got it keeps v.
LEMMA OpenIs ==
  ASSUME NEW key, NEW subs, NEW h, NEW v
  PROVE  /\ Len(h) < Len(subs) => /\ Open(key, subs, h, v).kind = "ask"
                                  /\ Open(key, subs, h, v).sub = subs[Len(h) + 1]
         /\ ~ (Len(h) < Len(subs)) => /\ Open(key, subs, h, v).kind = "keep"
                                      /\ Open(key, subs, h, v).key = key
                                      /\ Open(key, subs, h, v).value = v
BY DEF Open, Ask, Keep

\* A loop that asks only for subs has got the results of the first of them.
LEMMA Prompts ==
  ASSUME NEW op, NEW a, NEW got, Sequence(got), Asked(op, a, got), NEW key, NEW subs,
         Len(subs) \in Nat, AsksOnly(op, a, key, subs)
  PROVE  /\ Len(got) \in Nat /\ Len(got) <= Len(subs)
         /\ \A j \in 1..Len(got) : got[j] = LoopPromise(op, subs[j])
<1>1. PICK S : got \in Seq(S)
  BY DEF Sequence
<1>2. Len(got) \in Nat
  BY <1>1
<1>3. ASSUME NEW j \in 1..Len(got)
      PROVE  j <= Len(subs) /\ got[j] = LoopPromise(op, subs[j])
  <2>1. PICK h : h = SubSeq(got, 1, j - 1)
    OBVIOUS
  <2>2. h \in Seq(S) /\ Len(h) = j - 1
    BY <1>1, <2>1, SMT
  <2>3. ZddLoop(op, a, h).kind = "ask" /\ got[j] = LoopPromise(op, ZddLoop(op, a, h).sub)
    BY <1>3, <2>1 DEF Asked
  <2>4. PICK v : ZddLoop(op, a, h) = Open(key, subs, h, v)
    BY <2>2, <2>3 DEF AsksOnly, Sequence
  <2>5. Len(h) < Len(subs) /\ ZddLoop(op, a, h).sub = subs[Len(h) + 1]
    BY <2>3, <2>4, OpenIs
  <2>6. (j - 1) + 1 = j /\ j <= Len(subs)
    BY <1>2, <2>2, <2>5
  <2>7. QED
    BY <2>2, <2>3, <2>5, <2>6
<1>4. Len(got) <= Len(subs)
  <2>1. CASE Len(got) = 0
    BY <2>1
  <2>2. CASE Len(got) # 0
    <3>1. Len(got) \in 1..Len(got)
      BY <1>2, <2>2
    <3>2. QED
      BY <1>3, <3>1
  <2>3. QED
    BY <2>1, <2>2
<1>5. QED
  BY <1>2, <1>3, <1>4

\* A loop that asks for subs and puts their results together right is right.
LEMMA OpenPass ==
  ASSUME NEW op, NEW a, NEW got, Sequence(got), Asked(op, a, got), NEW key, NEW subs,
         Len(subs) \in Nat, AsksOnly(op, a, key, subs),
         \A j \in 1..Len(subs) : subs[j] \in ArgsOf(op),
         \A k \in key : LoopPromise(op, k) = LoopPromise(op, a),
         NEW v, ZddLoop(op, a, got) = Open(key, subs, got, v),
         (Len(got) = Len(subs) /\ \A j \in 1..Len(subs) : got[j] = LoopPromise(op, subs[j]))
           => v = LoopPromise(op, a)
  PROVE  PassRight(op, a, ZddLoop(op, a, got))
<1>1. /\ Len(got) <= Len(subs) /\ Len(got) \in Nat
      /\ \A j \in 1..Len(got) : got[j] = LoopPromise(op, subs[j])
  BY Prompts
<1>2. CASE Len(got) < Len(subs)
  <2>1. /\ ZddLoop(op, a, got).kind = "ask"
        /\ ZddLoop(op, a, got).sub = subs[Len(got) + 1]
    BY <1>2, OpenIs
  <2>2. Len(got) + 1 \in 1..Len(subs)
    BY <1>1, <1>2
  <2>3. ZddLoop(op, a, got).sub \in ArgsOf(op)
    BY <2>1, <2>2
  <2>4. QED
    BY <2>1, <2>3 DEF PassRight
<1>3. CASE Len(got) = Len(subs)
  <2>1. ~ (Len(got) < Len(subs))
    BY <1>1, <1>3
  <2>2. /\ ZddLoop(op, a, got).kind = "keep"
        /\ ZddLoop(op, a, got).key = key /\ ZddLoop(op, a, got).value = v
    BY <2>1, OpenIs
  <2>3. v = LoopPromise(op, a)
    BY <1>1, <1>3
  <2>4. QED
    BY <2>2, <2>3 DEF PassRight
<1>4. QED
  BY <1>1, <1>2, <1>3

\* The same for one subproblem,
LEMMA OpenOne ==
  ASSUME NEW op, NEW a, NEW got, Sequence(got), Asked(op, a, got), NEW key,
         NEW a1 \in ArgsOf(op), AsksOnly(op, a, key, <<a1>>),
         \A k \in key : LoopPromise(op, k) = LoopPromise(op, a),
         NEW v, ZddLoop(op, a, got) = Open(key, <<a1>>, got, v),
         (Len(got) = 1 /\ got[1] = LoopPromise(op, a1)) => v = LoopPromise(op, a)
  PROVE  PassRight(op, a, ZddLoop(op, a, got))
<1> DEFINE subs == <<a1>>
<1>1. Len(subs) \in Nat /\ Len(subs) = 1 /\ subs[1] = a1
  OBVIOUS
<1>2. AsksOnly(op, a, key, subs) /\ ZddLoop(op, a, got) = Open(key, subs, got, v)
  OBVIOUS
<1> HIDE DEF subs
<1>3. \A j \in 1..Len(subs) : subs[j] \in ArgsOf(op)
  BY <1>1
<1>4. (Len(got) = Len(subs) /\ \A j \in 1..Len(subs) : got[j] = LoopPromise(op, subs[j]))
        => v = LoopPromise(op, a)
  BY <1>1
<1>5. QED
  BY <1>1, <1>2, <1>3, <1>4, OpenPass

\* for two,
LEMMA OpenTwo ==
  ASSUME NEW op, NEW a, NEW got, Sequence(got), Asked(op, a, got), NEW key,
         NEW a1 \in ArgsOf(op), NEW a2 \in ArgsOf(op), AsksOnly(op, a, key, <<a1, a2>>),
         \A k \in key : LoopPromise(op, k) = LoopPromise(op, a),
         NEW v, ZddLoop(op, a, got) = Open(key, <<a1, a2>>, got, v),
         (Len(got) = 2 /\ got[1] = LoopPromise(op, a1) /\ got[2] = LoopPromise(op, a2))
           => v = LoopPromise(op, a)
  PROVE  PassRight(op, a, ZddLoop(op, a, got))
<1> DEFINE subs == <<a1, a2>>
<1>1. Len(subs) \in Nat /\ Len(subs) = 2 /\ subs[1] = a1 /\ subs[2] = a2
  OBVIOUS
<1>2. AsksOnly(op, a, key, subs) /\ ZddLoop(op, a, got) = Open(key, subs, got, v)
  OBVIOUS
<1> HIDE DEF subs
<1>3. \A j \in 1..Len(subs) : subs[j] \in ArgsOf(op)
  <2>1. \A j \in 1..2 : j = 1 \/ j = 2
    OBVIOUS
  <2>2. QED
    BY <1>1, <2>1
<1>4. (Len(got) = Len(subs) /\ \A j \in 1..Len(subs) : got[j] = LoopPromise(op, subs[j]))
        => v = LoopPromise(op, a)
  <2>1. 1 \in 1..2 /\ 2 \in 1..2
    OBVIOUS
  <2>2. QED
    BY <1>1, <2>1
<1>5. QED
  BY <1>1, <1>2, <1>3, <1>4, OpenPass

\* for three
LEMMA OpenThree ==
  ASSUME NEW op, NEW a, NEW got, Sequence(got), Asked(op, a, got), NEW key,
         NEW a1 \in ArgsOf(op), NEW a2 \in ArgsOf(op), NEW a3 \in ArgsOf(op),
         AsksOnly(op, a, key, <<a1, a2, a3>>),
         \A k \in key : LoopPromise(op, k) = LoopPromise(op, a),
         NEW v, ZddLoop(op, a, got) = Open(key, <<a1, a2, a3>>, got, v),
         (Len(got) = 3 /\ got[1] = LoopPromise(op, a1) /\ got[2] = LoopPromise(op, a2)
           /\ got[3] = LoopPromise(op, a3)) => v = LoopPromise(op, a)
  PROVE  PassRight(op, a, ZddLoop(op, a, got))
<1> DEFINE subs == <<a1, a2, a3>>
<1>1. /\ Len(subs) \in Nat /\ Len(subs) = 3
      /\ subs[1] = a1 /\ subs[2] = a2 /\ subs[3] = a3
  OBVIOUS
<1>2. AsksOnly(op, a, key, subs) /\ ZddLoop(op, a, got) = Open(key, subs, got, v)
  OBVIOUS
<1> HIDE DEF subs
<1>3. \A j \in 1..Len(subs) : subs[j] \in ArgsOf(op)
  <2>1. \A j \in 1..3 : j = 1 \/ j = 2 \/ j = 3
    OBVIOUS
  <2>2. QED
    BY <1>1, <2>1
<1>4. (Len(got) = Len(subs) /\ \A j \in 1..Len(subs) : got[j] = LoopPromise(op, subs[j]))
        => v = LoopPromise(op, a)
  <2>1. 1 \in 1..3 /\ 2 \in 1..3 /\ 3 \in 1..3
    OBVIOUS
  <2>2. QED
    BY <1>1, <2>1
<1>5. QED
  BY <1>1, <1>2, <1>3, <1>4, OpenPass

\* and for four.
LEMMA OpenFour ==
  ASSUME NEW op, NEW a, NEW got, Sequence(got), Asked(op, a, got), NEW key,
         NEW a1 \in ArgsOf(op), NEW a2 \in ArgsOf(op), NEW a3 \in ArgsOf(op),
         NEW a4 \in ArgsOf(op), AsksOnly(op, a, key, <<a1, a2, a3, a4>>),
         \A k \in key : LoopPromise(op, k) = LoopPromise(op, a),
         NEW v, ZddLoop(op, a, got) = Open(key, <<a1, a2, a3, a4>>, got, v),
         (Len(got) = 4 /\ got[1] = LoopPromise(op, a1) /\ got[2] = LoopPromise(op, a2)
           /\ got[3] = LoopPromise(op, a3) /\ got[4] = LoopPromise(op, a4))
           => v = LoopPromise(op, a)
  PROVE  PassRight(op, a, ZddLoop(op, a, got))
<1> DEFINE subs == <<a1, a2, a3, a4>>
<1>1. /\ Len(subs) \in Nat /\ Len(subs) = 4
      /\ subs[1] = a1 /\ subs[2] = a2 /\ subs[3] = a3 /\ subs[4] = a4
  OBVIOUS
<1>2. AsksOnly(op, a, key, subs) /\ ZddLoop(op, a, got) = Open(key, subs, got, v)
  OBVIOUS
<1> HIDE DEF subs
<1>3. \A j \in 1..Len(subs) : subs[j] \in ArgsOf(op)
  <2>1. \A j \in 1..4 : j = 1 \/ j = 2 \/ j = 3 \/ j = 4
    OBVIOUS
  <2>2. QED
    BY <1>1, <2>1
<1>4. (Len(got) = Len(subs) /\ \A j \in 1..Len(subs) : got[j] = LoopPromise(op, subs[j]))
        => v = LoopPromise(op, a)
  <2>1. 1 \in 1..4 /\ 2 \in 1..4 /\ 3 \in 1..4 /\ 4 \in 1..4
    OBVIOUS
  <2>2. QED
    BY <1>1, <2>1
<1>5. QED
  BY <1>1, <1>2, <1>3, <1>4, OpenPass

\* A pass that answers the promise without the cache is right,
LEMMA AnswerPass ==
  ASSUME NEW op, NEW a, NEW does, NEW v, does = Answer(v), v = LoopPromise(op, a)
  PROVE  PassRight(op, a, does)
BY DEF Answer, PassRight

\* and so is one that keeps it, when the key answers only for equal promises.
LEMMA KeepPass ==
  ASSUME NEW op, NEW a, NEW does, NEW key, NEW v, does = Keep(key, v),
         v = LoopPromise(op, a),
         \A k \in key : LoopPromise(op, k) = LoopPromise(op, a)
  PROVE  PassRight(op, a, does)
BY DEF Keep, PassRight

-----------------------------------------------------------------------------
\* The operations.

\* Which body the dispatch takes for each operation.
LEMMA Bodies ==
  /\ \A a, h : ZddLoop("bddoffset", a, h) = bddoffset_iter(a, h)
  /\ \A a, h : ZddLoop("bddonset", a, h) = bddonset_iter(a, h)
  /\ \A a, h : ZddLoop("bddonset0", a, h) = bddonset0_iter(a, h)
  /\ \A a, h : ZddLoop("bddchange", a, h) = bddchange_iter(a, h)
  /\ \A a, h : ZddLoop("bddissubset", a, h) = bddissubset_iter(a, h)
  /\ \A a, h : ZddLoop("bddisdisjoint", a, h) = bddisdisjoint_iter(a, h)
  /\ \A a, h : ZddLoop("bdddiv", a, h) = bdddiv_iter(a, h)
  /\ \A a, h : ZddLoop("bddjoin", a, h) = bddjoin_iter(a, h)
  /\ \A a, h : ZddLoop("bddproduct", a, h) = bddproduct_iter(a, h)
  /\ \A a, h : ZddLoop("bddmeet", a, h) = bddmeet_iter(a, h)
  /\ \A a, h : ZddLoop("bdddelta", a, h) = bdddelta_iter(a, h)
  /\ \A a, h : ZddLoop("bdddisjoin", a, h) = bdddisjoin_iter(a, h)
  /\ \A a, h : ZddLoop("bddrestrict", a, h) = bddrestrict_iter(a, h)
  /\ \A a, h : ZddLoop("bddpermit", a, h) = bddpermit_iter(a, h)
  /\ \A a, h : ZddLoop("bddremove_supersets", a, h) = bddremove_supersets_iter(a, h)
  /\ \A a, h : ZddLoop("bddremove_subsets", a, h) = bddremove_subsets_iter(a, h)
  /\ \A a, h : ZddLoop("bddclosure", a, h) = bddclosure_iter(a, h)
BY DEF ZddLoop

\* What each operation is called with.
LEMMA Arguments ==
  /\ \A op \in OneVariable : ArgsOf(op) = Families \X Vars
  /\ \A op \in TwoFamilies : ArgsOf(op) = Families \X Families
  /\ ArgsOf("bddclosure") = {<<f>> : f \in Families}
BY DEF ArgsOf, OneVariable, TwoFamilies

\* What each operation promises.
LEMMA Promises ==
  \A f, g :
    /\ LoopPromise("bddoffset", <<f, g>>) = {s \in f : g \notin s}
    /\ LoopPromise("bddonset", <<f, g>>) = {s \in f : g \in s}
    /\ LoopPromise("bddonset0", <<f, g>>) = {s \ {g} : s \in {s \in f : g \in s}}
    /\ LoopPromise("bddchange", <<f, g>>) = {SymDiff(s, {g}) : s \in f}
    /\ LoopPromise("bddissubset", <<f, g>>) = (f \subseteq g)
    /\ LoopPromise("bddisdisjoint", <<f, g>>) = (f \cap g = {})
    /\ LoopPromise("bdddiv", <<f, g>>) = Quotient(f, g)
    /\ LoopPromise("bddjoin", <<f, g>>) = {p[1] \cup p[2] : p \in f \X g}
    /\ LoopPromise("bddproduct", <<f, g>>) =
         IF Support(f) \cap Support(g) # {} THEN Thrown ELSE {p[1] \cup p[2] : p \in f \X g}
    /\ LoopPromise("bddmeet", <<f, g>>) = {p[1] \cap p[2] : p \in f \X g}
    /\ LoopPromise("bdddelta", <<f, g>>) = {SymDiff(p[1], p[2]) : p \in f \X g}
    /\ LoopPromise("bdddisjoin", <<f, g>>) =
         {p[1] \cup p[2] : p \in {p \in f \X g : p[1] \cap p[2] = {}}}
    /\ LoopPromise("bddrestrict", <<f, g>>) = {s \in f : \E t \in g : t \subseteq s}
    /\ LoopPromise("bddpermit", <<f, g>>) = {s \in f : \E t \in g : s \subseteq t}
    /\ LoopPromise("bddremove_supersets", <<f, g>>) = {s \in f : \A t \in g : ~(t \subseteq s)}
    /\ LoopPromise("bddremove_subsets", <<f, g>>) = {s \in f : \A t \in g : ~(s \subseteq t)}
    /\ LoopPromise("bddclosure", <<f>>) = UNION {SUBSET s : s \in f}
BY DEF LoopPromise

-----------------------------------------------------------------------------
\* One variable.

\* The case all of them share: the variable is not the top but below it.
LEMMA OneVariableArgs ==
  ASSUME NEW f \in Families, NEW v \in Vars
  PROVE  /\ LevelOf(v) = var2level[v]
         /\ Terminal(f) \/ Level(f) < LevelOf(v) => Level(f) < var2level[v]
         /\ ~ (Terminal(f) \/ Level(f) < LevelOf(v)) /\ TopVar(f) # v =>
              Below({{v}}, TopVar(f))
<1>1. LevelOf(v) = var2level[v] /\ var2level[v] \in Nat /\ var2level[v] > 0
  BY VarsFacts
<1>2. Level(f) \in Nat /\ (Terminal(f) => Level(f) = 0)
  BY LevelFacts
<1>3. ASSUME ~ (Terminal(f) \/ Level(f) < LevelOf(v)), TopVar(f) # v
      PROVE  Below({{v}}, TopVar(f))
  <2>1. Level(f) = var2level[TopVar(f)] /\ TopVar(f) \in Vars
    BY <1>3, LevelFacts, SupportFacts
  <2>2. var2level[v] # var2level[TopVar(f)]
    BY <1>3, <2>1, VarsFacts
  <2>3. var2level[v] < var2level[TopVar(f)]
    BY <1>1, <1>2, <1>3, <2>1, <2>2
  <2>4. QED
    BY <2>3 DEF Below, Support
<1>4. QED
  BY <1>1, <1>2, <1>3

\* A node put together from the results of two subproblems.
LEMMA NodePass ==
  ASSUME NEW op, NEW a, NEW got, Sequence(got), Asked(op, a, got), NEW key,
         NEW a1 \in ArgsOf(op), NEW a2 \in ArgsOf(op), NEW x \in Vars,
         \A h : ZddLoop(op, a, h) = Open(key, <<a1, a2>>, h, Node(x, h[1], h[2])),
         \A k \in key : LoopPromise(op, k) = LoopPromise(op, a),
         LoopPromise(op, a1) \in Families, Below(LoopPromise(op, a1), x),
         LoopPromise(op, a2) \in Families, Below(LoopPromise(op, a2), x),
         \A s : (s \in LoopPromise(op, a) <=>
                   (x \notin s /\ s \in LoopPromise(op, a1))
                     \/ (x \in s /\ s \ {x} \in LoopPromise(op, a2)))
  PROVE  PassRight(op, a, ZddLoop(op, a, got))
<1>1. AsksOnly(op, a, key, <<a1, a2>>)
  BY DEF AsksOnly
<1>2. Node(x, LoopPromise(op, a1), LoopPromise(op, a2)) = LoopPromise(op, a)
  BY NodeIs
<1>3. (got[1] = LoopPromise(op, a1) /\ got[2] = LoopPromise(op, a2))
        => Node(x, got[1], got[2]) = LoopPromise(op, a)
  BY <1>2
<1>4. QED
  BY <1>1, <1>3, OpenTwo

\* Sets of a side are sets of the family with or without the top variable.
LEMMA TopSides ==
  ASSUME NEW f \in Families, ~ Terminal(f), NEW x, x = TopVar(f)
  PROVE  /\ x \in Vars /\ UpTo(f, x) /\ Level(f) = var2level[x] /\ x \in Support(f)
         /\ Lo(f) = Off(f, x) /\ Hi(f) = On(f, x)
         /\ Lo(f) \in Families /\ Hi(f) \in Families
         /\ Below(Lo(f), x) /\ Below(Hi(f), x)
         /\ \A s : s \in Lo(f) <=> s \in f /\ x \notin s
         /\ \A s : s \in Hi(f) <=> x \notin s /\ s \cup {x} \in f
         /\ \A s : x \in s => (s \in f <=> s \ {x} \in Hi(f))
<1>1. /\ x \in Vars /\ UpTo(f, x) /\ Level(f) = var2level[x] /\ x \in Support(f)
      /\ Lo(f) = Off(f, x) /\ Hi(f) = On(f, x)
  BY TopFacts
<1>2. /\ Lo(f) \in Families /\ Hi(f) \in Families
      /\ \A s : s \in Lo(f) <=> s \in f /\ x \notin s
      /\ \A s : s \in Hi(f) <=> x \notin s /\ s \cup {x} \in f
  BY <1>1, SideFacts
<1>3. Below(Lo(f), x) /\ Below(Hi(f), x)
  BY <1>1, SidesBelow
<1>4. \A s : x \in s => (s \ {x}) \cup {x} = s /\ x \notin s \ {x}
  OBVIOUS
<1>5. \A s : x \in s => (s \in f <=> s \ {x} \in Hi(f))
  BY <1>2, <1>4
<1>6. QED
  BY <1>1, <1>2, <1>3, <1>5

\* A part of a family has no other variables.
LEMMA SubBelow ==
  ASSUME NEW f \in Families, NEW x, Below(f, x), NEW r, r \subseteq f
  PROVE  r \in Families /\ Below(r, x)
BY DEF Families, Below, Support

\* bddoffset: one pass is right.
LEMMA OffsetRight ==
  ASSUME NEW a \in ArgsOf("bddoffset"), NEW got, Sequence(got),
         Asked("bddoffset", a, got)
  PROVE  PassRight("bddoffset", a, ZddLoop("bddoffset", a, got))
<1> DEFINE op == "bddoffset"
<1>1. PICK f \in Families, v \in Vars : a = <<f, v>>
  BY Arguments DEF OneVariable
<1>2. \A h : ZddLoop(op, a, h) = bddoffset_iter(<<f, v>>, h)
  BY <1>1, Bodies
<1>3. \A g, s : s \in LoopPromise(op, <<g, v>>) <=> s \in g /\ v \notin s
  BY Promises

<1>4. Asked(op, a, got) /\ \A g \in Families : <<g, v>> \in ArgsOf(op)
  BY Arguments DEF OneVariable
<1>5. \A k \in One(f, v) : LoopPromise(op, k) = LoopPromise(op, a)
  BY <1>1 DEF One
<1> DEFINE x == TopVar(f)
<1> HIDE DEF op
<1>6. CASE Terminal(f) \/ Level(f) < LevelOf(v)
  <2>1. ZddLoop(op, a, got) = Answer(f)
    BY <1>2, <1>6 DEF bddoffset_iter
  <2>2. \A s \in f : v \notin s
    BY <1>6, OneVariableArgs, BelowFacts DEF Support
  <2>3. \A s : s \in f <=> s \in LoopPromise(op, a)
    BY <1>1, <1>3, <2>2  DEF Empty
  <2>4. f = LoopPromise(op, a)
    BY <2>3
  <2>5. PassRight(op, a, ZddLoop(op, a, got))
    BY <2>1, <2>4, AnswerPass
  <2>6. QED
    BY <2>5 DEF op
<1>7. CASE ~ (Terminal(f) \/ Level(f) < LevelOf(v)) /\ x = v
  <2>1. ZddLoop(op, a, got) = Keep(One(f, v), Lo(f))
    BY <1>2, <1>7 DEF bddoffset_iter
  <2>2. Lo(f) = LoopPromise(op, a)
    <3>1. \A s : s \in Lo(f) <=> s \in LoopPromise(op, a)
      BY <1>1, <1>3, <1>7, TopSides
    <3>2. QED
      BY <3>1
  <2>3. PassRight(op, a, ZddLoop(op, a, got))
    BY <1>5, <2>1, <2>2, KeepPass
  <2>4. QED
    BY <2>3 DEF op
<1>8. CASE ~ (Terminal(f) \/ Level(f) < LevelOf(v)) /\ x # v
  <2>1. \A h : ZddLoop(op, a, h) = Open(One(f, v), <<<<Lo(f), v>>, <<Hi(f), v>>>>, h,
                                        Node(x, h[1], h[2]))
    BY <1>2, <1>8 DEF bddoffset_iter
  <2>2. /\ x \in Vars /\ Lo(f) \in Families /\ Hi(f) \in Families
        /\ Below(Lo(f), x) /\ Below(Hi(f), x)
        /\ \A s : s \in Lo(f) <=> s \in f /\ x \notin s
        /\ \A s : x \in s => (s \in f <=> s \ {x} \in Hi(f))
    BY <1>8, TopSides
  <2>3. \A g : g \in {Lo(f), Hi(f)} =>
          LoopPromise(op, <<g, v>>) \in Families /\ Below(LoopPromise(op, <<g, v>>), x)
    <3>1. ASSUME NEW g \in {Lo(f), Hi(f)}
          PROVE  LoopPromise(op, <<g, v>>) \in Families /\ Below(LoopPromise(op, <<g, v>>), x)
      <4>1. LoopPromise(op, <<g, v>>) \subseteq g
        BY <1>3
      <4>2. QED
        BY <2>2, <4>1, SubBelow
    <3>2. QED
      BY <3>1
  <2>4. \A s : s \in LoopPromise(op, <<f, v>>) <=>
               (x \notin s /\ s \in LoopPromise(op, <<Lo(f), v>>))
                 \/ (x \in s /\ s \ {x} \in LoopPromise(op, <<Hi(f), v>>))
    <3>1. \A s : v \in s \ {x} <=> v \in s
      BY <1>8
    <3>2. QED
      BY <1>3, <2>2, <3>1
  <2>5. PassRight(op, a, ZddLoop(op, a, got))
    BY <1>1, <1>4, <1>5, <2>1, <2>2, <2>3, <2>4, NodePass
  <2>6. QED
    BY <2>5 DEF op
<1>9. QED
  BY <1>6, <1>7, <1>8

\* bddonset: one pass is right.
LEMMA OnsetRight ==
  ASSUME NEW a \in ArgsOf("bddonset"), NEW got, Sequence(got),
         Asked("bddonset", a, got)
  PROVE  PassRight("bddonset", a, ZddLoop("bddonset", a, got))
<1> DEFINE op == "bddonset"
<1>1. PICK f \in Families, v \in Vars : a = <<f, v>>
  BY Arguments DEF OneVariable
<1>2. \A h : ZddLoop(op, a, h) = bddonset_iter(<<f, v>>, h)
  BY <1>1, Bodies
<1>3. \A g, s : s \in LoopPromise(op, <<g, v>>) <=> s \in g /\ v \in s
  BY Promises

<1>4. Asked(op, a, got) /\ \A g \in Families : <<g, v>> \in ArgsOf(op)
  BY Arguments DEF OneVariable
<1>5. \A k \in One(f, v) : LoopPromise(op, k) = LoopPromise(op, a)
  BY <1>1 DEF One
<1> DEFINE x == TopVar(f)
<1> HIDE DEF op
<1>6. CASE Terminal(f) \/ Level(f) < LevelOf(v)
  <2>1. ZddLoop(op, a, got) = Answer(Empty)
    BY <1>2, <1>6 DEF bddonset_iter
  <2>2. \A s \in f : v \notin s
    BY <1>6, OneVariableArgs, BelowFacts DEF Support
  <2>3. \A s : s \in Empty <=> s \in LoopPromise(op, a)
    BY <1>1, <1>3, <2>2  DEF Empty
  <2>4. Empty = LoopPromise(op, a)
    BY <2>3
  <2>5. PassRight(op, a, ZddLoop(op, a, got))
    BY <2>1, <2>4, AnswerPass
  <2>6. QED
    BY <2>5 DEF op
<1>7. CASE ~ (Terminal(f) \/ Level(f) < LevelOf(v)) /\ x = v
  <2>1. ZddLoop(op, a, got) = Keep(One(f, v), Node(v, Empty, Hi(f)))
    BY <1>2, <1>7 DEF bddonset_iter
  <2>2. Node(v, Empty, Hi(f)) = LoopPromise(op, a)
    <3>1. /\ v \in Vars /\ Empty \in Families /\ Hi(f) \in Families
          /\ Below(Empty, v) /\ Below(Hi(f), v)
      BY <1>7, TopSides, Constants DEF Empty, Below, Support
    <3>2. \A s : (s \in LoopPromise(op, a) <=> (v \notin s /\ s \in Empty)
                                               \/ (v \in s /\ s \ {v} \in Hi(f)))
      BY <1>1, <1>3, <1>7, TopSides DEF Empty
    <3>3. QED
      BY <3>1, <3>2, NodeIs
  <2>3. PassRight(op, a, ZddLoop(op, a, got))
    BY <1>5, <2>1, <2>2, KeepPass
  <2>4. QED
    BY <2>3 DEF op
<1>8. CASE ~ (Terminal(f) \/ Level(f) < LevelOf(v)) /\ x # v
  <2>1. \A h : ZddLoop(op, a, h) = Open(One(f, v), <<<<Lo(f), v>>, <<Hi(f), v>>>>, h,
                                        Node(x, h[1], h[2]))
    BY <1>2, <1>8 DEF bddonset_iter
  <2>2. /\ x \in Vars /\ Lo(f) \in Families /\ Hi(f) \in Families
        /\ Below(Lo(f), x) /\ Below(Hi(f), x)
        /\ \A s : s \in Lo(f) <=> s \in f /\ x \notin s
        /\ \A s : x \in s => (s \in f <=> s \ {x} \in Hi(f))
    BY <1>8, TopSides
  <2>3. \A g : g \in {Lo(f), Hi(f)} =>
          LoopPromise(op, <<g, v>>) \in Families /\ Below(LoopPromise(op, <<g, v>>), x)
    <3>1. ASSUME NEW g \in {Lo(f), Hi(f)}
          PROVE  LoopPromise(op, <<g, v>>) \in Families /\ Below(LoopPromise(op, <<g, v>>), x)
      <4>1. LoopPromise(op, <<g, v>>) \subseteq g
        BY <1>3
      <4>2. QED
        BY <2>2, <4>1, SubBelow
    <3>2. QED
      BY <3>1
  <2>4. \A s : s \in LoopPromise(op, <<f, v>>) <=>
               (x \notin s /\ s \in LoopPromise(op, <<Lo(f), v>>))
                 \/ (x \in s /\ s \ {x} \in LoopPromise(op, <<Hi(f), v>>))
    <3>1. \A s : v \in s \ {x} <=> v \in s
      BY <1>8
    <3>2. QED
      BY <1>3, <2>2, <3>1
  <2>5. PassRight(op, a, ZddLoop(op, a, got))
    BY <1>1, <1>4, <1>5, <2>1, <2>2, <2>3, <2>4, NodePass
  <2>6. QED
    BY <2>5 DEF op
<1>9. QED
  BY <1>6, <1>7, <1>8

\* bddonset0: one pass is right.
LEMMA Onset0Right ==
  ASSUME NEW a \in ArgsOf("bddonset0"), NEW got, Sequence(got),
         Asked("bddonset0", a, got)
  PROVE  PassRight("bddonset0", a, ZddLoop("bddonset0", a, got))
<1> DEFINE op == "bddonset0"
<1>1. PICK f \in Families, v \in Vars : a = <<f, v>>
  BY Arguments DEF OneVariable
<1>2. \A h : ZddLoop(op, a, h) = bddonset0_iter(<<f, v>>, h)
  BY <1>1, Bodies
<1>3. \A g, s : s \in LoopPromise(op, <<g, v>>) <=> v \notin s /\ s \cup {v} \in g
  <2>1. ASSUME NEW g, NEW s, s \in LoopPromise(op, <<g, v>>)
        PROVE  v \notin s /\ s \cup {v} \in g
    <3>1. PICK t \in g : v \in t /\ s = t \ {v}
      BY <2>1, Promises
    <3>2. s \cup {v} = t
      BY <3>1
    <3>3. QED
      BY <3>1, <3>2
  <2>2. ASSUME NEW g, NEW s, v \notin s, s \cup {v} \in g
        PROVE  s \in LoopPromise(op, <<g, v>>)
    <3>1. s = (s \cup {v}) \ {v} /\ v \in s \cup {v}
      BY <2>2
    <3>2. QED
      BY <2>2, <3>1, Promises
  <2>3. QED
    BY <2>1, <2>2

<1>4. Asked(op, a, got) /\ \A g \in Families : <<g, v>> \in ArgsOf(op)
  BY Arguments DEF OneVariable
<1>5. \A k \in One(f, v) : LoopPromise(op, k) = LoopPromise(op, a)
  BY <1>1 DEF One
<1> DEFINE x == TopVar(f)
<1> HIDE DEF op
<1>6. CASE Terminal(f) \/ Level(f) < LevelOf(v)
  <2>1. ZddLoop(op, a, got) = Answer(Empty)
    BY <1>2, <1>6 DEF bddonset0_iter
  <2>2. \A s \in f : v \notin s
    BY <1>6, OneVariableArgs, BelowFacts DEF Support
  <2>3. \A s : s \in Empty <=> s \in LoopPromise(op, a)
    <3>1. \A s : v \in s \cup {v}
      OBVIOUS
    <3>2. ASSUME NEW s, s \in LoopPromise(op, <<f, v>>) PROVE FALSE
      <4>1. s \cup {v} \in f
        BY <1>3, <3>2
      <4>2. QED
        BY <2>2, <3>1, <4>1
    <3>3. QED
      BY <1>1, <3>2 DEF Empty
  <2>4. Empty = LoopPromise(op, a)
    BY <2>3
  <2>5. PassRight(op, a, ZddLoop(op, a, got))
    BY <2>1, <2>4, AnswerPass
  <2>6. QED
    BY <2>5 DEF op
<1>7. CASE ~ (Terminal(f) \/ Level(f) < LevelOf(v)) /\ x = v
  <2>1. ZddLoop(op, a, got) = Keep(One(f, v), Hi(f))
    BY <1>2, <1>7 DEF bddonset0_iter
  <2>2. Hi(f) = LoopPromise(op, a)
    <3>1. \A s : s \in Hi(f) <=> v \notin s /\ s \cup {v} \in f
      BY <1>7, TopSides
    <3>2. \A s : s \in Hi(f) <=> s \in LoopPromise(op, <<f, v>>)
      BY <1>3, <3>1
    <3>3. QED
      BY <1>1, <3>2
  <2>3. PassRight(op, a, ZddLoop(op, a, got))
    BY <1>5, <2>1, <2>2, KeepPass
  <2>4. QED
    BY <2>3 DEF op
<1>8. CASE ~ (Terminal(f) \/ Level(f) < LevelOf(v)) /\ x # v
  <2>1. \A h : ZddLoop(op, a, h) = Open(One(f, v), <<<<Lo(f), v>>, <<Hi(f), v>>>>, h,
                                        Node(x, h[1], h[2]))
    BY <1>2, <1>8 DEF bddonset0_iter
  <2>2. /\ x \in Vars /\ Lo(f) \in Families /\ Hi(f) \in Families
        /\ Below(Lo(f), x) /\ Below(Hi(f), x)
        /\ \A s : s \in Lo(f) <=> s \in f /\ x \notin s
        /\ \A s : x \in s => (s \in f <=> s \ {x} \in Hi(f))
    BY <1>8, TopSides
  <2>3. \A g : g \in {Lo(f), Hi(f)} =>
          LoopPromise(op, <<g, v>>) \in Families /\ Below(LoopPromise(op, <<g, v>>), x)
    <3>1. ASSUME NEW g \in {Lo(f), Hi(f)}
          PROVE  LoopPromise(op, <<g, v>>) \in Families /\ Below(LoopPromise(op, <<g, v>>), x)
      <4>1. \A s : s \in LoopPromise(op, <<g, v>>) <=> s \in On(g, v)
        <5>1. g \in Families
          BY <2>2
        <5>2. \A s : s \in On(g, v) <=> v \notin s /\ s \cup {v} \in g
          BY <1>1, <5>1, SideFacts
        <5>3. QED
          BY <1>3, <5>2
      <4>2. LoopPromise(op, <<g, v>>) = On(g, v)
        BY <4>1
      <4>3. On(g, v) \in Families /\ Support(On(g, v)) \subseteq Support(g)
        BY <2>2, SideFacts
      <4>4. QED
        BY <2>2, <4>2, <4>3 DEF Below
    <3>2. QED
      BY <3>1
  <2>4. \A s : s \in LoopPromise(op, <<f, v>>) <=>
               (x \notin s /\ s \in LoopPromise(op, <<Lo(f), v>>))
                 \/ (x \in s /\ s \ {x} \in LoopPromise(op, <<Hi(f), v>>))
    <3>1. ASSUME NEW s
          PROVE  s \in LoopPromise(op, <<f, v>>) <=>
                   (x \notin s /\ s \in LoopPromise(op, <<Lo(f), v>>))
                     \/ (x \in s /\ s \ {x} \in LoopPromise(op, <<Hi(f), v>>))
      <4>1. /\ v \in s \ {x} <=> v \in s
            /\ x \in s \cup {v} <=> x \in s
            /\ (s \cup {v}) \ {x} = (s \ {x}) \cup {v}
        BY <1>8
      <4>2. CASE x \in s
        <5>1. s \cup {v} \in f <=> (s \ {x}) \cup {v} \in Hi(f)
          BY <2>2, <4>1, <4>2
        <5>2. QED
          BY <1>3, <4>1, <4>2, <5>1
      <4>3. CASE x \notin s
        BY <1>3, <2>2, <4>1, <4>3
      <4>4. QED
        BY <4>2, <4>3
    <3>2. QED
      BY <3>1
  <2>5. PassRight(op, a, ZddLoop(op, a, got))
    BY <1>1, <1>4, <1>5, <2>1, <2>2, <2>3, <2>4, NodePass
  <2>6. QED
    BY <2>5 DEF op
<1>9. QED
  BY <1>6, <1>7, <1>8

\* bddchange: one pass is right, also with a variable above the top.
LEMMA ChangeRight ==
  ASSUME NEW a \in ArgsOf("bddchange"), NEW got, Sequence(got),
         Asked("bddchange", a, got)
  PROVE  PassRight("bddchange", a, ZddLoop("bddchange", a, got))
<1> DEFINE op == "bddchange"
<1>1. PICK f \in Families, v \in Vars : a = <<f, v>>
  BY Arguments DEF OneVariable
<1>2. \A h : ZddLoop(op, a, h) = bddchange_iter(<<f, v>>, h)
  BY <1>1, Bodies
<1>3. \A g, s : s \in LoopPromise(op, <<g, v>>) <=>
                  (v \notin s /\ s \cup {v} \in g) \/ (v \in s /\ s \ {v} \in g)
  <2>1. ASSUME NEW g, NEW s, s \in LoopPromise(op, <<g, v>>)
        PROVE  (v \notin s /\ s \cup {v} \in g) \/ (v \in s /\ s \ {v} \in g)
    <3>1. PICK t \in g : s = (t \ {v}) \cup ({v} \ t)
      BY <2>1, Promises DEF SymDiff
    <3>2. (v \in t => s \cup {v} = t /\ v \notin s) /\ (v \notin t => s \ {v} = t /\ v \in s)
      BY <3>1
    <3>3. QED
      BY <3>1, <3>2
  <2>2. ASSUME NEW g, NEW s, v \notin s, s \cup {v} \in g
        PROVE  s \in LoopPromise(op, <<g, v>>)
    <3>1. s = SymDiff(s \cup {v}, {v})
      BY <2>2 DEF SymDiff
    <3>2. QED
      BY <2>2, <3>1, Promises
  <2>3. ASSUME NEW g, NEW s, v \in s, s \ {v} \in g
        PROVE  s \in LoopPromise(op, <<g, v>>)
    <3>1. s = SymDiff(s \ {v}, {v})
      BY <2>3 DEF SymDiff
    <3>2. QED
      BY <2>3, <3>1, Promises
  <2>4. QED
    BY <2>1, <2>2, <2>3
<1>4. Asked(op, a, got) /\ \A g \in Families : <<g, v>> \in ArgsOf(op)
  BY Arguments DEF OneVariable
<1>5. \A k \in One(f, v) : LoopPromise(op, k) = LoopPromise(op, a)
  BY <1>1 DEF One
<1> DEFINE x == TopVar(f)
<1> HIDE DEF op
<1>6. CASE f = Empty
  <2>1. ZddLoop(op, a, got) = Answer(Empty)
    BY <1>2, <1>6 DEF bddchange_iter
  <2>2. \A s : s \in Empty <=> s \in LoopPromise(op, a)
    BY <1>1, <1>3, <1>6 DEF Empty
  <2>3. Empty = LoopPromise(op, a)
    BY <2>2
  <2>4. PassRight(op, a, ZddLoop(op, a, got))
    BY <2>1, <2>3, AnswerPass
  <2>5. QED
    BY <2>4 DEF op
<1>7. CASE f # Empty /\ Level(f) < LevelOf(v)
  <2>1. ZddLoop(op, a, got) = Answer(Node(v, Empty, f))
    BY <1>2, <1>7 DEF bddchange_iter
  <2>2. Below(Empty, v) /\ Empty \in Families
    BY Constants DEF Below, Support, Empty
  <2>3. Below(f, v) /\ \A s \in f : v \notin s
    BY <1>7, OneVariableArgs, BelowFacts DEF Support
  <2>4. \A s : (s \in LoopPromise(op, a) <=> (v \notin s /\ s \in Empty)
                                             \/ (v \in s /\ s \ {v} \in f))
    <3>1. \A s : v \in s \cup {v}
      OBVIOUS
    <3>2. QED
      BY <1>1, <1>3, <2>3, <3>1 DEF Empty
  <2>5. Node(v, Empty, f) = LoopPromise(op, a)
    BY <1>1, <2>2, <2>3, <2>4, NodeIs
  <2>6. PassRight(op, a, ZddLoop(op, a, got))
    BY <2>1, <2>5, AnswerPass
  <2>7. QED
    BY <2>6 DEF op
<1>8. f # Empty /\ ~ (Level(f) < LevelOf(v)) => ~ (Terminal(f) \/ Level(f) < LevelOf(v))
  BY LevelFacts, VarsFacts
<1>9. CASE f # Empty /\ ~ (Level(f) < LevelOf(v)) /\ x = v
  <2>1. ZddLoop(op, a, got) = Keep(One(f, v), Node(v, Hi(f), Lo(f)))
    BY <1>2, <1>9 DEF bddchange_iter
  <2>2. /\ Lo(f) \in Families /\ Hi(f) \in Families
        /\ Below(Lo(f), v) /\ Below(Hi(f), v)
        /\ \A s : s \in Lo(f) <=> s \in f /\ v \notin s
        /\ \A s : s \in Hi(f) <=> v \notin s /\ s \cup {v} \in f
    BY <1>8, <1>9, TopSides
  <2>3. \A s : (s \in LoopPromise(op, a) <=> (v \notin s /\ s \in Hi(f))
                                             \/ (v \in s /\ s \ {v} \in Lo(f)))
    <3>1. \A s : v \notin s \ {v}
      OBVIOUS
    <3>2. QED
      BY <1>1, <1>3, <2>2, <3>1
  <2>4. Node(v, Hi(f), Lo(f)) = LoopPromise(op, a)
    BY <1>1, <2>2, <2>3, NodeIs
  <2>5. PassRight(op, a, ZddLoop(op, a, got))
    BY <1>5, <2>1, <2>4, KeepPass
  <2>6. QED
    BY <2>5 DEF op
<1>10. CASE f # Empty /\ ~ (Level(f) < LevelOf(v)) /\ x # v
  <2>1. \A h : ZddLoop(op, a, h) = Open(One(f, v), <<<<Lo(f), v>>, <<Hi(f), v>>>>, h,
                                        Node(x, h[1], h[2]))
    BY <1>2, <1>10 DEF bddchange_iter
  <2>2. /\ x \in Vars /\ Lo(f) \in Families /\ Hi(f) \in Families
        /\ Below(Lo(f), x) /\ Below(Hi(f), x)
        /\ \A s : s \in Lo(f) <=> s \in f /\ x \notin s
        /\ \A s : x \in s => (s \in f <=> s \ {x} \in Hi(f))
    BY <1>8, <1>10, TopSides
  <2>7. Below({{v}}, x)
    BY <1>1, <1>8, <1>10, OneVariableArgs
  <2>3. \A g : g \in {Lo(f), Hi(f)} =>
          LoopPromise(op, <<g, v>>) \in Families /\ Below(LoopPromise(op, <<g, v>>), x)
    <3>1. ASSUME NEW g \in {Lo(f), Hi(f)}
          PROVE  LoopPromise(op, <<g, v>>) \in Families /\ Below(LoopPromise(op, <<g, v>>), x)
      <4>1. ASSUME NEW s, s \in LoopPromise(op, <<g, v>>)
            PROVE  s \subseteq Support(g) \cup Support({{v}})
        <5>1. s \cup {v} \in g \/ s \ {v} \in g
          BY <1>3, <4>1
        <5>2. QED
          BY <5>1 DEF Support
      <4>2. {{v}} \in Families
        BY DEF Families
      <4>3. g \in Families /\ Below(g, x)
        BY <2>2
      <4>4. PICK r : r = LoopPromise(op, <<g, v>>)
        OBVIOUS
      <4>5. \A s \in r : s \subseteq Support(g) \cup Support({{v}})
        BY <4>1, <4>4
      <4>6. r \in Families /\ \A y : Below(g, y) /\ Below({{v}}, y) => Below(r, y)
        BY <4>2, <4>3, <4>5, Inside
      <4>7. QED
        BY <2>7, <4>3, <4>4, <4>6
    <3>2. QED
      BY <3>1
  <2>4. \A s : s \in LoopPromise(op, <<f, v>>) <=>
               (x \notin s /\ s \in LoopPromise(op, <<Lo(f), v>>))
                 \/ (x \in s /\ s \ {x} \in LoopPromise(op, <<Hi(f), v>>))
    <3>1. ASSUME NEW s
          PROVE  s \in LoopPromise(op, <<f, v>>) <=>
                   (x \notin s /\ s \in LoopPromise(op, <<Lo(f), v>>))
                     \/ (x \in s /\ s \ {x} \in LoopPromise(op, <<Hi(f), v>>))
      <4>1. /\ v \in s \ {x} <=> v \in s
            /\ x \in s \cup {v} <=> x \in s
            /\ x \in s \ {v} <=> x \in s
            /\ (s \cup {v}) \ {x} = (s \ {x}) \cup {v}
            /\ (s \ {v}) \ {x} = (s \ {x}) \ {v}
        BY <1>10
      <4>2. CASE x \in s
        <5>1. /\ s \cup {v} \in f <=> (s \ {x}) \cup {v} \in Hi(f)
              /\ s \ {v} \in f <=> (s \ {x}) \ {v} \in Hi(f)
          BY <2>2, <4>1, <4>2
        <5>2. QED
          BY <1>3, <4>1, <4>2, <5>1
      <4>3. CASE x \notin s
        BY <1>3, <2>2, <4>1, <4>3
      <4>4. QED
        BY <4>2, <4>3
    <3>2. QED
      BY <3>1
  <2>5. PassRight(op, a, ZddLoop(op, a, got))
    BY <1>1, <1>4, <1>5, <2>1, <2>2, <2>3, <2>4, NodePass
  <2>6. QED
    BY <2>5 DEF op
<1>11. QED
  BY <1>6, <1>7, <1>9, <1>10

-----------------------------------------------------------------------------
\* Two operands.

\* A set is in a family when what is left of it is in the side it belongs to.
LEMMA InOrOut ==
  ASSUME NEW f \in Families, NEW v \in Vars
  PROVE  /\ \A s : v \notin s => (s \in f <=> s \in Off(f, v))
         /\ \A s : v \in s => (s \in f <=> s \ {v} \in On(f, v))
         /\ \A s \in Off(f, v) : v \notin s /\ s \in f
         /\ \A s \in On(f, v) : v \notin s /\ s \cup {v} \in f
<1>1. /\ \A s : s \in Off(f, v) <=> s \in f /\ v \notin s
      /\ \A s : s \in On(f, v) <=> v \notin s /\ s \cup {v} \in f
  BY SideFacts
<1>2. \A s : v \in s => (s \ {v}) \cup {v} = s /\ v \notin s \ {v}
  OBVIOUS
<1>3. \A s : v \in s => (s \in f <=> s \ {v} \in On(f, v))
  BY <1>1, <1>2
<1>4. QED
  BY <1>1, <1>3

\* The sides of two operands at the higher of their top variables.
LEMMA TwoSides ==
  ASSUME NEW f \in Families, NEW g \in Families, ~ Terminal(f), ~ Terminal(g),
         NEW v, v = Higher(f, g)
  PROVE  /\ v \in Vars
         /\ Off(f, v) \in Families /\ Below(Off(f, v), v)
         /\ On(f, v) \in Families /\ Below(On(f, v), v)
         /\ Off(g, v) \in Families /\ Below(Off(g, v), v)
         /\ On(g, v) \in Families /\ Below(On(g, v), v)
         /\ Level(f) > Level(g) =>
              /\ v = TopVar(f) /\ Down(f, v) = On(f, v)
              /\ Off(g, v) = g /\ Down(g, v) = g /\ On(g, v) = {} /\ Below(g, v)
              /\ Lo(f) = Off(f, v) /\ Hi(f) = On(f, v)
         /\ Level(f) < Level(g) =>
              /\ v = TopVar(g) /\ Down(g, v) = On(g, v)
              /\ Off(f, v) = f /\ Down(f, v) = f /\ On(f, v) = {} /\ Below(f, v)
              /\ Lo(g) = Off(g, v) /\ Hi(g) = On(g, v)
         /\ Level(f) = Level(g) =>
              /\ v = TopVar(f) /\ v = TopVar(g)
              /\ Lo(f) = Off(f, v) /\ Hi(f) = On(f, v)
              /\ Lo(g) = Off(g, v) /\ Hi(g) = On(g, v)
<1>1. v \in Vars /\ UpTo(f, v) /\ UpTo(g, v)
  BY HigherFacts
<1>2. /\ Off(f, v) \in Families /\ Below(Off(f, v), v)
      /\ On(f, v) \in Families /\ Below(On(f, v), v)
  BY <1>1, SideFacts, SidesBelow
<1>3. /\ Off(g, v) \in Families /\ Below(Off(g, v), v)
      /\ On(g, v) \in Families /\ Below(On(g, v), v)
  BY <1>1, SideFacts, SidesBelow
<1>4. ASSUME Level(f) > Level(g)
      PROVE  /\ v = TopVar(f) /\ Down(f, v) = On(f, v)
             /\ Off(g, v) = g /\ Down(g, v) = g /\ On(g, v) = {} /\ Below(g, v)
             /\ Lo(f) = Off(f, v) /\ Hi(f) = On(f, v)
  <2>1. v = TopVar(f) /\ v \in Support(f) /\ v \notin Support(g) /\ Below(g, v)
    BY <1>4, HigherFacts
  <2>2. QED
    BY <1>1, <2>1, DownFacts DEF Lo, Hi
<1>5. ASSUME Level(f) < Level(g)
      PROVE  /\ v = TopVar(g) /\ Down(g, v) = On(g, v)
             /\ Off(f, v) = f /\ Down(f, v) = f /\ On(f, v) = {} /\ Below(f, v)
             /\ Lo(g) = Off(g, v) /\ Hi(g) = On(g, v)
  <2>1. v = TopVar(g) /\ v \in Support(g) /\ v \notin Support(f) /\ Below(f, v)
    BY <1>5, HigherFacts
  <2>2. QED
    BY <1>1, <2>1, DownFacts DEF Lo, Hi
<1>6. ASSUME Level(f) = Level(g)
      PROVE  /\ v = TopVar(f) /\ v = TopVar(g)
             /\ Lo(f) = Off(f, v) /\ Hi(f) = On(f, v)
             /\ Lo(g) = Off(g, v) /\ Hi(g) = On(g, v)
  BY <1>6, HigherFacts DEF Lo, Hi
<1>7. QED
  BY <1>1, <1>2, <1>3, <1>4, <1>5, <1>6

\* A union has no variables of its own.
LEMMA UnionBelow ==
  ASSUME NEW f \in Families, NEW g \in Families
  PROVE  /\ f \cup g \in Families
         /\ \A v : Below(f, v) /\ Below(g, v) => Below(f \cup g, v)
BY DEF Families, Below, Support

\* One level is above, below or the same as the other.
LEMMA Levels ==
  ASSUME NEW f \in Families, NEW g \in Families
  PROVE  /\ Level(f) > Level(g) \/ Level(f) < Level(g) \/ Level(f) = Level(g)
         /\ ~ (Level(f) > Level(g) /\ Level(f) < Level(g))
         /\ Level(f) # Level(g) <=> Level(f) > Level(g) \/ Level(f) < Level(g)
         /\ Level(f) > Level(g) => ~ (Level(g) > Level(f)) /\ ~ (Level(f) < Level(g))
         /\ Level(f) < Level(g) <=> Level(g) > Level(f)
BY LevelFacts

Joins(f, g) == LoopPromise("bddjoin", <<f, g>>)

\* Membership in a join; it is a family, and the operands commute.
LEMMA JoinMembers ==
  ASSUME NEW f \in Families, NEW g \in Families
  PROVE  /\ \A s : s \in Joins(f, g) <=> \E p \in f : \E q \in g : s = p \cup q
         /\ Joins(f, g) \in Families
         /\ \A v : Below(f, v) /\ Below(g, v) => Below(Joins(f, g), v)
         /\ Joins(f, g) = Joins(g, f)
<1>1. \A x, y, s : s \in Joins(x, y) <=> \E p \in x : \E q \in y : s = p \cup q
  <2>1. ASSUME NEW x, NEW y, NEW s, s \in Joins(x, y)
        PROVE  \E p \in x : \E q \in y : s = p \cup q
    <3>1. PICK pq \in x \X y : s = pq[1] \cup pq[2]
      BY <2>1, Promises DEF Joins
    <3>2. pq[1] \in x /\ pq[2] \in y
      BY <3>1
    <3>3. QED
      BY <3>1, <3>2
  <2>2. ASSUME NEW x, NEW y, NEW p \in x, NEW q \in y, NEW s, s = p \cup q
        PROVE  s \in Joins(x, y)
    <3>1. <<p, q>> \in x \X y /\ <<p, q>>[1] = p /\ <<p, q>>[2] = q
      OBVIOUS
    <3>2. QED
      BY <2>2, <3>1, Promises DEF Joins
  <2>3. QED
    BY <2>1, <2>2
<1>2. \A s \in Joins(f, g) : s \subseteq Support(f) \cup Support(g)
  BY <1>1 DEF Support
<1>3. Joins(f, g) \in Families /\ \A v : Below(f, v) /\ Below(g, v) => Below(Joins(f, g), v)
  BY <1>2, Inside
<1>4. \A s : s \in Joins(f, g) <=> s \in Joins(g, f)
  <2>1. \A p, q : p \cup q = q \cup p
    OBVIOUS
  <2>2. QED
    BY <1>1, <2>1
<1>5. Joins(f, g) = Joins(g, f)
  BY <1>4
<1>6. QED
  BY <1>1, <1>3, <1>5

Meets(f, g) == LoopPromise("bddmeet", <<f, g>>)

\* Membership in a meet; it is a family, and the operands commute.
LEMMA MeetMembers ==
  ASSUME NEW f \in Families, NEW g \in Families
  PROVE  /\ \A s : s \in Meets(f, g) <=> \E p \in f : \E q \in g : s = p \cap q
         /\ Meets(f, g) \in Families
         /\ \A v : Below(f, v) /\ Below(g, v) => Below(Meets(f, g), v)
         /\ Meets(f, g) = Meets(g, f)
<1>1. \A x, y, s : s \in Meets(x, y) <=> \E p \in x : \E q \in y : s = p \cap q
  <2>1. ASSUME NEW x, NEW y, NEW s, s \in Meets(x, y)
        PROVE  \E p \in x : \E q \in y : s = p \cap q
    <3>1. PICK pq \in x \X y : s = pq[1] \cap pq[2]
      BY <2>1, Promises DEF Meets
    <3>2. pq[1] \in x /\ pq[2] \in y
      BY <3>1
    <3>3. QED
      BY <3>1, <3>2
  <2>2. ASSUME NEW x, NEW y, NEW p \in x, NEW q \in y, NEW s, s = p \cap q
        PROVE  s \in Meets(x, y)
    <3>1. <<p, q>> \in x \X y /\ <<p, q>>[1] = p /\ <<p, q>>[2] = q
      OBVIOUS
    <3>2. QED
      BY <2>2, <3>1, Promises DEF Meets
  <2>3. QED
    BY <2>1, <2>2
<1>2. \A s \in Meets(f, g) : s \subseteq Support(f) \cup Support(g)
  BY <1>1 DEF Support
<1>3. Meets(f, g) \in Families /\ \A v : Below(f, v) /\ Below(g, v) => Below(Meets(f, g), v)
  BY <1>2, Inside
<1>4. \A s : s \in Meets(f, g) <=> s \in Meets(g, f)
  <2>1. \A p, q : p \cap q = q \cap p
    OBVIOUS
  <2>2. QED
    BY <1>1, <2>1
<1>5. Meets(f, g) = Meets(g, f)
  BY <1>4
<1>6. QED
  BY <1>1, <1>3, <1>5

Deltas(f, g) == LoopPromise("bdddelta", <<f, g>>)

\* Membership in a delta; it is a family, and the operands commute.
LEMMA DeltaMembers ==
  ASSUME NEW f \in Families, NEW g \in Families
  PROVE  /\ \A s : s \in Deltas(f, g) <=> \E p \in f : \E q \in g : s = (p \ q) \cup (q \ p)
         /\ Deltas(f, g) \in Families
         /\ \A v : Below(f, v) /\ Below(g, v) => Below(Deltas(f, g), v)
         /\ Deltas(f, g) = Deltas(g, f)
<1>1. \A x, y, s : s \in Deltas(x, y) <=> \E p \in x : \E q \in y : s = (p \ q) \cup (q \ p)
  <2>1. ASSUME NEW x, NEW y, NEW s, s \in Deltas(x, y)
        PROVE  \E p \in x : \E q \in y : s = (p \ q) \cup (q \ p)
    <3>1. PICK pq \in x \X y : s = (pq[1] \ pq[2]) \cup (pq[2] \ pq[1])
      BY <2>1, Promises DEF Deltas, SymDiff
    <3>2. pq[1] \in x /\ pq[2] \in y
      BY <3>1
    <3>3. QED
      BY <3>1, <3>2
  <2>2. ASSUME NEW x, NEW y, NEW p \in x, NEW q \in y, NEW s, s = (p \ q) \cup (q \ p)
        PROVE  s \in Deltas(x, y)
    <3>1. <<p, q>> \in x \X y /\ <<p, q>>[1] = p /\ <<p, q>>[2] = q
      OBVIOUS
    <3>2. QED
      BY <2>2, <3>1, Promises DEF Deltas, SymDiff
  <2>3. QED
    BY <2>1, <2>2
<1>2. \A s \in Deltas(f, g) : s \subseteq Support(f) \cup Support(g)
  BY <1>1 DEF Support
<1>3. Deltas(f, g) \in Families /\ \A v : Below(f, v) /\ Below(g, v) => Below(Deltas(f, g), v)
  BY <1>2, Inside
<1>4. \A s : s \in Deltas(f, g) <=> s \in Deltas(g, f)
  <2>1. \A p, q : (p \ q) \cup (q \ p) = (q \ p) \cup (p \ q)
    OBVIOUS
  <2>2. QED
    BY <1>1, <2>1
<1>5. Deltas(f, g) = Deltas(g, f)
  BY <1>4
<1>6. QED
  BY <1>1, <1>3, <1>5

Apart(p, q) == p \cap q = {}

Disjoins(f, g) == LoopPromise("bdddisjoin", <<f, g>>)

\* Membership in a disjoint join; it is a family, and the operands commute.
LEMMA DisjoinMembers ==
  ASSUME NEW f \in Families, NEW g \in Families
  PROVE  /\ \A s : s \in Disjoins(f, g) <=> \E p \in f : \E q \in g : Apart(p, q) /\ s = p \cup q
         /\ Disjoins(f, g) \in Families
         /\ \A v : Below(f, v) /\ Below(g, v) => Below(Disjoins(f, g), v)
         /\ Disjoins(f, g) = Disjoins(g, f)
<1>1. \A x, y, s : s \in Disjoins(x, y) <=> \E p \in x : \E q \in y : Apart(p, q) /\ s = p \cup q
  <2>1. ASSUME NEW x, NEW y, NEW s, s \in Disjoins(x, y)
        PROVE  \E p \in x : \E q \in y : Apart(p, q) /\ s = p \cup q
    <3>a. Disjoins(x, y) =
            {r[1] \cup r[2] : r \in {r \in x \X y : r[1] \cap r[2] = {}}}
      <4>1. \A f0, g0 : LoopPromise("bdddisjoin", <<f0, g0>>) =
                          {r[1] \cup r[2] : r \in {r \in f0 \X g0 : r[1] \cap r[2] = {}}}
        BY Promises, Zenon
      <4>2. QED
        BY <4>1, Zenon DEF Disjoins
    <3>b. PICK r \in {r \in x \X y : r[1] \cap r[2] = {}} : s = r[1] \cup r[2]
      BY <2>1, <3>a
    <3>1. PICK pq \in x \X y : Apart(pq[1], pq[2]) /\ s = pq[1] \cup pq[2]
      BY <3>b DEF Apart
    <3>2. pq[1] \in x /\ pq[2] \in y
      BY <3>1
    <3>3. QED
      BY <3>1, <3>2
  <2>2. ASSUME NEW x, NEW y, NEW p \in x, NEW q \in y, NEW s, Apart(p, q) /\ s = p \cup q
        PROVE  s \in Disjoins(x, y)
    <3>1. <<p, q>> \in x \X y /\ <<p, q>>[1] = p /\ <<p, q>>[2] = q
      OBVIOUS
    <3>2. QED
      BY <2>2, <3>1, Promises DEF Disjoins, Apart
  <2>3. QED
    BY <2>1, <2>2
<1>2. \A s \in Disjoins(f, g) : s \subseteq Support(f) \cup Support(g)
  BY <1>1 DEF Support
<1>3. Disjoins(f, g) \in Families /\ \A v : Below(f, v) /\ Below(g, v) => Below(Disjoins(f, g), v)
  BY <1>2, Inside
<1>4. \A s : s \in Disjoins(f, g) <=> s \in Disjoins(g, f)
  <2>1. \A p, q : p \cup q = q \cup p /\ (Apart(p, q) <=> Apart(q, p))
    BY DEF Apart
  <2>2. QED
    BY <1>1, <2>1
<1>5. Disjoins(f, g) = Disjoins(g, f)
  BY <1>4
<1>6. QED
  BY <1>1, <1>3, <1>5

\* The sides of a join are joins of the sides.
LEMMA JoinSplit ==
  ASSUME NEW f \in Families, NEW g \in Families, NEW v \in Vars
  PROVE  \A s : (s \in Joins(f, g) <=>
               (v \notin s /\ (s \in Joins(Off(f, v), Off(g, v))))
                 \/ (v \in s /\ (s \ {v} \in Joins(Off(f, v), On(g, v))
                            \/ s \ {v} \in Joins(On(f, v), Off(g, v))
                            \/ s \ {v} \in Joins(On(f, v), On(g, v)))))
<1> DEFINE f0 == Off(f, v)
           f1 == On(f, v)
           g0 == Off(g, v)
           g1 == On(g, v)
<1>1. f0 \in Families /\ f1 \in Families /\ g0 \in Families /\ g1 \in Families
  BY SideFacts
<1>2. \A x, y \in Families : \A s : s \in Joins(x, y) <=> \E p \in x : \E q \in y : s = p \cup q
  BY JoinMembers
<1>3. /\ \A s : v \notin s => (s \in f <=> s \in f0)
      /\ \A s : v \in s => (s \in f <=> s \ {v} \in f1)
      /\ \A s \in f0 : v \notin s /\ s \in f
      /\ \A s \in f1 : v \notin s /\ s \cup {v} \in f
  BY InOrOut
<1>4. /\ \A s : v \notin s => (s \in g <=> s \in g0)
      /\ \A s : v \in s => (s \in g <=> s \ {v} \in g1)
      /\ \A s \in g0 : v \notin s /\ s \in g
      /\ \A s \in g1 : v \notin s /\ s \cup {v} \in g
  BY InOrOut
<1> HIDE DEF f0, f1, g0, g1
<1>5. ASSUME NEW s, s \in Joins(f, g)
      PROVE  (v \notin s /\ (s \in Joins(f0, g0)))
          \/ (v \in s /\ (s \ {v} \in Joins(f0, g1)
                     \/ s \ {v} \in Joins(f1, g0)
                     \/ s \ {v} \in Joins(f1, g1)))
  <2>1. PICK p \in f : \E q \in g : s = p \cup q
    BY <1>2, <1>5
  <2>2. PICK q \in g : s = p \cup q
    BY <2>1
  <2>3. CASE v \notin p /\ v \notin q
    <3>1. p \in f0 /\ q \in g0
      BY <1>3, <1>4, <2>3
    <3>2. v \notin s /\ s = p \cup q
      BY <2>2, <2>3
    <3>3. s \in Joins(f0, g0)
      BY <1>1, <1>2, <3>1, <3>2
    <3>4. QED
      BY <3>2, <3>3
  <2>4. CASE v \notin p /\ v \in q
    <3>1. p \in f0 /\ q \ {v} \in g1
      BY <1>3, <1>4, <2>4
    <3>2. v \in s /\ s \ {v} = p \cup (q \ {v})
      BY <2>2, <2>4
    <3>3. s \ {v} \in Joins(f0, g1)
      BY <1>1, <1>2, <3>1, <3>2
    <3>4. QED
      BY <3>2, <3>3
  <2>5. CASE v \in p /\ v \notin q
    <3>1. p \ {v} \in f1 /\ q \in g0
      BY <1>3, <1>4, <2>5
    <3>2. v \in s /\ s \ {v} = (p \ {v}) \cup q
      BY <2>2, <2>5
    <3>3. s \ {v} \in Joins(f1, g0)
      BY <1>1, <1>2, <3>1, <3>2
    <3>4. QED
      BY <3>2, <3>3
  <2>6. CASE v \in p /\ v \in q
    <3>1. p \ {v} \in f1 /\ q \ {v} \in g1
      BY <1>3, <1>4, <2>6
    <3>2. v \in s /\ s \ {v} = (p \ {v}) \cup (q \ {v})
      BY <2>2, <2>6
    <3>3. s \ {v} \in Joins(f1, g1)
      BY <1>1, <1>2, <3>1, <3>2
    <3>4. QED
      BY <3>2, <3>3
  <2>7. QED
    BY <2>3, <2>4, <2>5, <2>6
<1>6. ASSUME NEW s, v \notin s, s \in Joins(f0, g0)
      PROVE  s \in Joins(f, g)
  <2>1. PICK p \in f0 : \E q \in g0 : s = p \cup q
    BY <1>1, <1>2, <1>6
  <2>2. PICK q \in g0 : s = p \cup q
    BY <2>1
  <2>3. v \notin p /\ v \notin q /\ p \in f /\ q \in g
    BY <1>3, <1>4
  <2>4. s = p \cup q
    BY <1>6, <2>2, <2>3
  <2>5. QED
    BY <1>2, <2>3, <2>4
<1>7. ASSUME NEW s, v \in s, s \ {v} \in Joins(f0, g1)
      PROVE  s \in Joins(f, g)
  <2>1. PICK t : t = s \ {v}
    OBVIOUS
  <2>2. t \in Joins(f0, g1)
    BY <1>7, <2>1
  <2>3. PICK p \in f0 : \E q \in g1 : t = p \cup q
    BY <1>1, <1>2, <2>2
  <2>4. PICK q \in g1 : t = p \cup q
    BY <2>3
  <2>5. v \notin p /\ v \notin q /\ p \in f /\ q \cup {v} \in g
    BY <1>3, <1>4
  <2>6. s = p \cup (q \cup {v})
    BY <1>7, <2>1, <2>4, <2>5
  <2>7. QED
    BY <1>2, <2>5, <2>6
<1>8. ASSUME NEW s, v \in s, s \ {v} \in Joins(f1, g0)
      PROVE  s \in Joins(f, g)
  <2>1. PICK t : t = s \ {v}
    OBVIOUS
  <2>2. t \in Joins(f1, g0)
    BY <1>8, <2>1
  <2>3. PICK p \in f1 : \E q \in g0 : t = p \cup q
    BY <1>1, <1>2, <2>2
  <2>4. PICK q \in g0 : t = p \cup q
    BY <2>3
  <2>5. v \notin p /\ v \notin q /\ p \cup {v} \in f /\ q \in g
    BY <1>3, <1>4
  <2>6. s = (p \cup {v}) \cup q
    BY <1>8, <2>1, <2>4, <2>5
  <2>7. QED
    BY <1>2, <2>5, <2>6
<1>9. ASSUME NEW s, v \in s, s \ {v} \in Joins(f1, g1)
      PROVE  s \in Joins(f, g)
  <2>1. PICK t : t = s \ {v}
    OBVIOUS
  <2>2. t \in Joins(f1, g1)
    BY <1>9, <2>1
  <2>3. PICK p \in f1 : \E q \in g1 : t = p \cup q
    BY <1>1, <1>2, <2>2
  <2>4. PICK q \in g1 : t = p \cup q
    BY <2>3
  <2>5. v \notin p /\ v \notin q /\ p \cup {v} \in f /\ q \cup {v} \in g
    BY <1>3, <1>4
  <2>6. s = (p \cup {v}) \cup (q \cup {v})
    BY <1>9, <2>1, <2>4, <2>5
  <2>7. QED
    BY <1>2, <2>5, <2>6
<1>10. QED
  BY <1>5, <1>6, <1>7, <1>8, <1>9 DEF f0, f1, g0, g1

\* The sides of a meet are meets of the sides.
LEMMA MeetSplit ==
  ASSUME NEW f \in Families, NEW g \in Families, NEW v \in Vars
  PROVE  \A s : (s \in Meets(f, g) <=>
               (v \notin s /\ (s \in Meets(Off(f, v), Off(g, v)) 
                            \/ s \in Meets(Off(f, v), On(g, v)) 
                            \/ s \in Meets(On(f, v), Off(g, v))))
                 \/ (v \in s /\ (s \ {v} \in Meets(On(f, v), On(g, v)))))
<1> DEFINE f0 == Off(f, v)
           f1 == On(f, v)
           g0 == Off(g, v)
           g1 == On(g, v)
<1>1. f0 \in Families /\ f1 \in Families /\ g0 \in Families /\ g1 \in Families
  BY SideFacts
<1>2. \A x, y \in Families : \A s : s \in Meets(x, y) <=> \E p \in x : \E q \in y : s = p \cap q
  BY MeetMembers
<1>3. /\ \A s : v \notin s => (s \in f <=> s \in f0)
      /\ \A s : v \in s => (s \in f <=> s \ {v} \in f1)
      /\ \A s \in f0 : v \notin s /\ s \in f
      /\ \A s \in f1 : v \notin s /\ s \cup {v} \in f
  BY InOrOut
<1>4. /\ \A s : v \notin s => (s \in g <=> s \in g0)
      /\ \A s : v \in s => (s \in g <=> s \ {v} \in g1)
      /\ \A s \in g0 : v \notin s /\ s \in g
      /\ \A s \in g1 : v \notin s /\ s \cup {v} \in g
  BY InOrOut
<1> HIDE DEF f0, f1, g0, g1
<1>5. ASSUME NEW s, s \in Meets(f, g)
      PROVE  (v \notin s /\ (s \in Meets(f0, g0) 
                     \/ s \in Meets(f0, g1) 
                     \/ s \in Meets(f1, g0)))
          \/ (v \in s /\ (s \ {v} \in Meets(f1, g1)))
  <2>1. PICK p \in f : \E q \in g : s = p \cap q
    BY <1>2, <1>5
  <2>2. PICK q \in g : s = p \cap q
    BY <2>1
  <2>3. CASE v \notin p /\ v \notin q
    <3>1. p \in f0 /\ q \in g0
      BY <1>3, <1>4, <2>3
    <3>2. v \notin s /\ s = p \cap q
      BY <2>2, <2>3
    <3>3. s \in Meets(f0, g0)
      BY <1>1, <1>2, <3>1, <3>2
    <3>4. QED
      BY <3>2, <3>3
  <2>4. CASE v \notin p /\ v \in q
    <3>1. p \in f0 /\ q \ {v} \in g1
      BY <1>3, <1>4, <2>4
    <3>2. v \notin s /\ s = p \cap (q \ {v})
      BY <2>2, <2>4
    <3>3. s \in Meets(f0, g1)
      BY <1>1, <1>2, <3>1, <3>2
    <3>4. QED
      BY <3>2, <3>3
  <2>5. CASE v \in p /\ v \notin q
    <3>1. p \ {v} \in f1 /\ q \in g0
      BY <1>3, <1>4, <2>5
    <3>2. v \notin s /\ s = (p \ {v}) \cap q
      BY <2>2, <2>5
    <3>3. s \in Meets(f1, g0)
      BY <1>1, <1>2, <3>1, <3>2
    <3>4. QED
      BY <3>2, <3>3
  <2>6. CASE v \in p /\ v \in q
    <3>1. p \ {v} \in f1 /\ q \ {v} \in g1
      BY <1>3, <1>4, <2>6
    <3>2. v \in s /\ s \ {v} = (p \ {v}) \cap (q \ {v})
      BY <2>2, <2>6
    <3>3. s \ {v} \in Meets(f1, g1)
      BY <1>1, <1>2, <3>1, <3>2
    <3>4. QED
      BY <3>2, <3>3
  <2>7. QED
    BY <2>3, <2>4, <2>5, <2>6
<1>6. ASSUME NEW s, v \notin s, s \in Meets(f0, g0)
      PROVE  s \in Meets(f, g)
  <2>1. PICK p \in f0 : \E q \in g0 : s = p \cap q
    BY <1>1, <1>2, <1>6
  <2>2. PICK q \in g0 : s = p \cap q
    BY <2>1
  <2>3. v \notin p /\ v \notin q /\ p \in f /\ q \in g
    BY <1>3, <1>4
  <2>4. s = p \cap q
    BY <1>6, <2>2, <2>3
  <2>5. QED
    BY <1>2, <2>3, <2>4
<1>7. ASSUME NEW s, v \notin s, s \in Meets(f0, g1)
      PROVE  s \in Meets(f, g)
  <2>1. PICK p \in f0 : \E q \in g1 : s = p \cap q
    BY <1>1, <1>2, <1>7
  <2>2. PICK q \in g1 : s = p \cap q
    BY <2>1
  <2>3. v \notin p /\ v \notin q /\ p \in f /\ q \cup {v} \in g
    BY <1>3, <1>4
  <2>4. s = p \cap (q \cup {v})
    BY <1>7, <2>2, <2>3
  <2>5. QED
    BY <1>2, <2>3, <2>4
<1>8. ASSUME NEW s, v \notin s, s \in Meets(f1, g0)
      PROVE  s \in Meets(f, g)
  <2>1. PICK p \in f1 : \E q \in g0 : s = p \cap q
    BY <1>1, <1>2, <1>8
  <2>2. PICK q \in g0 : s = p \cap q
    BY <2>1
  <2>3. v \notin p /\ v \notin q /\ p \cup {v} \in f /\ q \in g
    BY <1>3, <1>4
  <2>4. s = (p \cup {v}) \cap q
    BY <1>8, <2>2, <2>3
  <2>5. QED
    BY <1>2, <2>3, <2>4
<1>9. ASSUME NEW s, v \in s, s \ {v} \in Meets(f1, g1)
      PROVE  s \in Meets(f, g)
  <2>1. PICK t : t = s \ {v}
    OBVIOUS
  <2>2. t \in Meets(f1, g1)
    BY <1>9, <2>1
  <2>3. PICK p \in f1 : \E q \in g1 : t = p \cap q
    BY <1>1, <1>2, <2>2
  <2>4. PICK q \in g1 : t = p \cap q
    BY <2>3
  <2>5. v \notin p /\ v \notin q /\ p \cup {v} \in f /\ q \cup {v} \in g
    BY <1>3, <1>4
  <2>6. s = (p \cup {v}) \cap (q \cup {v})
    BY <1>9, <2>1, <2>4, <2>5
  <2>7. QED
    BY <1>2, <2>5, <2>6
<1>10. QED
  BY <1>5, <1>6, <1>7, <1>8, <1>9 DEF f0, f1, g0, g1

\* The sides of a delta are deltas of the sides.
LEMMA DeltaSplit ==
  ASSUME NEW f \in Families, NEW g \in Families, NEW v \in Vars
  PROVE  \A s : (s \in Deltas(f, g) <=>
               (v \notin s /\ (s \in Deltas(Off(f, v), Off(g, v)) 
                            \/ s \in Deltas(On(f, v), On(g, v))))
                 \/ (v \in s /\ (s \ {v} \in Deltas(Off(f, v), On(g, v))
                            \/ s \ {v} \in Deltas(On(f, v), Off(g, v)))))
<1> DEFINE f0 == Off(f, v)
           f1 == On(f, v)
           g0 == Off(g, v)
           g1 == On(g, v)
<1>1. f0 \in Families /\ f1 \in Families /\ g0 \in Families /\ g1 \in Families
  BY SideFacts
<1>2. \A x, y \in Families : \A s :
        s \in Deltas(x, y) <=> \E p \in x : \E q \in y : s = (p \ q) \cup (q \ p)
  BY DeltaMembers
<1>3. /\ \A s : v \notin s => (s \in f <=> s \in f0)
      /\ \A s : v \in s => (s \in f <=> s \ {v} \in f1)
      /\ \A s \in f0 : v \notin s /\ s \in f
      /\ \A s \in f1 : v \notin s /\ s \cup {v} \in f
  BY InOrOut
<1>4. /\ \A s : v \notin s => (s \in g <=> s \in g0)
      /\ \A s : v \in s => (s \in g <=> s \ {v} \in g1)
      /\ \A s \in g0 : v \notin s /\ s \in g
      /\ \A s \in g1 : v \notin s /\ s \cup {v} \in g
  BY InOrOut
<1> HIDE DEF f0, f1, g0, g1
<1>5. ASSUME NEW s, s \in Deltas(f, g)
      PROVE  (v \notin s /\ (s \in Deltas(f0, g0) 
                     \/ s \in Deltas(f1, g1)))
          \/ (v \in s /\ (s \ {v} \in Deltas(f0, g1)
                     \/ s \ {v} \in Deltas(f1, g0)))
  <2>1. PICK p \in f : \E q \in g : s = (p \ q) \cup (q \ p)
    BY <1>2, <1>5
  <2>2. PICK q \in g : s = (p \ q) \cup (q \ p)
    BY <2>1
  <2>3. CASE v \notin p /\ v \notin q
    <3>1. p \in f0 /\ q \in g0
      BY <1>3, <1>4, <2>3
    <3>2. v \notin s /\ s = (p \ q) \cup (q \ p)
      BY <2>2, <2>3
    <3>3. s \in Deltas(f0, g0)
      BY <1>1, <1>2, <3>1, <3>2
    <3>4. QED
      BY <3>2, <3>3
  <2>4. CASE v \notin p /\ v \in q
    <3>1. p \in f0 /\ q \ {v} \in g1
      BY <1>3, <1>4, <2>4
    <3>2. v \in s /\ s \ {v} = (p \ (q \ {v})) \cup ((q \ {v}) \ p)
      BY <2>2, <2>4
    <3>3. s \ {v} \in Deltas(f0, g1)
      BY <1>1, <1>2, <3>1, <3>2
    <3>4. QED
      BY <3>2, <3>3
  <2>5. CASE v \in p /\ v \notin q
    <3>1. p \ {v} \in f1 /\ q \in g0
      BY <1>3, <1>4, <2>5
    <3>2. v \in s /\ s \ {v} = ((p \ {v}) \ q) \cup (q \ (p \ {v}))
      BY <2>2, <2>5
    <3>3. s \ {v} \in Deltas(f1, g0)
      BY <1>1, <1>2, <3>1, <3>2
    <3>4. QED
      BY <3>2, <3>3
  <2>6. CASE v \in p /\ v \in q
    <3>1. p \ {v} \in f1 /\ q \ {v} \in g1
      BY <1>3, <1>4, <2>6
    <3>2. v \notin s /\ s = ((p \ {v}) \ (q \ {v})) \cup ((q \ {v}) \ (p \ {v}))
      BY <2>2, <2>6
    <3>3. s \in Deltas(f1, g1)
      BY <1>1, <1>2, <3>1, <3>2
    <3>4. QED
      BY <3>2, <3>3
  <2>7. QED
    BY <2>3, <2>4, <2>5, <2>6
<1>6. ASSUME NEW s, v \notin s, s \in Deltas(f0, g0)
      PROVE  s \in Deltas(f, g)
  <2>1. PICK p \in f0 : \E q \in g0 : s = (p \ q) \cup (q \ p)
    BY <1>1, <1>2, <1>6
  <2>2. PICK q \in g0 : s = (p \ q) \cup (q \ p)
    BY <2>1
  <2>3. v \notin p /\ v \notin q /\ p \in f /\ q \in g
    BY <1>3, <1>4
  <2>4. s = (p \ q) \cup (q \ p)
    BY <1>6, <2>2, <2>3
  <2>5. QED
    BY <1>2, <2>3, <2>4
<1>7. ASSUME NEW s, v \in s, s \ {v} \in Deltas(f0, g1)
      PROVE  s \in Deltas(f, g)
  <2>1. PICK t : t = s \ {v}
    OBVIOUS
  <2>2. t \in Deltas(f0, g1)
    BY <1>7, <2>1
  <2>3. PICK p \in f0 : \E q \in g1 : t = (p \ q) \cup (q \ p)
    BY <1>1, <1>2, <2>2
  <2>4. PICK q \in g1 : t = (p \ q) \cup (q \ p)
    BY <2>3
  <2>5. v \notin p /\ v \notin q /\ p \in f /\ q \cup {v} \in g
    BY <1>3, <1>4
  <2>6. s = (p \ (q \cup {v})) \cup ((q \cup {v}) \ p)
    BY <1>7, <2>1, <2>4, <2>5
  <2>7. QED
    BY <1>2, <2>5, <2>6
<1>8. ASSUME NEW s, v \in s, s \ {v} \in Deltas(f1, g0)
      PROVE  s \in Deltas(f, g)
  <2>1. PICK t : t = s \ {v}
    OBVIOUS
  <2>2. t \in Deltas(f1, g0)
    BY <1>8, <2>1
  <2>3. PICK p \in f1 : \E q \in g0 : t = (p \ q) \cup (q \ p)
    BY <1>1, <1>2, <2>2
  <2>4. PICK q \in g0 : t = (p \ q) \cup (q \ p)
    BY <2>3
  <2>5. v \notin p /\ v \notin q /\ p \cup {v} \in f /\ q \in g
    BY <1>3, <1>4
  <2>6. s = ((p \cup {v}) \ q) \cup (q \ (p \cup {v}))
    BY <1>8, <2>1, <2>4, <2>5
  <2>7. QED
    BY <1>2, <2>5, <2>6
<1>9. ASSUME NEW s, v \notin s, s \in Deltas(f1, g1)
      PROVE  s \in Deltas(f, g)
  <2>1. PICK p \in f1 : \E q \in g1 : s = (p \ q) \cup (q \ p)
    BY <1>1, <1>2, <1>9
  <2>2. PICK q \in g1 : s = (p \ q) \cup (q \ p)
    BY <2>1
  <2>3. v \notin p /\ v \notin q /\ p \cup {v} \in f /\ q \cup {v} \in g
    BY <1>3, <1>4
  <2>4. s = ((p \cup {v}) \ (q \cup {v})) \cup ((q \cup {v}) \ (p \cup {v}))
    BY <1>9, <2>2, <2>3
  <2>5. QED
    BY <1>2, <2>3, <2>4
<1>10. QED
  BY <1>5, <1>6, <1>7, <1>8, <1>9 DEF f0, f1, g0, g1

\* The sides of a disjoint join: v is in one of the two sets only.
LEMMA DisjoinSplit ==
  ASSUME NEW f \in Families, NEW g \in Families, NEW v \in Vars
  PROVE  \A s : (s \in Disjoins(f, g) <=>
               (v \notin s /\ (s \in Disjoins(Off(f, v), Off(g, v))))
                 \/ (v \in s /\ (s \ {v} \in Disjoins(Off(f, v), On(g, v))
                            \/ s \ {v} \in Disjoins(On(f, v), Off(g, v)))))
<1> DEFINE f0 == Off(f, v)
           f1 == On(f, v)
           g0 == Off(g, v)
           g1 == On(g, v)
<1>1. f0 \in Families /\ f1 \in Families /\ g0 \in Families /\ g1 \in Families
  BY SideFacts
<1>2. \A x, y \in Families : \A s :
        s \in Disjoins(x, y) <=> \E p \in x : \E q \in y : Apart(p, q) /\ s = p \cup q
  BY DisjoinMembers
<1>3. /\ \A s : v \notin s => (s \in f <=> s \in f0)
      /\ \A s : v \in s => (s \in f <=> s \ {v} \in f1)
      /\ \A s \in f0 : v \notin s /\ s \in f
      /\ \A s \in f1 : v \notin s /\ s \cup {v} \in f
  BY InOrOut
<1>4. /\ \A s : v \notin s => (s \in g <=> s \in g0)
      /\ \A s : v \in s => (s \in g <=> s \ {v} \in g1)
      /\ \A s \in g0 : v \notin s /\ s \in g
      /\ \A s \in g1 : v \notin s /\ s \cup {v} \in g
  BY InOrOut
<1> HIDE DEF f0, f1, g0, g1
<1>5. ASSUME NEW s, s \in Disjoins(f, g)
      PROVE  (v \notin s /\ (s \in Disjoins(f0, g0)))
          \/ (v \in s /\ (s \ {v} \in Disjoins(f0, g1)
                     \/ s \ {v} \in Disjoins(f1, g0)))
  <2>1. PICK p \in f : \E q \in g : Apart(p, q) /\ s = p \cup q
    BY <1>2, <1>5
  <2>2. PICK q \in g : Apart(p, q) /\ s = p \cup q
    BY <2>1
  <2>3. CASE v \notin p /\ v \notin q
    <3>1. p \in f0 /\ q \in g0
      BY <1>3, <1>4, <2>3
    <3>2. v \notin s /\ Apart(p, q) /\ s = p \cup q
      BY <2>2, <2>3 DEF Apart
    <3>3. s \in Disjoins(f0, g0)
      BY <1>1, <1>2, <3>1, <3>2
    <3>4. QED
      BY <3>2, <3>3
  <2>4. CASE v \notin p /\ v \in q
    <3>1. p \in f0 /\ q \ {v} \in g1
      BY <1>3, <1>4, <2>4
    <3>2. v \in s /\ Apart(p, (q \ {v})) /\ s \ {v} = p \cup (q \ {v})
      BY <2>2, <2>4 DEF Apart
    <3>3. s \ {v} \in Disjoins(f0, g1)
      BY <1>1, <1>2, <3>1, <3>2
    <3>4. QED
      BY <3>2, <3>3
  <2>5. CASE v \in p /\ v \notin q
    <3>1. p \ {v} \in f1 /\ q \in g0
      BY <1>3, <1>4, <2>5
    <3>2. v \in s /\ Apart((p \ {v}), q) /\ s \ {v} = (p \ {v}) \cup q
      BY <2>2, <2>5 DEF Apart
    <3>3. s \ {v} \in Disjoins(f1, g0)
      BY <1>1, <1>2, <3>1, <3>2
    <3>4. QED
      BY <3>2, <3>3
  <2>6. ~ (v \in p /\ v \in q)
    BY <2>2 DEF Apart
  <2>7. QED
    BY <2>3, <2>4, <2>5, <2>6
<1>6. ASSUME NEW s, v \notin s, s \in Disjoins(f0, g0)
      PROVE  s \in Disjoins(f, g)
  <2>1. PICK p \in f0 : \E q \in g0 : Apart(p, q) /\ s = p \cup q
    BY <1>1, <1>2, <1>6
  <2>2. PICK q \in g0 : Apart(p, q) /\ s = p \cup q
    BY <2>1
  <2>3. v \notin p /\ v \notin q /\ p \in f /\ q \in g
    BY <1>3, <1>4
  <2>4. Apart(p, q) /\ s = p \cup q
    BY <1>6, <2>2, <2>3 DEF Apart
  <2>5. QED
    BY <1>2, <2>3, <2>4
<1>7. ASSUME NEW s, v \in s, s \ {v} \in Disjoins(f0, g1)
      PROVE  s \in Disjoins(f, g)
  <2>1. PICK t : t = s \ {v}
    OBVIOUS
  <2>2. t \in Disjoins(f0, g1)
    BY <1>7, <2>1
  <2>3. PICK p \in f0 : \E q \in g1 : Apart(p, q) /\ t = p \cup q
    BY <1>1, <1>2, <2>2
  <2>4. PICK q \in g1 : Apart(p, q) /\ t = p \cup q
    BY <2>3
  <2>5. v \notin p /\ v \notin q /\ p \in f /\ q \cup {v} \in g
    BY <1>3, <1>4
  <2>6. Apart(p, (q \cup {v})) /\ s = p \cup (q \cup {v})
    BY <1>7, <2>1, <2>4, <2>5 DEF Apart
  <2>7. QED
    BY <1>2, <2>5, <2>6
<1>8. ASSUME NEW s, v \in s, s \ {v} \in Disjoins(f1, g0)
      PROVE  s \in Disjoins(f, g)
  <2>1. PICK t : t = s \ {v}
    OBVIOUS
  <2>2. t \in Disjoins(f1, g0)
    BY <1>8, <2>1
  <2>3. PICK p \in f1 : \E q \in g0 : Apart(p, q) /\ t = p \cup q
    BY <1>1, <1>2, <2>2
  <2>4. PICK q \in g0 : Apart(p, q) /\ t = p \cup q
    BY <2>3
  <2>5. v \notin p /\ v \notin q /\ p \cup {v} \in f /\ q \in g
    BY <1>3, <1>4
  <2>6. Apart((p \cup {v}), q) /\ s = (p \cup {v}) \cup q
    BY <1>8, <2>1, <2>4, <2>5 DEF Apart
  <2>7. QED
    BY <1>2, <2>5, <2>6
<1>9. QED
  BY <1>5, <1>6, <1>7, <1>8 DEF f0, f1, g0, g1

\* bddjoin: one pass is right.
LEMMA JoinRight ==
  ASSUME NEW a \in ArgsOf("bddjoin"), NEW got, Sequence(got), Asked("bddjoin", a, got)
  PROVE  PassRight("bddjoin", a, ZddLoop("bddjoin", a, got))
<1> DEFINE op == "bddjoin"
<1>1. PICK f \in Families, g \in Families : a = <<f, g>>
  BY Arguments DEF TwoFamilies
<1>2. \A h : ZddLoop(op, a, h) = bddjoin_iter(<<f, g>>, h)
  BY <1>1, Bodies
<1>3. /\ \A x, y : LoopPromise(op, <<x, y>>) = Joins(x, y)
      /\ \A x, y \in Families : <<x, y>> \in ArgsOf(op)
      /\ Asked(op, a, got)
  BY Arguments DEF Joins, TwoFamilies
<1>4. \A k \in Either(f, g) : LoopPromise(op, k) = LoopPromise(op, a)
  BY <1>1, <1>3, JoinMembers DEF Either
<1> DEFINE v == Higher(f, g)
<1> HIDE DEF op
<1>5. \A s : s \in Joins(f, g) <=> \E p \in f : \E q \in g : s = p \cup q
  BY <1>1, JoinMembers
<1>6. CASE Empty \in {f, g}
  <2>1. ZddLoop(op, a, got) = Answer(Empty)
    BY <1>2, <1>6 DEF bddjoin_iter
  <2>2. \A s : s \in Empty <=> s \in Joins(f, g)
    BY <1>5, <1>6 DEF Empty
  <2>3. Empty = LoopPromise(op, a)
    BY <1>1, <1>3, <2>2
  <2>4. PassRight(op, a, ZddLoop(op, a, got))
    BY <2>1, <2>3, AnswerPass
  <2>5. QED
    BY <2>4 DEF op
<1>7. CASE Empty \notin {f, g} /\ f = Single
  <2>1. ZddLoop(op, a, got) = Answer(g)
    BY <1>2, <1>7 DEF bddjoin_iter
  <2>2. \A p, q, s : p = {} => ((s = p \cup q) <=> s = q)
    OBVIOUS
  <2>3. \A s : s \in g <=> s \in Joins(f, g)
    <3>1. {} \in f /\ \A p \in f : p = {}
      BY <1>7 DEF Single
    <3>2. ASSUME NEW s, s \in g PROVE s \in Joins(f, g)
      <4>1. \E p \in f : \E q \in g : s = p \cup q
        BY <2>2, <3>1, <3>2
      <4>2. QED
        BY <1>5, <4>1
    <3>3. ASSUME NEW s, s \in Joins(f, g) PROVE s \in g
      <4>1. PICK p \in f : \E q \in g : s = p \cup q
        BY <1>5, <3>3
      <4>2. PICK q \in g : s = p \cup q
        BY <4>1
      <4>3. QED
        BY <2>2, <3>1, <4>2
    <3>4. QED
      BY <3>2, <3>3
  <2>4. g = LoopPromise(op, a)
    BY <1>1, <1>3, <2>3
  <2>5. PassRight(op, a, ZddLoop(op, a, got))
    BY <2>1, <2>4, AnswerPass
  <2>6. QED
    BY <2>5 DEF op
<1>8. CASE Empty \notin {f, g} /\ f # Single /\ g = Single
  <2>1. ZddLoop(op, a, got) = Answer(f)
    BY <1>2, <1>8 DEF bddjoin_iter
  <2>2. \A p, q, s : q = {} => ((s = p \cup q) <=> s = p)
    OBVIOUS
  <2>3. \A s : s \in f <=> s \in Joins(f, g)
    <3>1. {} \in g /\ \A p \in g : p = {}
      BY <1>8 DEF Single
    <3>2. ASSUME NEW s, s \in f PROVE s \in Joins(f, g)
      <4>1. \E p \in f : \E q \in g : s = p \cup q
        BY <2>2, <3>1, <3>2
      <4>2. QED
        BY <1>5, <4>1
    <3>3. ASSUME NEW s, s \in Joins(f, g) PROVE s \in f
      <4>1. PICK p \in f : \E q \in g : s = p \cup q
        BY <1>5, <3>3
      <4>2. PICK q \in g : s = p \cup q
        BY <4>1
      <4>3. QED
        BY <2>2, <3>1, <4>2
    <3>4. QED
      BY <3>2, <3>3
  <2>4. f = LoopPromise(op, a)
    BY <1>1, <1>3, <2>3
  <2>5. PassRight(op, a, ZddLoop(op, a, got))
    BY <2>1, <2>4, AnswerPass
  <2>6. QED
    BY <2>5 DEF op
<1>9. CASE Empty \notin {f, g} /\ f # Single /\ g # Single /\ Level(f) # Level(g)
  <2>1. ~ Terminal(f) /\ ~ Terminal(g)
    BY <1>9 DEF Terminal
  <2>2. \A h : ZddLoop(op, a, h) =
               Open(Either(f, g), <<<<Off(f, v), Off(g, v)>>, <<Down(f, v), Down(g, v)>>>>, h,
                    Node(v, h[1], h[2]))
    BY <1>2, <1>9 DEF bddjoin_iter
  <2>3. /\ v \in Vars
        /\ Off(f, v) \in Families /\ Below(Off(f, v), v)
        /\ Off(g, v) \in Families /\ Below(Off(g, v), v)
        /\ On(f, v) \in Families /\ Below(On(f, v), v)
        /\ On(g, v) \in Families /\ Below(On(g, v), v)
    BY <1>1, <2>1, TwoSides
  <2>4. \/ Down(f, v) = On(f, v) /\ Down(g, v) = Off(g, v) /\ On(g, v) = {}
        \/ Down(g, v) = On(g, v) /\ Down(f, v) = Off(f, v) /\ On(f, v) = {}
    <3>1. Level(f) > Level(g) \/ Level(f) < Level(g)
      BY <1>1, <1>9, Levels
    <3>2. CASE Level(f) > Level(g)
      BY <1>1, <2>1, <3>2, TwoSides
    <3>3. CASE Level(f) < Level(g)
      BY <1>1, <2>1, <3>3, TwoSides
    <3>4. QED
      BY <3>1, <3>2, <3>3
  <2>5. Down(f, v) \in Families /\ Down(g, v) \in Families
        /\ Below(Down(f, v), v) /\ Below(Down(g, v), v)
    BY <2>3, <2>4
  <2>6. /\ Joins(Off(f, v), Off(g, v)) \in Families /\ Below(Joins(Off(f, v), Off(g, v)), v)
        /\ Joins(Down(f, v), Down(g, v)) \in Families
        /\ Below(Joins(Down(f, v), Down(g, v)), v)
    BY <2>3, <2>5, JoinMembers
  <2>7. /\ \A x \in Families : \A s : s \notin Joins(x, {})
        /\ \A x \in Families : \A s : s \notin Joins({}, x)
    BY JoinMembers, Constants DEF Empty
  <2>8. \A s : (s \in Joins(f, g) <=>
                  (v \notin s /\ s \in Joins(Off(f, v), Off(g, v)))
                    \/ (v \in s /\ s \ {v} \in Joins(Down(f, v), Down(g, v))))
    <3>1. \A s : (s \in Joins(f, g) <=>
                    (v \notin s /\ s \in Joins(Off(f, v), Off(g, v)))
                      \/ (v \in s /\ (s \ {v} \in Joins(Off(f, v), On(g, v))
                                    \/ s \ {v} \in Joins(On(f, v), Off(g, v)))))
      <4>1. \A s : s \notin Joins(On(f, v), On(g, v))
        BY <2>3, <2>4, <2>7
      <4>2. QED
        BY <1>1, <2>3, <4>1, JoinSplit
    <3>2. QED
      BY <2>3, <2>4, <2>7, <3>1
  <2>9. PassRight(op, a, ZddLoop(op, a, got))
    <3> DEFINE a1 == <<Off(f, v), Off(g, v)>>
               a2 == <<Down(f, v), Down(g, v)>>
    <3>1. a1 \in ArgsOf(op) /\ a2 \in ArgsOf(op)
      BY <1>3, <2>3, <2>5
    <3>2. /\ LoopPromise(op, a) = Joins(f, g)
          /\ LoopPromise(op, a1) = Joins(Off(f, v), Off(g, v))
          /\ LoopPromise(op, a2) = Joins(Down(f, v), Down(g, v))
      BY <1>1, <1>3
    <3>3. \A h : ZddLoop(op, a, h) = Open(Either(f, g), <<a1, a2>>, h, Node(v, h[1], h[2]))
      BY <2>2
    <3> HIDE DEF a1, a2
    <3>4. \A s : (s \in LoopPromise(op, a) <=>
                    (v \notin s /\ s \in LoopPromise(op, a1))
                      \/ (v \in s /\ s \ {v} \in LoopPromise(op, a2)))
      BY <2>8, <3>2
    <3>5. /\ LoopPromise(op, a1) \in Families /\ Below(LoopPromise(op, a1), v)
          /\ LoopPromise(op, a2) \in Families /\ Below(LoopPromise(op, a2), v)
      BY <2>6, <3>2
    <3>6. QED
      BY <1>3, <1>4, <2>3, <3>1, <3>3, <3>4, <3>5, NodePass
  <2>10. QED
    BY <2>9 DEF op
<1>10. CASE Empty \notin {f, g} /\ f # Single /\ g # Single /\ Level(f) = Level(g)
  <2>1. ~ Terminal(f) /\ ~ Terminal(g)
    BY <1>10 DEF Terminal
  <2>2. \A h : ZddLoop(op, a, h) =
               Open(Either(f, g),
                    <<<<Lo(f), Lo(g)>>, <<Lo(f), Hi(g)>>, <<Hi(f), Lo(g)>>, <<Hi(f), Hi(g)>>>>,
                    h, Node(v, h[1], h[2] \cup h[3] \cup h[4]))
    BY <1>2, <1>10 DEF bddjoin_iter
  <2>3. AsksOnly(op, a, Either(f, g),
                 <<<<Lo(f), Lo(g)>>, <<Lo(f), Hi(g)>>, <<Hi(f), Lo(g)>>, <<Hi(f), Hi(g)>>>>)
    BY <2>2 DEF AsksOnly
  <2>4. /\ v \in Vars
        /\ Lo(f) \in Families /\ Below(Lo(f), v)
        /\ Lo(g) \in Families /\ Below(Lo(g), v)
        /\ Hi(f) \in Families /\ Below(Hi(f), v)
        /\ Hi(g) \in Families /\ Below(Hi(g), v)
        /\ Lo(f) = Off(f, v) /\ Hi(f) = On(f, v)
        /\ Lo(g) = Off(g, v) /\ Hi(g) = On(g, v)
    BY <1>1, <1>10, <2>1, TwoSides
  <2>5. /\ Joins(Lo(f), Lo(g)) \in Families /\ Below(Joins(Lo(f), Lo(g)), v)
        /\ Joins(Lo(f), Hi(g)) \in Families /\ Below(Joins(Lo(f), Hi(g)), v)
        /\ Joins(Hi(f), Lo(g)) \in Families /\ Below(Joins(Hi(f), Lo(g)), v)
        /\ Joins(Hi(f), Hi(g)) \in Families /\ Below(Joins(Hi(f), Hi(g)), v)
    BY <2>4, JoinMembers
  <2>6. \A x, y \in Families : Below(x, v) /\ Below(y, v) =>
          x \cup y \in Families /\ Below(x \cup y, v)
    BY UnionBelow
  <2> DEFINE lo == Joins(Lo(f), Lo(g))
             hi == Joins(Lo(f), Hi(g)) \cup Joins(Hi(f), Lo(g)) \cup Joins(Hi(f), Hi(g))
  <2>7. lo \in Families /\ Below(lo, v) /\ hi \in Families /\ Below(hi, v)
    BY <2>5, <2>6
  <2>8. \A s : (s \in Joins(f, g) <=> (v \notin s /\ s \in lo) \/ (v \in s /\ s \ {v} \in hi))
    BY <1>1, <2>4, JoinSplit
  <2>9. Node(v, lo, hi) = LoopPromise(op, a)
    <3> HIDE DEF lo, hi
    <3>1. Node(v, lo, hi) = Joins(f, g)
      BY <2>4, <2>7, <2>8, NodeIs
    <3>2. QED
      BY <1>1, <1>3, <3>1
  <2>10. (got[1] = LoopPromise(op, <<Lo(f), Lo(g)>>)
             /\ got[2] = LoopPromise(op, <<Lo(f), Hi(g)>>)
             /\ got[3] = LoopPromise(op, <<Hi(f), Lo(g)>>)
             /\ got[4] = LoopPromise(op, <<Hi(f), Hi(g)>>))
           => Node(v, got[1], got[2] \cup got[3] \cup got[4]) = LoopPromise(op, a)
    BY <1>3, <2>9
  <2>11. /\ <<Lo(f), Lo(g)>> \in ArgsOf(op) /\ <<Lo(f), Hi(g)>> \in ArgsOf(op)
         /\ <<Hi(f), Lo(g)>> \in ArgsOf(op) /\ <<Hi(f), Hi(g)>> \in ArgsOf(op)
    BY <1>3, <2>4
  <2>12. PassRight(op, a, ZddLoop(op, a, got))
    BY <1>3, <1>4, <2>2, <2>3, <2>10, <2>11, OpenFour
  <2>13. QED
    BY <2>12 DEF op
<1>11. QED
  BY <1>6, <1>7, <1>8, <1>9, <1>10

\* bdddelta: one pass is right.
LEMMA DeltaRight ==
  ASSUME NEW a \in ArgsOf("bdddelta"), NEW got, Sequence(got), Asked("bdddelta", a, got)
  PROVE  PassRight("bdddelta", a, ZddLoop("bdddelta", a, got))
<1> DEFINE op == "bdddelta"
<1>1. PICK f \in Families, g \in Families : a = <<f, g>>
  BY Arguments DEF TwoFamilies
<1>2. \A h : ZddLoop(op, a, h) = bdddelta_iter(<<f, g>>, h)
  BY <1>1, Bodies
<1>3. /\ \A x, y : LoopPromise(op, <<x, y>>) = Deltas(x, y)
      /\ \A x, y \in Families : <<x, y>> \in ArgsOf(op)
      /\ Asked(op, a, got)
  BY Arguments DEF Deltas, TwoFamilies
<1>4. \A k \in Either(f, g) : LoopPromise(op, k) = LoopPromise(op, a)
  BY <1>1, <1>3, DeltaMembers DEF Either
<1> DEFINE v == Higher(f, g)
<1> HIDE DEF op
<1>5. \A s : s \in Deltas(f, g) <=> \E p \in f : \E q \in g : s = (p \ q) \cup (q \ p)
  BY <1>1, DeltaMembers
<1>6. CASE Empty \in {f, g}
  <2>1. ZddLoop(op, a, got) = Answer(Empty)
    BY <1>2, <1>6 DEF bdddelta_iter
  <2>2. \A s : s \in Empty <=> s \in Deltas(f, g)
    BY <1>5, <1>6 DEF Empty
  <2>3. Empty = LoopPromise(op, a)
    BY <1>1, <1>3, <2>2
  <2>4. PassRight(op, a, ZddLoop(op, a, got))
    BY <2>1, <2>3, AnswerPass
  <2>5. QED
    BY <2>4 DEF op
<1>7. CASE Empty \notin {f, g} /\ f = Single
  <2>1. ZddLoop(op, a, got) = Answer(g)
    BY <1>2, <1>7 DEF bdddelta_iter
  <2>2. \A p, q, s : p = {} => ((s = (p \ q) \cup (q \ p)) <=> s = q)
    OBVIOUS
  <2>3. \A s : s \in g <=> s \in Deltas(f, g)
    <3>1. {} \in f /\ \A p \in f : p = {}
      BY <1>7 DEF Single
    <3>2. ASSUME NEW s, s \in g PROVE s \in Deltas(f, g)
      <4>1. \E p \in f : \E q \in g : s = (p \ q) \cup (q \ p)
        BY <2>2, <3>1, <3>2
      <4>2. QED
        BY <1>5, <4>1
    <3>3. ASSUME NEW s, s \in Deltas(f, g) PROVE s \in g
      <4>1. PICK p \in f : \E q \in g : s = (p \ q) \cup (q \ p)
        BY <1>5, <3>3
      <4>2. PICK q \in g : s = (p \ q) \cup (q \ p)
        BY <4>1
      <4>3. QED
        BY <2>2, <3>1, <4>2
    <3>4. QED
      BY <3>2, <3>3
  <2>4. g = LoopPromise(op, a)
    BY <1>1, <1>3, <2>3
  <2>5. PassRight(op, a, ZddLoop(op, a, got))
    BY <2>1, <2>4, AnswerPass
  <2>6. QED
    BY <2>5 DEF op
<1>8. CASE Empty \notin {f, g} /\ f # Single /\ g = Single
  <2>1. ZddLoop(op, a, got) = Answer(f)
    BY <1>2, <1>8 DEF bdddelta_iter
  <2>2. \A p, q, s : q = {} => ((s = (p \ q) \cup (q \ p)) <=> s = p)
    OBVIOUS
  <2>3. \A s : s \in f <=> s \in Deltas(f, g)
    <3>1. {} \in g /\ \A p \in g : p = {}
      BY <1>8 DEF Single
    <3>2. ASSUME NEW s, s \in f PROVE s \in Deltas(f, g)
      <4>1. \E p \in f : \E q \in g : s = (p \ q) \cup (q \ p)
        BY <2>2, <3>1, <3>2
      <4>2. QED
        BY <1>5, <4>1
    <3>3. ASSUME NEW s, s \in Deltas(f, g) PROVE s \in f
      <4>1. PICK p \in f : \E q \in g : s = (p \ q) \cup (q \ p)
        BY <1>5, <3>3
      <4>2. PICK q \in g : s = (p \ q) \cup (q \ p)
        BY <4>1
      <4>3. QED
        BY <2>2, <3>1, <4>2
    <3>4. QED
      BY <3>2, <3>3
  <2>4. f = LoopPromise(op, a)
    BY <1>1, <1>3, <2>3
  <2>5. PassRight(op, a, ZddLoop(op, a, got))
    BY <2>1, <2>4, AnswerPass
  <2>6. QED
    BY <2>5 DEF op
<1>9. CASE Empty \notin {f, g} /\ f # Single /\ g # Single /\ Level(f) # Level(g)
  <2>1. ~ Terminal(f) /\ ~ Terminal(g)
    BY <1>9 DEF Terminal
  <2>2. \A h : ZddLoop(op, a, h) =
               Open(Either(f, g), <<<<Off(f, v), Off(g, v)>>, <<Down(f, v), Down(g, v)>>>>, h,
                    Node(v, h[1], h[2]))
    BY <1>2, <1>9 DEF bdddelta_iter
  <2>3. /\ v \in Vars
        /\ Off(f, v) \in Families /\ Below(Off(f, v), v)
        /\ Off(g, v) \in Families /\ Below(Off(g, v), v)
        /\ On(f, v) \in Families /\ Below(On(f, v), v)
        /\ On(g, v) \in Families /\ Below(On(g, v), v)
    BY <1>1, <2>1, TwoSides
  <2>4. \/ Down(f, v) = On(f, v) /\ Down(g, v) = Off(g, v) /\ On(g, v) = {}
        \/ Down(g, v) = On(g, v) /\ Down(f, v) = Off(f, v) /\ On(f, v) = {}
    <3>1. Level(f) > Level(g) \/ Level(f) < Level(g)
      BY <1>1, <1>9, Levels
    <3>2. CASE Level(f) > Level(g)
      BY <1>1, <2>1, <3>2, TwoSides
    <3>3. CASE Level(f) < Level(g)
      BY <1>1, <2>1, <3>3, TwoSides
    <3>4. QED
      BY <3>1, <3>2, <3>3
  <2>5. Down(f, v) \in Families /\ Down(g, v) \in Families
        /\ Below(Down(f, v), v) /\ Below(Down(g, v), v)
    BY <2>3, <2>4
  <2>6. /\ Deltas(Off(f, v), Off(g, v)) \in Families /\ Below(Deltas(Off(f, v), Off(g, v)), v)
        /\ Deltas(Down(f, v), Down(g, v)) \in Families
        /\ Below(Deltas(Down(f, v), Down(g, v)), v)
    BY <2>3, <2>5, DeltaMembers
  <2>7. /\ \A x \in Families : \A s : s \notin Deltas(x, {})
        /\ \A x \in Families : \A s : s \notin Deltas({}, x)
    BY DeltaMembers, Constants DEF Empty
  <2>8. \A s : (s \in Deltas(f, g) <=>
                  (v \notin s /\ s \in Deltas(Off(f, v), Off(g, v)))
                    \/ (v \in s /\ s \ {v} \in Deltas(Down(f, v), Down(g, v))))
    <3>1. \A s : (s \in Deltas(f, g) <=>
                    (v \notin s /\ s \in Deltas(Off(f, v), Off(g, v)))
                      \/ (v \in s /\ (s \ {v} \in Deltas(Off(f, v), On(g, v))
                                    \/ s \ {v} \in Deltas(On(f, v), Off(g, v)))))
      <4>1. \A s : s \notin Deltas(On(f, v), On(g, v))
        BY <2>3, <2>4, <2>7
      <4>2. QED
        BY <1>1, <2>3, <4>1, DeltaSplit
    <3>2. QED
      BY <2>3, <2>4, <2>7, <3>1
  <2>9. PassRight(op, a, ZddLoop(op, a, got))
    <3> DEFINE a1 == <<Off(f, v), Off(g, v)>>
               a2 == <<Down(f, v), Down(g, v)>>
    <3>1. a1 \in ArgsOf(op) /\ a2 \in ArgsOf(op)
      BY <1>3, <2>3, <2>5
    <3>2. /\ LoopPromise(op, a) = Deltas(f, g)
          /\ LoopPromise(op, a1) = Deltas(Off(f, v), Off(g, v))
          /\ LoopPromise(op, a2) = Deltas(Down(f, v), Down(g, v))
      BY <1>1, <1>3
    <3>3. \A h : ZddLoop(op, a, h) = Open(Either(f, g), <<a1, a2>>, h, Node(v, h[1], h[2]))
      BY <2>2
    <3> HIDE DEF a1, a2
    <3>4. \A s : (s \in LoopPromise(op, a) <=>
                    (v \notin s /\ s \in LoopPromise(op, a1))
                      \/ (v \in s /\ s \ {v} \in LoopPromise(op, a2)))
      BY <2>8, <3>2
    <3>5. /\ LoopPromise(op, a1) \in Families /\ Below(LoopPromise(op, a1), v)
          /\ LoopPromise(op, a2) \in Families /\ Below(LoopPromise(op, a2), v)
      BY <2>6, <3>2
    <3>6. QED
      BY <1>3, <1>4, <2>3, <3>1, <3>3, <3>4, <3>5, NodePass
  <2>10. QED
    BY <2>9 DEF op
<1>10. CASE Empty \notin {f, g} /\ f # Single /\ g # Single /\ Level(f) = Level(g)
  <2>1. ~ Terminal(f) /\ ~ Terminal(g)
    BY <1>10 DEF Terminal
  <2>2. \A h : ZddLoop(op, a, h) =
               Open(Either(f, g),
                    <<<<Lo(f), Lo(g)>>, <<Hi(f), Hi(g)>>, <<Lo(f), Hi(g)>>, <<Hi(f), Lo(g)>>>>,
                    h, Node(v, h[1] \cup h[2], h[3] \cup h[4]))
    BY <1>2, <1>10 DEF bdddelta_iter
  <2>3. AsksOnly(op, a, Either(f, g),
                 <<<<Lo(f), Lo(g)>>, <<Hi(f), Hi(g)>>, <<Lo(f), Hi(g)>>, <<Hi(f), Lo(g)>>>>)
    BY <2>2 DEF AsksOnly
  <2>4. /\ v \in Vars
        /\ Lo(f) \in Families /\ Below(Lo(f), v)
        /\ Lo(g) \in Families /\ Below(Lo(g), v)
        /\ Hi(f) \in Families /\ Below(Hi(f), v)
        /\ Hi(g) \in Families /\ Below(Hi(g), v)
        /\ Lo(f) = Off(f, v) /\ Hi(f) = On(f, v)
        /\ Lo(g) = Off(g, v) /\ Hi(g) = On(g, v)
    BY <1>1, <1>10, <2>1, TwoSides
  <2>5. /\ Deltas(Lo(f), Lo(g)) \in Families /\ Below(Deltas(Lo(f), Lo(g)), v)
        /\ Deltas(Hi(f), Hi(g)) \in Families /\ Below(Deltas(Hi(f), Hi(g)), v)
        /\ Deltas(Lo(f), Hi(g)) \in Families /\ Below(Deltas(Lo(f), Hi(g)), v)
        /\ Deltas(Hi(f), Lo(g)) \in Families /\ Below(Deltas(Hi(f), Lo(g)), v)
    BY <2>4, DeltaMembers
  <2>6. \A x, y \in Families : Below(x, v) /\ Below(y, v) =>
          x \cup y \in Families /\ Below(x \cup y, v)
    BY UnionBelow
  <2> DEFINE lo == Deltas(Lo(f), Lo(g)) \cup Deltas(Hi(f), Hi(g))
             hi == Deltas(Lo(f), Hi(g)) \cup Deltas(Hi(f), Lo(g))
  <2>7. lo \in Families /\ Below(lo, v) /\ hi \in Families /\ Below(hi, v)
    BY <2>5, <2>6
  <2>8. \A s : (s \in Deltas(f, g) <=> (v \notin s /\ s \in lo) \/ (v \in s /\ s \ {v} \in hi))
    BY <1>1, <2>4, DeltaSplit
  <2>9. Node(v, lo, hi) = LoopPromise(op, a)
    <3> HIDE DEF lo, hi
    <3>1. Node(v, lo, hi) = Deltas(f, g)
      BY <2>4, <2>7, <2>8, NodeIs
    <3>2. QED
      BY <1>1, <1>3, <3>1
  <2>10. (got[1] = LoopPromise(op, <<Lo(f), Lo(g)>>)
             /\ got[2] = LoopPromise(op, <<Hi(f), Hi(g)>>)
             /\ got[3] = LoopPromise(op, <<Lo(f), Hi(g)>>)
             /\ got[4] = LoopPromise(op, <<Hi(f), Lo(g)>>))
           => Node(v, got[1] \cup got[2], got[3] \cup got[4]) = LoopPromise(op, a)
    BY <1>3, <2>9
  <2>11. /\ <<Lo(f), Lo(g)>> \in ArgsOf(op) /\ <<Hi(f), Hi(g)>> \in ArgsOf(op)
         /\ <<Lo(f), Hi(g)>> \in ArgsOf(op) /\ <<Hi(f), Lo(g)>> \in ArgsOf(op)
    BY <1>3, <2>4
  <2>12. PassRight(op, a, ZddLoop(op, a, got))
    BY <1>3, <1>4, <2>2, <2>3, <2>10, <2>11, OpenFour
  <2>13. QED
    BY <2>12 DEF op
<1>11. QED
  BY <1>6, <1>7, <1>8, <1>9, <1>10

\* bdddisjoin: one pass is right.
LEMMA DisjoinRight ==
  ASSUME NEW a \in ArgsOf("bdddisjoin"), NEW got, Sequence(got), Asked("bdddisjoin", a, got)
  PROVE  PassRight("bdddisjoin", a, ZddLoop("bdddisjoin", a, got))
<1> DEFINE op == "bdddisjoin"
<1>1. PICK f \in Families, g \in Families : a = <<f, g>>
  BY Arguments DEF TwoFamilies
<1>2. \A h : ZddLoop(op, a, h) = bdddisjoin_iter(<<f, g>>, h)
  BY <1>1, Bodies
<1>3. /\ \A x, y : LoopPromise(op, <<x, y>>) = Disjoins(x, y)
      /\ \A x, y \in Families : <<x, y>> \in ArgsOf(op)
      /\ Asked(op, a, got)
  BY Arguments DEF Disjoins, TwoFamilies
<1>4. \A k \in Either(f, g) : LoopPromise(op, k) = LoopPromise(op, a)
  BY <1>1, <1>3, DisjoinMembers DEF Either
<1> DEFINE v == Higher(f, g)
<1> HIDE DEF op
<1>5. \A s : s \in Disjoins(f, g) <=> \E p \in f : \E q \in g : Apart(p, q) /\ s = p \cup q
  BY <1>1, DisjoinMembers
<1>6. CASE Empty \in {f, g}
  <2>1. ZddLoop(op, a, got) = Answer(Empty)
    BY <1>2, <1>6 DEF bdddisjoin_iter
  <2>2. \A s : s \in Empty <=> s \in Disjoins(f, g)
    BY <1>5, <1>6 DEF Empty
  <2>3. Empty = LoopPromise(op, a)
    BY <1>1, <1>3, <2>2
  <2>4. PassRight(op, a, ZddLoop(op, a, got))
    BY <2>1, <2>3, AnswerPass
  <2>5. QED
    BY <2>4 DEF op
<1>7. CASE Empty \notin {f, g} /\ f = Single
  <2>1. ZddLoop(op, a, got) = Answer(g)
    BY <1>2, <1>7 DEF bdddisjoin_iter
  <2>2. \A p, q, s : p = {} => ((Apart(p, q) /\ s = p \cup q) <=> s = q)
    BY DEF Apart
  <2>3. \A s : s \in g <=> s \in Disjoins(f, g)
    <3>1. {} \in f /\ \A p \in f : p = {}
      BY <1>7 DEF Single
    <3>2. ASSUME NEW s, s \in g PROVE s \in Disjoins(f, g)
      <4>1. \E p \in f : \E q \in g : Apart(p, q) /\ s = p \cup q
        BY <2>2, <3>1, <3>2
      <4>2. QED
        BY <1>5, <4>1
    <3>3. ASSUME NEW s, s \in Disjoins(f, g) PROVE s \in g
      <4>1. PICK p \in f : \E q \in g : Apart(p, q) /\ s = p \cup q
        BY <1>5, <3>3
      <4>2. PICK q \in g : Apart(p, q) /\ s = p \cup q
        BY <4>1
      <4>3. QED
        BY <2>2, <3>1, <4>2
    <3>4. QED
      BY <3>2, <3>3
  <2>4. g = LoopPromise(op, a)
    BY <1>1, <1>3, <2>3
  <2>5. PassRight(op, a, ZddLoop(op, a, got))
    BY <2>1, <2>4, AnswerPass
  <2>6. QED
    BY <2>5 DEF op
<1>8. CASE Empty \notin {f, g} /\ f # Single /\ g = Single
  <2>1. ZddLoop(op, a, got) = Answer(f)
    BY <1>2, <1>8 DEF bdddisjoin_iter
  <2>2. \A p, q, s : q = {} => ((Apart(p, q) /\ s = p \cup q) <=> s = p)
    BY DEF Apart
  <2>3. \A s : s \in f <=> s \in Disjoins(f, g)
    <3>1. {} \in g /\ \A p \in g : p = {}
      BY <1>8 DEF Single
    <3>2. ASSUME NEW s, s \in f PROVE s \in Disjoins(f, g)
      <4>1. \E p \in f : \E q \in g : Apart(p, q) /\ s = p \cup q
        BY <2>2, <3>1, <3>2
      <4>2. QED
        BY <1>5, <4>1
    <3>3. ASSUME NEW s, s \in Disjoins(f, g) PROVE s \in f
      <4>1. PICK p \in f : \E q \in g : Apart(p, q) /\ s = p \cup q
        BY <1>5, <3>3
      <4>2. PICK q \in g : Apart(p, q) /\ s = p \cup q
        BY <4>1
      <4>3. QED
        BY <2>2, <3>1, <4>2
    <3>4. QED
      BY <3>2, <3>3
  <2>4. f = LoopPromise(op, a)
    BY <1>1, <1>3, <2>3
  <2>5. PassRight(op, a, ZddLoop(op, a, got))
    BY <2>1, <2>4, AnswerPass
  <2>6. QED
    BY <2>5 DEF op
<1>9. CASE Empty \notin {f, g} /\ f # Single /\ g # Single /\ Level(f) # Level(g)
  <2>1. ~ Terminal(f) /\ ~ Terminal(g)
    BY <1>9 DEF Terminal
  <2>2. \A h : ZddLoop(op, a, h) =
               Open(Either(f, g), <<<<Off(f, v), Off(g, v)>>, <<Down(f, v), Down(g, v)>>>>, h,
                    Node(v, h[1], h[2]))
    BY <1>2, <1>9 DEF bdddisjoin_iter
  <2>3. /\ v \in Vars
        /\ Off(f, v) \in Families /\ Below(Off(f, v), v)
        /\ Off(g, v) \in Families /\ Below(Off(g, v), v)
        /\ On(f, v) \in Families /\ Below(On(f, v), v)
        /\ On(g, v) \in Families /\ Below(On(g, v), v)
    BY <1>1, <2>1, TwoSides
  <2>4. \/ Down(f, v) = On(f, v) /\ Down(g, v) = Off(g, v) /\ On(g, v) = {}
        \/ Down(g, v) = On(g, v) /\ Down(f, v) = Off(f, v) /\ On(f, v) = {}
    <3>1. Level(f) > Level(g) \/ Level(f) < Level(g)
      BY <1>1, <1>9, Levels
    <3>2. CASE Level(f) > Level(g)
      BY <1>1, <2>1, <3>2, TwoSides
    <3>3. CASE Level(f) < Level(g)
      BY <1>1, <2>1, <3>3, TwoSides
    <3>4. QED
      BY <3>1, <3>2, <3>3
  <2>5. Down(f, v) \in Families /\ Down(g, v) \in Families
        /\ Below(Down(f, v), v) /\ Below(Down(g, v), v)
    BY <2>3, <2>4
  <2>6. /\ Disjoins(Off(f, v), Off(g, v)) \in Families /\ Below(Disjoins(Off(f, v), Off(g, v)), v)
        /\ Disjoins(Down(f, v), Down(g, v)) \in Families
        /\ Below(Disjoins(Down(f, v), Down(g, v)), v)
    BY <2>3, <2>5, DisjoinMembers
  <2>7. /\ \A x \in Families : \A s : s \notin Disjoins(x, {})
        /\ \A x \in Families : \A s : s \notin Disjoins({}, x)
    BY DisjoinMembers, Constants DEF Empty
  <2>8. \A s : (s \in Disjoins(f, g) <=>
                  (v \notin s /\ s \in Disjoins(Off(f, v), Off(g, v)))
                    \/ (v \in s /\ s \ {v} \in Disjoins(Down(f, v), Down(g, v))))
    <3>1. \A s : (s \in Disjoins(f, g) <=>
                    (v \notin s /\ s \in Disjoins(Off(f, v), Off(g, v)))
                      \/ (v \in s /\ (s \ {v} \in Disjoins(Off(f, v), On(g, v))
                                    \/ s \ {v} \in Disjoins(On(f, v), Off(g, v)))))
      <4>1. \A s : s \notin Disjoins(On(f, v), On(g, v))
        BY <2>3, <2>4, <2>7
      <4>2. QED
        BY <1>1, <2>3, <4>1, DisjoinSplit
    <3>2. QED
      BY <2>3, <2>4, <2>7, <3>1
  <2>9. PassRight(op, a, ZddLoop(op, a, got))
    <3> DEFINE a1 == <<Off(f, v), Off(g, v)>>
               a2 == <<Down(f, v), Down(g, v)>>
    <3>1. a1 \in ArgsOf(op) /\ a2 \in ArgsOf(op)
      BY <1>3, <2>3, <2>5
    <3>2. /\ LoopPromise(op, a) = Disjoins(f, g)
          /\ LoopPromise(op, a1) = Disjoins(Off(f, v), Off(g, v))
          /\ LoopPromise(op, a2) = Disjoins(Down(f, v), Down(g, v))
      BY <1>1, <1>3
    <3>3. \A h : ZddLoop(op, a, h) = Open(Either(f, g), <<a1, a2>>, h, Node(v, h[1], h[2]))
      BY <2>2
    <3> HIDE DEF a1, a2
    <3>4. \A s : (s \in LoopPromise(op, a) <=>
                    (v \notin s /\ s \in LoopPromise(op, a1))
                      \/ (v \in s /\ s \ {v} \in LoopPromise(op, a2)))
      BY <2>8, <3>2
    <3>5. /\ LoopPromise(op, a1) \in Families /\ Below(LoopPromise(op, a1), v)
          /\ LoopPromise(op, a2) \in Families /\ Below(LoopPromise(op, a2), v)
      BY <2>6, <3>2
    <3>6. QED
      BY <1>3, <1>4, <2>3, <3>1, <3>3, <3>4, <3>5, NodePass
  <2>10. QED
    BY <2>9 DEF op
<1>10. CASE Empty \notin {f, g} /\ f # Single /\ g # Single /\ Level(f) = Level(g)
  <2>1. ~ Terminal(f) /\ ~ Terminal(g)
    BY <1>10 DEF Terminal
  <2>2. \A h : ZddLoop(op, a, h) =
               Open(Either(f, g),
                    <<<<Lo(f), Lo(g)>>, <<Lo(f), Hi(g)>>, <<Hi(f), Lo(g)>>>>,
                    h, Node(v, h[1], h[2] \cup h[3]))
    BY <1>2, <1>10 DEF bdddisjoin_iter
  <2>3. AsksOnly(op, a, Either(f, g),
                 <<<<Lo(f), Lo(g)>>, <<Lo(f), Hi(g)>>, <<Hi(f), Lo(g)>>>>)
    BY <2>2 DEF AsksOnly
  <2>4. /\ v \in Vars
        /\ Lo(f) \in Families /\ Below(Lo(f), v)
        /\ Lo(g) \in Families /\ Below(Lo(g), v)
        /\ Hi(f) \in Families /\ Below(Hi(f), v)
        /\ Hi(g) \in Families /\ Below(Hi(g), v)
        /\ Lo(f) = Off(f, v) /\ Hi(f) = On(f, v)
        /\ Lo(g) = Off(g, v) /\ Hi(g) = On(g, v)
    BY <1>1, <1>10, <2>1, TwoSides
  <2>5. /\ Disjoins(Lo(f), Lo(g)) \in Families /\ Below(Disjoins(Lo(f), Lo(g)), v)
        /\ Disjoins(Lo(f), Hi(g)) \in Families /\ Below(Disjoins(Lo(f), Hi(g)), v)
        /\ Disjoins(Hi(f), Lo(g)) \in Families /\ Below(Disjoins(Hi(f), Lo(g)), v)
    BY <2>4, DisjoinMembers
  <2>6. \A x, y \in Families : Below(x, v) /\ Below(y, v) =>
          x \cup y \in Families /\ Below(x \cup y, v)
    BY UnionBelow
  <2> DEFINE lo == Disjoins(Lo(f), Lo(g))
             hi == Disjoins(Lo(f), Hi(g)) \cup Disjoins(Hi(f), Lo(g))
  <2>7. lo \in Families /\ Below(lo, v) /\ hi \in Families /\ Below(hi, v)
    BY <2>5, <2>6
  <2>8. \A s : (s \in Disjoins(f, g) <=> (v \notin s /\ s \in lo) \/ (v \in s /\ s \ {v} \in hi))
    BY <1>1, <2>4, DisjoinSplit
  <2>9. Node(v, lo, hi) = LoopPromise(op, a)
    <3> HIDE DEF lo, hi
    <3>1. Node(v, lo, hi) = Disjoins(f, g)
      BY <2>4, <2>7, <2>8, NodeIs
    <3>2. QED
      BY <1>1, <1>3, <3>1
  <2>10. (got[1] = LoopPromise(op, <<Lo(f), Lo(g)>>)
             /\ got[2] = LoopPromise(op, <<Lo(f), Hi(g)>>)
             /\ got[3] = LoopPromise(op, <<Hi(f), Lo(g)>>))
           => Node(v, got[1], got[2] \cup got[3]) = LoopPromise(op, a)
    BY <1>3, <2>9
  <2>11. /\ <<Lo(f), Lo(g)>> \in ArgsOf(op) /\ <<Lo(f), Hi(g)>> \in ArgsOf(op)
         /\ <<Hi(f), Lo(g)>> \in ArgsOf(op)
    BY <1>3, <2>4
  <2>12. PassRight(op, a, ZddLoop(op, a, got))
    BY <1>3, <1>4, <2>2, <2>3, <2>10, <2>11, OpenThree
  <2>13. QED
    BY <2>12 DEF op
<1>11. QED
  BY <1>6, <1>7, <1>8, <1>9, <1>10

\* A family below v does not have v.
LEMMA BelowHasNot ==
  ASSUME NEW v \in Vars, NEW x, Below(x, v)
  PROVE  \A s \in x : v \notin s
<1>1. ~ (var2level[v] < var2level[v])
  BY VarsFacts
<1>2. QED
  BY <1>1 DEF Below, Support

\* bddmeet: one pass is right.
LEMMA MeetRight ==
  ASSUME NEW a \in ArgsOf("bddmeet"), NEW got, Sequence(got), Asked("bddmeet", a, got)
  PROVE  PassRight("bddmeet", a, ZddLoop("bddmeet", a, got))
<1> DEFINE op == "bddmeet"
<1>1. PICK f \in Families, g \in Families : a = <<f, g>>
  BY Arguments DEF TwoFamilies
<1>2. \A h : ZddLoop(op, a, h) = bddmeet_iter(<<f, g>>, h)
  BY <1>1, Bodies
<1>3. /\ \A x, y : LoopPromise(op, <<x, y>>) = Meets(x, y)
      /\ \A x, y \in Families : <<x, y>> \in ArgsOf(op)
      /\ Asked(op, a, got)
  BY Arguments DEF Meets, TwoFamilies
<1>4. \A k \in Either(f, g) : LoopPromise(op, k) = LoopPromise(op, a)
  BY <1>1, <1>3, MeetMembers DEF Either
<1> DEFINE v == Higher(f, g)
<1> HIDE DEF op
<1>5. \A s : s \in Meets(f, g) <=> \E p \in f : \E q \in g : s = p \cap q
  BY <1>1, MeetMembers
<1>6. CASE Empty \in {f, g}
  <2>1. ZddLoop(op, a, got) = Answer(Empty)
    BY <1>2, <1>6 DEF bddmeet_iter
  <2>2. \A s : s \in Empty <=> s \in Meets(f, g)
    BY <1>5, <1>6 DEF Empty
  <2>3. Empty = LoopPromise(op, a)
    BY <1>1, <1>3, <2>2
  <2>4. PassRight(op, a, ZddLoop(op, a, got))
    BY <2>1, <2>3, AnswerPass
  <2>5. QED
    BY <2>4 DEF op
<1>7. CASE Empty \notin {f, g} /\ Single \in {f, g}
  <2>1. ZddLoop(op, a, got) = Answer(Single)
    BY <1>2, <1>7 DEF bddmeet_iter
  <2>2. PICK p \in f, q \in g : p = {} \/ q = {}
    BY <1>7 DEF Empty, Single
  <2>3. {} \in Meets(f, g)
    <3>1. {} = p \cap q
      BY <2>2
    <3>2. QED
      BY <1>5, <2>2, <3>1
  <2>4. ASSUME NEW s, s \in Meets(f, g) PROVE s = {}
    <3>1. PICK x \in f : \E y \in g : s = x \cap y
      BY <1>5, <2>4
    <3>2. PICK y \in g : s = x \cap y
      BY <3>1
    <3>3. x = {} \/ y = {}
      BY <1>7, <3>1, <3>2 DEF Single
    <3>4. QED
      BY <3>2, <3>3
  <2>5. Single = LoopPromise(op, a)
    <3>1. \A s : s \in Single <=> s \in Meets(f, g)
      BY <2>3, <2>4 DEF Single
    <3>2. QED
      BY <1>1, <1>3, <3>1
  <2>6. PassRight(op, a, ZddLoop(op, a, got))
    BY <2>1, <2>5, AnswerPass
  <2>7. QED
    BY <2>6 DEF op
<1>9. CASE Empty \notin {f, g} /\ f # Single /\ g # Single /\ Level(f) # Level(g)
  <2>1. ~ Terminal(f) /\ ~ Terminal(g)
    BY <1>9 DEF Terminal
  <2> DEFINE a1 == <<Off(f, v), Off(g, v)>>
             a2 == <<Down(f, v), Down(g, v)>>
  <2>2. \A h : ZddLoop(op, a, h) = Open(Either(f, g), <<a1, a2>>, h, h[1] \cup h[2])
    BY <1>2, <1>9 DEF bddmeet_iter
  <2>3. AsksOnly(op, a, Either(f, g), <<a1, a2>>)
    BY <2>2 DEF AsksOnly
  <2>4. /\ v \in Vars
        /\ Off(f, v) \in Families /\ Below(Off(f, v), v)
        /\ Off(g, v) \in Families /\ Below(Off(g, v), v)
        /\ On(f, v) \in Families /\ Below(On(f, v), v)
        /\ On(g, v) \in Families /\ Below(On(g, v), v)
    BY <1>1, <2>1, TwoSides
  <2>5. \/ Down(f, v) = On(f, v) /\ Down(g, v) = Off(g, v) /\ On(g, v) = {}
        \/ Down(g, v) = On(g, v) /\ Down(f, v) = Off(f, v) /\ On(f, v) = {}
    <3>1. Level(f) > Level(g) \/ Level(f) < Level(g)
      BY <1>1, <1>9, Levels
    <3>2. CASE Level(f) > Level(g)
      BY <1>1, <2>1, <3>2, TwoSides
    <3>3. CASE Level(f) < Level(g)
      BY <1>1, <2>1, <3>3, TwoSides
    <3>4. QED
      BY <3>1, <3>2, <3>3
  <2>6. /\ Down(f, v) \in Families /\ Down(g, v) \in Families
        /\ Below(Down(f, v), v) /\ Below(Down(g, v), v)
    BY <2>4, <2>5
  <2>7. /\ \A x \in Families : \A s : s \notin Meets(x, {})
        /\ \A x \in Families : \A s : s \notin Meets({}, x)
    BY MeetMembers, Constants DEF Empty
  <2>8. /\ \A s \in Meets(Off(f, v), Off(g, v)) : v \notin s
        /\ \A s \in Meets(Down(f, v), Down(g, v)) : v \notin s
    <3>1. /\ Below(Meets(Off(f, v), Off(g, v)), v)
          /\ Below(Meets(Down(f, v), Down(g, v)), v)
      BY <2>4, <2>6, MeetMembers
    <3>2. \A x : Below(x, v) => \A s \in x : v \notin s
      BY <2>4, BelowHasNot
    <3>3. QED
      BY <3>1, <3>2
  <2>9. \A s : (s \in Meets(f, g) <=>
                  s \in Meets(Off(f, v), Off(g, v)) \/ s \in Meets(Down(f, v), Down(g, v)))
    <3>1. \A s : s \notin Meets(On(f, v), On(g, v))
      BY <2>4, <2>5, <2>7
    <3>2. \A s : (s \in Meets(f, g) <=>
                   v \notin s /\ (s \in Meets(Off(f, v), Off(g, v))
                                  \/ s \in Meets(Off(f, v), On(g, v))
                                  \/ s \in Meets(On(f, v), Off(g, v))))
      <4>1. \A s : (s \in Meets(f, g) <=>
                     (v \notin s /\ (s \in Meets(Off(f, v), Off(g, v))
                                     \/ s \in Meets(Off(f, v), On(g, v))
                                     \/ s \in Meets(On(f, v), Off(g, v))))
                       \/ (v \in s /\ (s \ {v} \in Meets(On(f, v), On(g, v)))))
        BY <1>1, <2>4, MeetSplit
      <4>2. QED
        BY <3>1, <4>1
    <3>3. QED
      BY <2>4, <2>5, <2>7, <2>8, <3>2
  <2>10. Meets(Off(f, v), Off(g, v)) \cup Meets(Down(f, v), Down(g, v)) = LoopPromise(op, a)
    <3>1. Meets(Off(f, v), Off(g, v)) \cup Meets(Down(f, v), Down(g, v)) = Meets(f, g)
      BY <2>9
    <3>2. QED
      BY <1>1, <1>3, <3>1
  <2>11. (got[1] = LoopPromise(op, a1) /\ got[2] = LoopPromise(op, a2))
           => got[1] \cup got[2] = LoopPromise(op, a)
    BY <1>3, <2>10
  <2>12. a1 \in ArgsOf(op) /\ a2 \in ArgsOf(op)
    BY <1>3, <2>4, <2>6
  <2> HIDE DEF a1, a2
  <2>13. PassRight(op, a, ZddLoop(op, a, got))
    BY <1>3, <1>4, <2>2, <2>3, <2>11, <2>12, OpenTwo
  <2>14. QED
    BY <2>13 DEF op
<1>10. CASE Empty \notin {f, g} /\ f # Single /\ g # Single /\ Level(f) = Level(g)
  <2>1. ~ Terminal(f) /\ ~ Terminal(g)
    BY <1>10 DEF Terminal
  <2>2. \A h : ZddLoop(op, a, h) =
               Open(Either(f, g),
                    <<<<Lo(f), Lo(g)>>, <<Lo(f), Hi(g)>>, <<Hi(f), Lo(g)>>, <<Hi(f), Hi(g)>>>>,
                    h, Node(v, h[1] \cup h[2] \cup h[3], h[4]))
    BY <1>2, <1>10 DEF bddmeet_iter
  <2>3. AsksOnly(op, a, Either(f, g),
                 <<<<Lo(f), Lo(g)>>, <<Lo(f), Hi(g)>>, <<Hi(f), Lo(g)>>, <<Hi(f), Hi(g)>>>>)
    BY <2>2 DEF AsksOnly
  <2>4. /\ v \in Vars
        /\ Lo(f) \in Families /\ Below(Lo(f), v)
        /\ Lo(g) \in Families /\ Below(Lo(g), v)
        /\ Hi(f) \in Families /\ Below(Hi(f), v)
        /\ Hi(g) \in Families /\ Below(Hi(g), v)
        /\ Lo(f) = Off(f, v) /\ Hi(f) = On(f, v)
        /\ Lo(g) = Off(g, v) /\ Hi(g) = On(g, v)
    BY <1>1, <1>10, <2>1, TwoSides
  <2>5. /\ Meets(Lo(f), Lo(g)) \in Families /\ Below(Meets(Lo(f), Lo(g)), v)
        /\ Meets(Lo(f), Hi(g)) \in Families /\ Below(Meets(Lo(f), Hi(g)), v)
        /\ Meets(Hi(f), Lo(g)) \in Families /\ Below(Meets(Hi(f), Lo(g)), v)
        /\ Meets(Hi(f), Hi(g)) \in Families /\ Below(Meets(Hi(f), Hi(g)), v)
    BY <2>4, MeetMembers
  <2>6. \A x, y \in Families : Below(x, v) /\ Below(y, v) =>
          x \cup y \in Families /\ Below(x \cup y, v)
    BY UnionBelow
  <2> DEFINE lo == Meets(Lo(f), Lo(g)) \cup Meets(Lo(f), Hi(g)) \cup Meets(Hi(f), Lo(g))
             hi == Meets(Hi(f), Hi(g))
  <2>7. lo \in Families /\ Below(lo, v) /\ hi \in Families /\ Below(hi, v)
    BY <2>5, <2>6
  <2>8. \A s : (s \in Meets(f, g) <=> (v \notin s /\ s \in lo) \/ (v \in s /\ s \ {v} \in hi))
    BY <1>1, <2>4, MeetSplit
  <2>9. Node(v, lo, hi) = LoopPromise(op, a)
    <3> HIDE DEF lo, hi
    <3>1. Node(v, lo, hi) = Meets(f, g)
      BY <2>4, <2>7, <2>8, NodeIs
    <3>2. QED
      BY <1>1, <1>3, <3>1
  <2>10. (got[1] = LoopPromise(op, <<Lo(f), Lo(g)>>)
             /\ got[2] = LoopPromise(op, <<Lo(f), Hi(g)>>)
             /\ got[3] = LoopPromise(op, <<Hi(f), Lo(g)>>)
             /\ got[4] = LoopPromise(op, <<Hi(f), Hi(g)>>))
           => Node(v, got[1] \cup got[2] \cup got[3], got[4]) = LoopPromise(op, a)
    BY <1>3, <2>9
  <2>11. /\ <<Lo(f), Lo(g)>> \in ArgsOf(op) /\ <<Lo(f), Hi(g)>> \in ArgsOf(op)
         /\ <<Hi(f), Lo(g)>> \in ArgsOf(op) /\ <<Hi(f), Hi(g)>> \in ArgsOf(op)
    BY <1>3, <2>4
  <2>12. PassRight(op, a, ZddLoop(op, a, got))
    BY <1>3, <1>4, <2>2, <2>3, <2>10, <2>11, OpenFour
  <2>13. QED
    BY <2>12 DEF op
<1>11. QED
  BY <1>6, <1>7, <1>9, <1>10

\* The join with a terminal.
LEMMA JoinUnits ==
  ASSUME NEW f \in Families
  PROVE  /\ Joins(Empty, f) = Empty /\ Joins(f, Empty) = Empty
         /\ Joins(Single, f) = f /\ Joins(f, Single) = f
<1>1. \A x, y \in Families : \A s : s \in Joins(x, y) <=> \E p \in x : \E q \in y : s = p \cup q
  BY JoinMembers
<1>2. \A s : s \notin Joins(Empty, f) /\ s \notin Joins(f, Empty)
  BY <1>1, Constants DEF Empty
<1>3. \A s : s \in Joins(Single, f) <=> s \in f
  <2>1. \A q : {} \cup q = q
    OBVIOUS
  <2>2. \A s : s \in Joins(Single, f) <=> \E p \in Single : \E q \in f : s = p \cup q
    BY <1>1, Constants
  <2>3. {} \in Single /\ \A p \in Single : p = {}
    BY DEF Single
  <2>4. ASSUME NEW s, s \in f PROVE s \in Joins(Single, f)
    <3>1. s = {} \cup s
      BY <2>1
    <3>2. QED
      BY <2>2, <2>3, <2>4, <3>1
  <2>5. ASSUME NEW s, s \in Joins(Single, f) PROVE s \in f
    <3>1. PICK p \in Single, q \in f : s = p \cup q
      BY <2>2, <2>5
    <3>2. p = {}
      BY <2>3
    <3>3. QED
      BY <2>1, <3>1, <3>2
  <2>6. QED
    BY <2>4, <2>5
<1>4. Joins(Single, f) = f
  BY <1>3
<1>5. Joins(Empty, f) = Empty /\ Joins(f, Empty) = Empty
  BY <1>2 DEF Empty
<1>6. QED
  BY <1>4, <1>5, JoinMembers, Constants

Products(f, g) == LoopPromise("bddproduct", <<f, g>>)

\* A product is a join, or throws when the operands share a variable.
LEMMA ProductIs ==
  ASSUME NEW f \in Families, NEW g \in Families
  PROVE  /\ Support(f) \cap Support(g) # {} => Products(f, g) = Thrown
         /\ Support(f) \cap Support(g) = {} => Products(f, g) = Joins(f, g)
         /\ Products(f, g) = Thrown => Support(f) \cap Support(g) # {}
         /\ Products(f, g) = Products(g, f)
<1>1. \A x, y : Products(x, y) = IF Support(x) \cap Support(y) # {} THEN Thrown ELSE Joins(x, y)
  <2>1. ASSUME NEW x, NEW y
        PROVE  Products(x, y) = IF Support(x) \cap Support(y) # {} THEN Thrown ELSE Joins(x, y)
    <3>1. Joins(x, y) = {p[1] \cup p[2] : p \in x \X y}
      BY Promises DEF Joins
    <3>2. Products(x, y) = IF Support(x) \cap Support(y) # {} THEN Thrown
                           ELSE {p[1] \cup p[2] : p \in x \X y}
      BY Promises DEF Products
    <3>3. QED
      BY <3>1, <3>2
  <2>2. QED
    BY <2>1
<1>2. Joins(f, g) \in Families /\ Joins(f, g) = Joins(g, f)
  BY JoinMembers
<1>3. Thrown \notin Families
  <2>1. -1 \notin Vars
    BY VarsFacts
  <2>2. QED
    BY <2>1 DEF Thrown, Families
<1>4. Support(f) \cap Support(g) = Support(g) \cap Support(f)
  OBVIOUS
<1>5. Products(f, g) = Products(g, f)
  BY <1>1, <1>2, <1>4
<1>6. QED
  BY <1>1, <1>2, <1>3, <1>5

\* Every other variable of a family is in one of its sides.
LEMMA SidesSupport ==
  ASSUME NEW f \in Families, NEW v \in Vars
  PROVE  Support(f) \ {v} = Support(Off(f, v)) \cup Support(On(f, v))
<1>1. /\ Support(Off(f, v)) \subseteq Support(f) \ {v}
      /\ Support(On(f, v)) \subseteq Support(f) \ {v}
  BY SideFacts
<1>2. ASSUME NEW w \in Support(f) \ {v}
      PROVE  w \in Support(Off(f, v)) \cup Support(On(f, v))
  <2>1. PICK s \in f : w \in s
    BY DEF Support
  <2>2. CASE v \in s
    <3>1. s \ {v} \in On(f, v) /\ w \in s \ {v}
      BY <2>1, <2>2, InOrOut
    <3>2. QED
      BY <3>1 DEF Support
  <2>3. CASE v \notin s
    <3>1. s \in Off(f, v)
      BY <2>1, <2>3, InOrOut
    <3>2. QED
      BY <2>1, <3>1 DEF Support
  <2>4. QED
    BY <2>2, <2>3
<1>3. QED
  BY <1>1, <1>2

\* bddproduct: one pass is right, and throws exactly when it promises to.
LEMMA ProductRight ==
  ASSUME NEW a \in ArgsOf("bddproduct"), NEW got, Sequence(got), Asked("bddproduct", a, got)
  PROVE  PassRight("bddproduct", a, ZddLoop("bddproduct", a, got))
<1> DEFINE op == "bddproduct"
<1>1. PICK f \in Families, g \in Families : a = <<f, g>>
  BY Arguments DEF TwoFamilies
<1>2. \A h : ZddLoop(op, a, h) = bddproduct_iter(<<f, g>>, h)
  BY <1>1, Bodies
<1>3. /\ \A x, y : LoopPromise(op, <<x, y>>) = Products(x, y)
      /\ \A x, y \in Families : <<x, y>> \in ArgsOf(op)
      /\ Asked(op, a, got)
  BY Arguments DEF Products, TwoFamilies
<1>4. \A k \in Either(f, g) : LoopPromise(op, k) = LoopPromise(op, a)
  BY <1>1, <1>3, ProductIs DEF Either
<1> DEFINE v == Higher(f, g)
<1> HIDE DEF op
<1>5. Support(Empty) = {} /\ Support(Single) = {}
  BY DEF Empty, Single, Support
<1>6. CASE Empty \in {f, g}
  <2>1. ZddLoop(op, a, got) = Answer(Empty)
    BY <1>2, <1>6 DEF bddproduct_iter
  <2>2. Empty = LoopPromise(op, a)
    BY <1>1, <1>3, <1>5, <1>6, ProductIs, JoinUnits
  <2>3. PassRight(op, a, ZddLoop(op, a, got))
    BY <2>1, <2>2, AnswerPass
  <2>4. QED
    BY <2>3 DEF op
<1>7. CASE Empty \notin {f, g} /\ f = Single
  <2>1. ZddLoop(op, a, got) = Answer(g)
    BY <1>2, <1>7 DEF bddproduct_iter
  <2>2. g = LoopPromise(op, a)
    BY <1>1, <1>3, <1>5, <1>7, ProductIs, JoinUnits
  <2>3. PassRight(op, a, ZddLoop(op, a, got))
    BY <2>1, <2>2, AnswerPass
  <2>4. QED
    BY <2>3 DEF op
<1>8. CASE Empty \notin {f, g} /\ f # Single /\ g = Single
  <2>1. ZddLoop(op, a, got) = Answer(f)
    BY <1>2, <1>8 DEF bddproduct_iter
  <2>2. f = LoopPromise(op, a)
    BY <1>1, <1>3, <1>5, <1>8, ProductIs, JoinUnits
  <2>3. PassRight(op, a, ZddLoop(op, a, got))
    BY <2>1, <2>2, AnswerPass
  <2>4. QED
    BY <2>3 DEF op
<1>9. CASE Empty \notin {f, g} /\ f # Single /\ g # Single /\ Level(f) = Level(g)
  <2>1. ZddLoop(op, a, got) = Answer(Thrown)
    BY <1>2, <1>9 DEF bddproduct_iter
  <2>2. ~ Terminal(f) /\ ~ Terminal(g)
    BY <1>9 DEF Terminal
  <2>3. v \in Support(f) /\ v \in Support(g)
    BY <1>1, <1>9, <2>2, HigherFacts
  <2>4. Thrown = LoopPromise(op, a)
    BY <1>1, <1>3, <2>3, ProductIs
  <2>5. PassRight(op, a, ZddLoop(op, a, got))
    BY <2>1, <2>4, AnswerPass
  <2>6. QED
    BY <2>5 DEF op
<1>10. CASE Empty \notin {f, g} /\ f # Single /\ g # Single /\ Level(f) # Level(g)
  <2>1. ~ Terminal(f) /\ ~ Terminal(g)
    BY <1>10 DEF Terminal
  <2> DEFINE a1 == <<Off(f, v), Off(g, v)>>
             a2 == <<Down(f, v), Down(g, v)>>
  <2>2. \A h : ZddLoop(op, a, h) =
                 IF Thrown \in ToSet(h) THEN Answer(Thrown)
                 ELSE Open(Either(f, g), <<a1, a2>>, h, Node(v, h[1], h[2]))
    BY <1>2, <1>10 DEF bddproduct_iter
  <2>3. AsksOnly(op, a, Either(f, g), <<a1, a2>>)
    <3>1. Answer(Thrown).kind = "answer"
      BY DEF Answer
    <3>2. QED
      BY <2>2, <3>1 DEF AsksOnly
  <2>4. /\ v \in Vars
        /\ Off(f, v) \in Families /\ Below(Off(f, v), v)
        /\ Off(g, v) \in Families /\ Below(Off(g, v), v)
        /\ On(f, v) \in Families /\ Below(On(f, v), v)
        /\ On(g, v) \in Families /\ Below(On(g, v), v)
    BY <1>1, <2>1, TwoSides
  <2>5. \/ /\ Down(f, v) = On(f, v) /\ Down(g, v) = Off(g, v) /\ On(g, v) = {}
           /\ v \notin Support(g)
        \/ /\ Down(g, v) = On(g, v) /\ Down(f, v) = Off(f, v) /\ On(f, v) = {}
           /\ v \notin Support(f)
    <3>1. Level(f) > Level(g) \/ Level(f) < Level(g)
      BY <1>1, <1>10, Levels
    <3>2. CASE Level(f) > Level(g)
      BY <1>1, <2>1, <3>2, TwoSides, HigherFacts
    <3>3. CASE Level(f) < Level(g)
      BY <1>1, <2>1, <3>3, TwoSides, HigherFacts
    <3>4. QED
      BY <3>1, <3>2, <3>3
  <2>6. /\ Down(f, v) \in Families /\ Down(g, v) \in Families
        /\ Below(Down(f, v), v) /\ Below(Down(g, v), v)
    BY <2>4, <2>5
  <2>7. /\ LoopPromise(op, a) = Products(f, g)
        /\ LoopPromise(op, a1) = Products(Off(f, v), Off(g, v))
        /\ LoopPromise(op, a2) = Products(Down(f, v), Down(g, v))
        /\ a1 \in ArgsOf(op) /\ a2 \in ArgsOf(op)
    BY <1>1, <1>3, <2>4, <2>6
  <2>8. Support(f) \cap Support(g) # {} <=>
          \/ Support(Off(f, v)) \cap Support(Off(g, v)) # {}
          \/ Support(Down(f, v)) \cap Support(Down(g, v)) # {}
    <3>1. /\ Support(f) \ {v} = Support(Off(f, v)) \cup Support(On(f, v))
          /\ Support(g) \ {v} = Support(Off(g, v)) \cup Support(On(g, v))
      BY <1>1, <2>4, SidesSupport
    <3>2. Support({}) = {}
      BY DEF Support
    <3>3. v \notin Support(f) \cap Support(g)
      BY <2>5
    <3> DEFINE F == Support(f)
               G == Support(g)
               F0 == Support(Off(f, v))
               F1 == Support(On(f, v))
               G0 == Support(Off(g, v))
               G1 == Support(On(g, v))
    <3>4. F \cap G = (F \ {v}) \cap (G \ {v})
      BY <3>3
    <3>5. \/ /\ Support(Down(f, v)) = F1 /\ Support(Down(g, v)) = G0 /\ G1 = {}
          \/ /\ Support(Down(g, v)) = G1 /\ Support(Down(f, v)) = F0 /\ F1 = {}
      BY <2>5, <3>2
    <3> HIDE DEF F, G, F0, F1, G0, G1
    <3>6. F \cap G = (F0 \cup F1) \cap (G0 \cup G1)
      BY <3>1, <3>4 DEF F, G, F0, F1, G0, G1
    <3>7. F \cap G # {} <=> F0 \cap G0 # {} \/ Support(Down(f, v)) \cap Support(Down(g, v)) # {}
      <4>1. CASE Support(Down(f, v)) = F1 /\ Support(Down(g, v)) = G0 /\ G1 = {}
        BY <3>6, <4>1
      <4>2. CASE Support(Down(g, v)) = G1 /\ Support(Down(f, v)) = F0 /\ F1 = {}
        BY <3>6, <4>2
      <4>3. QED
        BY <3>5, <4>1, <4>2
    <3>8. QED
      BY <3>7 DEF F, G, F0, G0
  <2>9. PICK S : got \in Seq(S)
    BY DEF Sequence
  <2>10. CASE Thrown \in ToSet(got)
    <3>1. ZddLoop(op, a, got) = Answer(Thrown)
      BY <2>2, <2>10
    <3>2. PICK j \in 1..Len(got) : got[j] = Thrown
      BY <2>9, <2>10 DEF ToSet
    <3> DEFINE subs == <<a1, a2>>
    <3>3. Len(subs) = 2 /\ subs[1] = a1 /\ subs[2] = a2 /\ Len(subs) \in Nat
      OBVIOUS
    <3>4. AsksOnly(op, a, Either(f, g), subs)
      BY <2>3
    <3> HIDE DEF subs, a1, a2
    <3>5. Len(got) \in Nat /\ Len(got) <= 2 /\ got[j] = LoopPromise(op, subs[j])
      BY <1>3, <3>3, <3>4, Prompts
    <3>6. j = 1 \/ j = 2
      BY <3>5
    <3>7. LoopPromise(op, a1) = Thrown \/ LoopPromise(op, a2) = Thrown
      BY <3>2, <3>3, <3>5, <3>6
    <3>8. Thrown = LoopPromise(op, a)
      BY <1>1, <2>4, <2>6, <2>7, <2>8, <3>7, ProductIs
    <3>9. PassRight(op, a, ZddLoop(op, a, got))
      BY <3>1, <3>8, AnswerPass
    <3>10. QED
      BY <3>9 DEF op
  <2>11. CASE Thrown \notin ToSet(got)
    <3>1. ZddLoop(op, a, got) = Open(Either(f, g), <<a1, a2>>, got, Node(v, got[1], got[2]))
      BY <2>2, <2>11
    <3> HIDE DEF a1, a2
    <3>2. ASSUME Len(got) = 2, got[1] = LoopPromise(op, a1), got[2] = LoopPromise(op, a2)
          PROVE  Node(v, got[1], got[2]) = LoopPromise(op, a)
      <4>1. got[1] # Thrown /\ got[2] # Thrown
        BY <2>9, <2>11, <3>2 DEF ToSet
      <4>2. /\ Support(Off(f, v)) \cap Support(Off(g, v)) = {}
            /\ Support(Down(f, v)) \cap Support(Down(g, v)) = {}
        BY <2>4, <2>6, <2>7, <3>2, <4>1, ProductIs
      <4>3. /\ got[1] = Joins(Off(f, v), Off(g, v)) /\ got[2] = Joins(Down(f, v), Down(g, v))
            /\ LoopPromise(op, a) = Joins(f, g)
        BY <1>1, <2>4, <2>6, <2>7, <2>8, <3>2, <4>2, ProductIs
      <4>4. /\ Joins(Off(f, v), Off(g, v)) \in Families /\ Below(Joins(Off(f, v), Off(g, v)), v)
            /\ Joins(Down(f, v), Down(g, v)) \in Families
            /\ Below(Joins(Down(f, v), Down(g, v)), v)
        BY <2>4, <2>6, JoinMembers
      <4>5. /\ \A x \in Families : \A s : s \notin Joins(x, {})
            /\ \A x \in Families : \A s : s \notin Joins({}, x)
        BY JoinMembers, Constants DEF Empty
      <4>6. \A s : (s \in Joins(f, g) <=>
                      (v \notin s /\ s \in Joins(Off(f, v), Off(g, v)))
                        \/ (v \in s /\ s \ {v} \in Joins(Down(f, v), Down(g, v))))
        <5>1. \A s : s \notin Joins(On(f, v), On(g, v))
          BY <2>4, <2>5, <4>5
        <5>2. \A s : (s \in Joins(f, g) <=>
                        (v \notin s /\ s \in Joins(Off(f, v), Off(g, v)))
                          \/ (v \in s /\ (s \ {v} \in Joins(Off(f, v), On(g, v))
                                        \/ s \ {v} \in Joins(On(f, v), Off(g, v)))))
          BY <1>1, <2>4, <5>1, JoinSplit
        <5> DEFINE x == Joins(Off(f, v), On(g, v))
                   y == Joins(On(f, v), Off(g, v))
                   z == Joins(Down(f, v), Down(g, v))
        <5>3. (x = z /\ y = {}) \/ (y = z /\ x = {})
          <6>1. \A h \in Families : Joins(h, {}) = {} /\ Joins({}, h) = {}
            BY <4>5
          <6>2. QED
            BY <2>4, <2>5, <6>1
        <5> HIDE DEF x, y, z
        <5>4. \A t : t \in z <=> t \in x \/ t \in y
          BY <5>3
        <5>5. QED
          BY <5>2, <5>4 DEF x, y, z
      <4>7. Node(v, Joins(Off(f, v), Off(g, v)), Joins(Down(f, v), Down(g, v))) = Joins(f, g)
        <5>1. PICK lo, hi : lo = Joins(Off(f, v), Off(g, v)) /\ hi = Joins(Down(f, v), Down(g, v))
          OBVIOUS
        <5>2. /\ v \in Vars /\ lo \in Families /\ Below(lo, v)
              /\ hi \in Families /\ Below(hi, v)
          BY <2>4, <4>4, <5>1
        <5>3. \A s : (s \in Joins(f, g) <=> (v \notin s /\ s \in lo) \/ (v \in s /\ s \ {v} \in hi))
          BY <4>6, <5>1
        <5>4. Node(v, lo, hi) = Joins(f, g)
          BY <5>2, <5>3, NodeIs
        <5>5. QED
          BY <5>1, <5>4
      <4>8. QED
        BY <4>3, <4>7
    <3>3. PassRight(op, a, ZddLoop(op, a, got))
      BY <1>3, <1>4, <2>3, <2>7, <3>1, <3>2, OpenTwo
    <3>4. QED
      BY <3>3 DEF op
  <2>12. QED
    BY <2>10, <2>11
<1>11. QED
  BY <1>6, <1>7, <1>8, <1>9, <1>10

-----------------------------------------------------------------------------
\* Inclusion and disjointness.

\* When the second of two subproblems is asked for, the first result was not
\* the one that ends the loop.
LEMMA FirstDidNotDecide ==
  ASSUME NEW op, NEW a, NEW got, Sequence(got), Asked(op, a, got), Len(got) = 2,
         ZddLoop(op, a, <<FALSE>>).kind # "ask"
  PROVE  got[1] # FALSE
<1> SUFFICES ASSUME got[1] = FALSE PROVE FALSE
  OBVIOUS
<1>1. PICK S : got \in Seq(S)
  BY DEF Sequence
<1>2. 2 \in 1..Len(got) /\ 2 - 1 = 1
  OBVIOUS
<1>3. ZddLoop(op, a, SubSeq(got, 1, 1)).kind = "ask"
  BY <1>2 DEF Asked
<1>4. SubSeq(got, 1, 1) = <<FALSE>>
  <2>1. SubSeq(got, 1, 1) \in Seq(S) /\ Len(SubSeq(got, 1, 1)) = 1
    BY <1>1, SMT
  <2>2. SubSeq(got, 1, 1)[1] = got[1]
    BY <1>1, SMT
  <2>3. \A h \in Seq(S) : Len(h) = 1 => h = <<h[1]>>
    OBVIOUS
  <2>4. SubSeq(got, 1, 1) = <<got[1]>>
    BY <2>1, <2>2, <2>3
  <2>5. QED
    BY <2>4
<1>5. QED
  BY <1>3, <1>4

\* bddissubset: one pass is right, whether the hi sides decide or not.
LEMMA SubsetRight ==
  ASSUME NEW a \in ArgsOf("bddissubset"), NEW got, Sequence(got), Asked("bddissubset", a, got)
  PROVE  PassRight("bddissubset", a, ZddLoop("bddissubset", a, got))
<1> DEFINE op == "bddissubset"
<1>1. PICK f \in Families, g \in Families : a = <<f, g>>
  BY Arguments DEF TwoFamilies
<1>2. \A h : ZddLoop(op, a, h) = bddissubset_iter(<<f, g>>, h)
  BY <1>1, Bodies
<1>3. /\ \A x, y : LoopPromise(op, <<x, y>>) = (x \subseteq y)
      /\ \A x, y \in Families : <<x, y>> \in ArgsOf(op)
      /\ Asked(op, a, got)
  BY Promises, Arguments DEF TwoFamilies
<1>4. \A k \in One(f, g) : LoopPromise(op, k) = LoopPromise(op, a)
  BY <1>1 DEF One
<1> SUFFICES PassRight(op, a, ZddLoop(op, a, got))
  OBVIOUS
<1> HIDE DEF op
<1>5. CASE f = Empty \/ f = g
  <2>1. ZddLoop(op, a, got) = Answer(TRUE)
    BY <1>2, <1>5 DEF bddissubset_iter
  <2>2. f \subseteq g
    BY <1>5 DEF Empty
  <2>3. TRUE = LoopPromise(op, a)
    BY <1>1, <1>3, <2>2
  <2>4. QED
    BY <2>1, <2>3, AnswerPass
<1>6. CASE f # Empty /\ f # g /\ g = Empty
  <2>1. ZddLoop(op, a, got) = Answer(FALSE)
    BY <1>2, <1>6 DEF bddissubset_iter
  <2>2. ~ (f \subseteq g)
    BY <1>6 DEF Empty
  <2>3. FALSE = LoopPromise(op, a)
    BY <1>1, <1>3, <2>2
  <2>4. QED
    BY <2>1, <2>3, AnswerPass
<1> DEFINE Two == f # Empty /\ f # g /\ g # Empty
<1>7. CASE Two /\ f = Single
  <2>1. ZddLoop(op, a, got) = Answer(HasEmpty(g))
    BY <1>2, <1>7 DEF bddissubset_iter
  <2>2. HasEmpty(g) = (f \subseteq g)
    BY <1>7 DEF Single, HasEmpty
  <2>3. HasEmpty(g) = LoopPromise(op, a)
    BY <1>1, <1>3, <2>2
  <2>4. QED
    BY <2>1, <2>3, AnswerPass
<1>8. CASE Two /\ f # Single /\ g = Single
  <2>1. ZddLoop(op, a, got) = Answer(FALSE)
    BY <1>2, <1>8 DEF bddissubset_iter
  <2>2. ~ (f \subseteq g)
    BY <1>8 DEF Empty, Single
  <2>3. FALSE = LoopPromise(op, a)
    BY <1>1, <1>3, <2>2
  <2>4. QED
    BY <2>1, <2>3, AnswerPass
<1> DEFINE Nodes == Two /\ f # Single /\ g # Single
           x == TopVar(f)
           y == TopVar(g)
<1>9. ASSUME Nodes PROVE ~ Terminal(f) /\ ~ Terminal(g)
  BY <1>9 DEF Terminal
<1>10. CASE Nodes /\ Level(f) > Level(g)
  <2>1. ZddLoop(op, a, got) = Keep(One(f, g), FALSE)
    BY <1>2, <1>10 DEF bddissubset_iter
  <2>2. x \in Support(f) /\ x \notin Support(g)
    BY <1>1, <1>9, <1>10, HigherFacts
  <2>3. ~ (f \subseteq g)
    BY <2>2 DEF Support
  <2>4. FALSE = LoopPromise(op, a)
    BY <1>1, <1>3, <2>3
  <2>5. QED
    BY <1>4, <2>1, <2>4, KeepPass
<1>11. CASE Nodes /\ Level(f) < Level(g)
  <2>1. ~ (Level(f) > Level(g))
    BY <1>1, <1>11, Levels
  <2> DEFINE a1 == <<f, Lo(g)>>
  <2>2. \A h : ZddLoop(op, a, h) = Open(One(f, g), <<a1>>, h, h[1])
    BY <1>2, <1>11, <2>1 DEF bddissubset_iter
  <2>3. AsksOnly(op, a, One(f, g), <<a1>>)
    BY <2>2 DEF AsksOnly
  <2>4. y \notin Support(f)
    BY <1>1, <1>9, <1>11, HigherFacts
  <2>5. Lo(g) \in Families /\ \A s : s \in Lo(g) <=> s \in g /\ y \notin s
    BY <1>1, <1>9, <1>11, TopSides
  <2>6. (f \subseteq g) = (f \subseteq Lo(g))
    BY <2>4, <2>5 DEF Support
  <2>7. a1 \in ArgsOf(op) /\ LoopPromise(op, a1) = LoopPromise(op, a)
    BY <1>1, <1>3, <2>5, <2>6
  <2> HIDE DEF a1
  <2>8. QED
    BY <1>3, <1>4, <2>2, <2>3, <2>7, OpenOne
<1>12. CASE Nodes /\ Level(f) = Level(g)
  <2>1. ~ (Level(f) > Level(g)) /\ ~ (Level(f) < Level(g))
    BY <1>1, <1>12, LevelFacts
  <2> DEFINE a1 == <<Hi(f), Hi(g)>>
             a2 == <<Lo(f), Lo(g)>>
  <2>2. \A h : ZddLoop(op, a, h) = IF h = <<FALSE>> THEN Keep(One(f, g), FALSE)
                                   ELSE Open(One(f, g), <<a1, a2>>, h, h[2])
    BY <1>2, <1>12, <2>1 DEF bddissubset_iter
  <2>3. AsksOnly(op, a, One(f, g), <<a1, a2>>)
    <3>1. Keep(One(f, g), FALSE).kind = "keep"
      BY DEF Keep
    <3>2. QED
      BY <2>2, <3>1 DEF AsksOnly
  <2>4. /\ Lo(f) \in Families /\ Hi(f) \in Families
        /\ Lo(g) \in Families /\ Hi(g) \in Families /\ x = y
        /\ \A s : s \in Lo(f) <=> s \in f /\ x \notin s
        /\ \A s : x \in s => (s \in f <=> s \ {x} \in Hi(f))
        /\ \A s : s \in Lo(g) <=> s \in g /\ x \notin s
        /\ \A s : x \in s => (s \in g <=> s \ {x} \in Hi(g))
        /\ \A s : s \in Hi(f) <=> x \notin s /\ s \cup {x} \in f
        /\ \A s : s \in Hi(g) <=> x \notin s /\ s \cup {x} \in g
    <3>1. x = y
      BY <1>1, <1>9, <1>12, HigherFacts
    <3>2. QED
      BY <1>1, <1>9, <1>12, <3>1, TopSides
  <2>5. f \subseteq g <=> Hi(f) \subseteq Hi(g) /\ Lo(f) \subseteq Lo(g)
    <3>1. ASSUME f \subseteq g PROVE Hi(f) \subseteq Hi(g) /\ Lo(f) \subseteq Lo(g)
      BY <2>4, <3>1
    <3>2. ASSUME Hi(f) \subseteq Hi(g), Lo(f) \subseteq Lo(g), NEW s \in f PROVE s \in g
      <4>1. CASE x \in s
        BY <2>4, <3>2, <4>1
      <4>2. CASE x \notin s
        BY <2>4, <3>2, <4>2
      <4>3. QED
        BY <4>1, <4>2
    <3>3. QED
      BY <3>1, <3>2
  <2>6. /\ LoopPromise(op, a) = (f \subseteq g)
        /\ LoopPromise(op, a1) = (Hi(f) \subseteq Hi(g))
        /\ LoopPromise(op, a2) = (Lo(f) \subseteq Lo(g))
        /\ a1 \in ArgsOf(op) /\ a2 \in ArgsOf(op)
    BY <1>1, <1>3, <2>4
  <2> HIDE DEF a1, a2
  <2>7. CASE got = <<FALSE>>
    <3>1. ZddLoop(op, a, got) = Keep(One(f, g), FALSE)
      BY <2>2, <2>7
    <3> DEFINE subs == <<a1, a2>>
    <3>2. Len(subs) \in Nat /\ subs[1] = a1
      OBVIOUS
    <3>3. AsksOnly(op, a, One(f, g), subs)
      BY <2>3
    <3> HIDE DEF subs
    <3>4. \A j \in 1..Len(got) : got[j] = LoopPromise(op, subs[j])
      BY <1>3, <3>2, <3>3, Prompts
    <3>5. Len(got) = 1 /\ got[1] = FALSE
      BY <2>7
    <3>6. 1 \in 1..1
      OBVIOUS
    <3>7. LoopPromise(op, a1) = FALSE
      BY <3>2, <3>4, <3>5, <3>6
    <3>8. FALSE = LoopPromise(op, a)
      BY <2>5, <2>6, <3>7
    <3>9. QED
      BY <1>4, <3>1, <3>8, KeepPass
  <2>8. CASE got # <<FALSE>>
    <3>1. ZddLoop(op, a, got) = Open(One(f, g), <<a1, a2>>, got, got[2])
      BY <2>2, <2>8
    <3>2. ASSUME Len(got) = 2, got[1] = LoopPromise(op, a1), got[2] = LoopPromise(op, a2)
          PROVE  got[2] = LoopPromise(op, a)
      <4>1. ZddLoop(op, a, <<FALSE>>).kind # "ask"
        <5>1. ZddLoop(op, a, <<FALSE>>) = Keep(One(f, g), FALSE)
          BY <2>2
        <5>2. Keep(One(f, g), FALSE).kind = "keep"
          BY DEF Keep
        <5>3. QED
          BY <5>1, <5>2
      <4>2. got[1] # FALSE
        BY <1>3, <3>2, <4>1, FirstDidNotDecide
      <4>3. Hi(f) \subseteq Hi(g)
        BY <2>6, <3>2, <4>2
      <4>4. QED
        BY <2>5, <2>6, <3>2, <4>3
    <3>3. QED
      BY <1>3, <1>4, <2>3, <2>6, <3>1, <3>2, OpenTwo
  <2>9. QED
    BY <2>7, <2>8
<1>13. Nodes => Level(f) > Level(g) \/ Level(f) < Level(g) \/ Level(f) = Level(g)
  BY <1>1, Levels
<1>14. QED
  BY <1>5, <1>6, <1>7, <1>8, <1>10, <1>11, <1>12, <1>13

\* bddisdisjoint: one pass is right, whether the hi sides decide or not.
LEMMA DisjointRight ==
  ASSUME NEW a \in ArgsOf("bddisdisjoint"), NEW got, Sequence(got),
         Asked("bddisdisjoint", a, got)
  PROVE  PassRight("bddisdisjoint", a, ZddLoop("bddisdisjoint", a, got))
<1> DEFINE op == "bddisdisjoint"
<1>1. PICK f \in Families, g \in Families : a = <<f, g>>
  BY Arguments DEF TwoFamilies
<1>2. \A h : ZddLoop(op, a, h) = bddisdisjoint_iter(<<f, g>>, h)
  BY <1>1, Bodies
<1>3. /\ \A x, y : LoopPromise(op, <<x, y>>) = (x \cap y = {})
      /\ \A x, y \in Families : <<x, y>> \in ArgsOf(op)
      /\ Asked(op, a, got)
  BY Promises, Arguments DEF TwoFamilies
<1>4. \A k \in Either(f, g) : LoopPromise(op, k) = LoopPromise(op, a)
  <2>1. (f \cap g = {}) = (g \cap f = {})
    OBVIOUS
  <2>2. QED
    BY <1>1, <1>3, <2>1 DEF Either
<1> SUFFICES PassRight(op, a, ZddLoop(op, a, got))
  OBVIOUS
<1> HIDE DEF op
<1> DEFINE v == Higher(f, g)
           Two == Empty \notin {f, g} /\ f # g
           Nodes == Two /\ f # Single /\ g # Single
<1>5. CASE Empty \in {f, g}
  <2>1. ZddLoop(op, a, got) = Answer(TRUE)
    BY <1>2, <1>5 DEF bddisdisjoint_iter
  <2>2. f \cap g = {}
    BY <1>5 DEF Empty
  <2>3. TRUE = LoopPromise(op, a)
    BY <1>1, <1>3, <2>2
  <2>4. QED
    BY <2>1, <2>3, AnswerPass
<1>6. CASE Empty \notin {f, g} /\ f = g
  <2>1. ZddLoop(op, a, got) = Answer(FALSE)
    BY <1>2, <1>6 DEF bddisdisjoint_iter
  <2>2. ~ (f \cap g = {})
    BY <1>6 DEF Empty
  <2>3. FALSE = LoopPromise(op, a)
    BY <1>1, <1>3, <2>2
  <2>4. QED
    BY <2>1, <2>3, AnswerPass
<1>7. CASE Two /\ f = Single
  <2>1. ZddLoop(op, a, got) = Answer(~ HasEmpty(g))
    BY <1>2, <1>7 DEF bddisdisjoint_iter
  <2>2. (~ HasEmpty(g)) = (f \cap g = {})
    BY <1>7 DEF Single, HasEmpty
  <2>3. (~ HasEmpty(g)) = LoopPromise(op, a)
    BY <1>1, <1>3, <2>2
  <2>4. QED
    BY <2>1, <2>3, AnswerPass
<1>8. CASE Two /\ f # Single /\ g = Single
  <2>1. ZddLoop(op, a, got) = Answer(~ HasEmpty(f))
    BY <1>2, <1>8 DEF bddisdisjoint_iter
  <2>2. (~ HasEmpty(f)) = (f \cap g = {})
    BY <1>8 DEF Single, HasEmpty
  <2>3. (~ HasEmpty(f)) = LoopPromise(op, a)
    BY <1>1, <1>3, <2>2
  <2>4. QED
    BY <2>1, <2>3, AnswerPass
<1>9. ASSUME Nodes PROVE ~ Terminal(f) /\ ~ Terminal(g)
  BY <1>9 DEF Terminal
<1>10. CASE Nodes /\ Level(f) # Level(g)
  <2> DEFINE a1 == <<Off(f, v), Off(g, v)>>
  <2>1. \A h : ZddLoop(op, a, h) = Open(Either(f, g), <<a1>>, h, h[1])
    BY <1>2, <1>10 DEF bddisdisjoint_iter
  <2>2. AsksOnly(op, a, Either(f, g), <<a1>>)
    BY <2>1 DEF AsksOnly
  <2>3. v \in Vars /\ Off(f, v) \in Families /\ Off(g, v) \in Families
    BY <1>1, <1>9, <1>10, TwoSides
  <2>4. v \notin Support(f) \/ v \notin Support(g)
    <3>1. Level(f) > Level(g) \/ Level(f) < Level(g)
      BY <1>1, <1>10, Levels
    <3>2. QED
      BY <1>1, <1>9, <1>10, <3>1, HigherFacts
  <2>5. \A s : s \in f \cap g <=> s \in Off(f, v) \cap Off(g, v)
    BY <2>4 DEF Off, Support
  <2>6. (f \cap g = {}) = (Off(f, v) \cap Off(g, v) = {})
    BY <2>5
  <2>7. a1 \in ArgsOf(op) /\ LoopPromise(op, a1) = LoopPromise(op, a)
    BY <1>1, <1>3, <2>3, <2>6
  <2> HIDE DEF a1
  <2>8. QED
    BY <1>3, <1>4, <2>1, <2>2, <2>7, OpenOne
<1>11. CASE Nodes /\ Level(f) = Level(g)
  <2> DEFINE a1 == <<Hi(f), Hi(g)>>
             a2 == <<Lo(f), Lo(g)>>
  <2>1. \A h : ZddLoop(op, a, h) = IF h = <<FALSE>> THEN Keep(Either(f, g), FALSE)
                                   ELSE Open(Either(f, g), <<a1, a2>>, h, h[2])
    BY <1>2, <1>11 DEF bddisdisjoint_iter
  <2>2. AsksOnly(op, a, Either(f, g), <<a1, a2>>)
    <3>1. Keep(Either(f, g), FALSE).kind = "keep"
      BY DEF Keep
    <3>2. QED
      BY <2>1, <3>1 DEF AsksOnly
  <2>3. /\ Lo(f) \in Families /\ Hi(f) \in Families
        /\ Lo(g) \in Families /\ Hi(g) \in Families
        /\ \A s : s \in Lo(f) <=> s \in f /\ v \notin s
        /\ \A s : v \in s => (s \in f <=> s \ {v} \in Hi(f))
        /\ \A s : s \in Lo(g) <=> s \in g /\ v \notin s
        /\ \A s : v \in s => (s \in g <=> s \ {v} \in Hi(g))
        /\ \A s : s \in Hi(f) <=> v \notin s /\ s \cup {v} \in f
        /\ \A s : s \in Hi(g) <=> v \notin s /\ s \cup {v} \in g
    <3>1. v = TopVar(f) /\ v = TopVar(g)
      BY <1>1, <1>9, <1>11, HigherFacts
    <3>a. ~ Terminal(f) /\ ~ Terminal(g)
      BY <1>9, <1>11
    <3> HIDE DEF v
    <3>2. /\ Lo(f) \in Families /\ Hi(f) \in Families
          /\ \A s : s \in Lo(f) <=> s \in f /\ v \notin s
          /\ \A s : v \in s => (s \in f <=> s \ {v} \in Hi(f))
          /\ \A s : s \in Hi(f) <=> v \notin s /\ s \cup {v} \in f
      BY <1>1, <3>1, <3>a, TopSides
    <3>3. /\ Lo(g) \in Families /\ Hi(g) \in Families
          /\ \A s : s \in Lo(g) <=> s \in g /\ v \notin s
          /\ \A s : v \in s => (s \in g <=> s \ {v} \in Hi(g))
          /\ \A s : s \in Hi(g) <=> v \notin s /\ s \cup {v} \in g
      BY <1>1, <3>1, <3>a, TopSides
    <3>4. QED
      BY <3>2, <3>3
  <2>4. f \cap g = {} <=> Hi(f) \cap Hi(g) = {} /\ Lo(f) \cap Lo(g) = {}
    <3>1. ASSUME NEW s \in f \cap g PROVE Hi(f) \cap Hi(g) # {} \/ Lo(f) \cap Lo(g) # {}
      <4>1. CASE v \in s
        <5>1. s \ {v} \in Hi(f) \cap Hi(g)
          BY <2>3, <4>1
        <5>2. QED
          BY <5>1
      <4>2. CASE v \notin s
        BY <2>3, <4>2
      <4>3. QED
        BY <4>1, <4>2
    <3>2. ASSUME NEW s \in Hi(f) \cap Hi(g) PROVE f \cap g # {}
      BY <2>3
    <3>3. ASSUME NEW s \in Lo(f) \cap Lo(g) PROVE f \cap g # {}
      BY <2>3
    <3>4. QED
      BY <3>1, <3>2, <3>3
  <2>5. /\ LoopPromise(op, a) = (f \cap g = {})
        /\ LoopPromise(op, a1) = (Hi(f) \cap Hi(g) = {})
        /\ LoopPromise(op, a2) = (Lo(f) \cap Lo(g) = {})
        /\ a1 \in ArgsOf(op) /\ a2 \in ArgsOf(op)
    BY <1>1, <1>3, <2>3
  <2> HIDE DEF a1, a2
  <2>6. CASE got = <<FALSE>>
    <3>1. ZddLoop(op, a, got) = Keep(Either(f, g), FALSE)
      BY <2>1, <2>6
    <3> DEFINE subs == <<a1, a2>>
    <3>2. Len(subs) \in Nat /\ subs[1] = a1
      OBVIOUS
    <3>3. AsksOnly(op, a, Either(f, g), subs)
      BY <2>2
    <3> HIDE DEF subs
    <3>4. \A j \in 1..Len(got) : got[j] = LoopPromise(op, subs[j])
      BY <1>3, <3>2, <3>3, Prompts
    <3>5. Len(got) = 1 /\ got[1] = FALSE
      BY <2>6
    <3>6. 1 \in 1..1
      OBVIOUS
    <3>7. LoopPromise(op, a1) = FALSE
      BY <3>2, <3>4, <3>5, <3>6
    <3>8. FALSE = LoopPromise(op, a)
      BY <2>4, <2>5, <3>7
    <3>9. QED
      BY <1>4, <3>1, <3>8, KeepPass
  <2>7. CASE got # <<FALSE>>
    <3>1. ZddLoop(op, a, got) = Open(Either(f, g), <<a1, a2>>, got, got[2])
      BY <2>1, <2>7
    <3>2. ASSUME Len(got) = 2, got[1] = LoopPromise(op, a1), got[2] = LoopPromise(op, a2)
          PROVE  got[2] = LoopPromise(op, a)
      <4>1. ZddLoop(op, a, <<FALSE>>).kind # "ask"
        <5>1. ZddLoop(op, a, <<FALSE>>) = Keep(Either(f, g), FALSE)
          BY <2>1
        <5>2. Keep(Either(f, g), FALSE).kind = "keep"
          BY DEF Keep
        <5>3. QED
          BY <5>1, <5>2
      <4>2. got[1] # FALSE
        BY <1>3, <3>2, <4>1, FirstDidNotDecide
      <4>3. Hi(f) \cap Hi(g) = {}
        BY <2>5, <3>2, <4>2
      <4>4. QED
        BY <2>4, <2>5, <3>2, <4>3
    <3>3. QED
      BY <1>3, <1>4, <2>2, <2>5, <3>1, <3>2, OpenTwo
  <2>8. QED
    BY <2>6, <2>7
<1>12. QED
  BY <1>5, <1>6, <1>7, <1>8, <1>10, <1>11

-----------------------------------------------------------------------------
\* Quotient.

Divides(s, f, g) == \A t \in g : Apart(s, t) /\ s \cup t \in f

\* The quotient by a family that is not empty.
LEMMA QuotientMembers ==
  ASSUME NEW f \in Families, NEW g \in Families, g # Empty
  PROVE  /\ \A s : s \in Quotient(f, g) <=> Divides(s, f, g)
         /\ \A s \in Quotient(f, g) : s \subseteq Support(f)
<1>1. PICK t \in g : TRUE
  BY DEF Empty
<1>2. Quotient(f, g) = {s \in SUBSET Support(f) : Divides(s, f, g)}
  BY DEF Quotient, Divides, Apart
<1>3. ASSUME NEW s, Divides(s, f, g) PROVE s \subseteq Support(f)
  <2>1. s \cup t \in f
    BY <1>1, <1>3 DEF Divides
  <2>2. QED
    BY <2>1 DEF Support
<1>4. QED
  BY <1>2, <1>3

\* A quotient has no variables of its own.
LEMMA QuotientFamily ==
  ASSUME NEW f \in Families, NEW g \in Families
  PROVE  /\ Quotient(f, g) \in Families
         /\ \A v : Below(f, v) => Below(Quotient(f, g), v)
<1>1. \A s \in Quotient(f, g) : s \subseteq Support(f)
  BY QuotientMembers DEF Quotient, Empty
<1>2. \A s \in Quotient(f, g) : s \subseteq Support(f) \cup Support(f)
  BY <1>1
<1>3. QED
  BY <1>2, Inside

\* bdddiv: one pass is right.
LEMMA DivRight ==
  ASSUME NEW a \in ArgsOf("bdddiv"), NEW got, Sequence(got), Asked("bdddiv", a, got)
  PROVE  PassRight("bdddiv", a, ZddLoop("bdddiv", a, got))
<1> DEFINE op == "bdddiv"
<1>1. PICK f \in Families, g \in Families : a = <<f, g>>
  BY Arguments DEF TwoFamilies
<1>2. \A h : ZddLoop(op, a, h) = bdddiv_iter(<<f, g>>, h)
  BY <1>1, Bodies
<1>3. /\ \A x, y : LoopPromise(op, <<x, y>>) = Quotient(x, y)
      /\ \A x, y \in Families : <<x, y>> \in ArgsOf(op)
      /\ Asked(op, a, got)
  BY Promises, Arguments DEF TwoFamilies
<1>4. \A k \in One(f, g) : LoopPromise(op, k) = LoopPromise(op, a)
  BY <1>1 DEF One
<1> SUFFICES PassRight(op, a, ZddLoop(op, a, got))
  OBVIOUS
<1> HIDE DEF op
<1>5. \A x, y \in Families : y # Empty =>
        \A s : s \in Quotient(x, y) <=> Divides(s, x, y)
  BY QuotientMembers
<1> DEFINE x == TopVar(f)
           y == TopVar(g)
           Nodes == g # Single /\ ~ Terminal(f) /\ g # Empty
<1>6. CASE g = Single
  <2>1. ZddLoop(op, a, got) = Answer(f)
    BY <1>2, <1>6 DEF bdddiv_iter
  <2>2. \A s : Apart(s, {}) /\ s \cup {} = s
    BY DEF Apart
  <2>3. g # Empty /\ {} \in g /\ \A t \in g : t = {}
    BY <1>6 DEF Empty, Single
  <2>4. \A s : s \in Quotient(f, g) <=> s \in f
    <3>1. \A s : Divides(s, f, g) <=> s \in f
      BY <2>2, <2>3 DEF Divides
    <3>2. QED
      BY <1>1, <1>5, <2>3, <3>1
  <2>5. f = LoopPromise(op, a)
    <3>1. Quotient(f, g) = f
      BY <2>4
    <3>2. QED
      BY <1>1, <1>3, <3>1
  <2>6. QED
    BY <2>1, <2>5, AnswerPass
<1>7. CASE g # Single /\ (Terminal(f) \/ g = Empty)
  <2>1. ZddLoop(op, a, got) = Answer(Empty)
    BY <1>2, <1>7 DEF bdddiv_iter
  <2>2. Quotient(f, g) = Empty
    <3>1. CASE g = Empty
      BY <3>1 DEF Quotient
    <3>2. CASE g # Empty /\ Terminal(f)
      <4>1. PICK t \in g : t # {}
        BY <1>7, <3>2 DEF Empty, Single
      <4>2. \A s : s \cup t # {}
        BY <4>1
      <4>3. \A s \in f : s = {}
        BY <3>2 DEF Terminal, Empty, Single
      <4>4. ASSUME NEW s \in Quotient(f, g) PROVE FALSE
        <5>1. Divides(s, f, g)
          BY <1>1, <1>5, <3>2
        <5>2. s \cup t \in f
          BY <4>1, <5>1 DEF Divides
        <5>3. QED
          BY <4>2, <4>3, <5>2
      <4>5. QED
        BY <4>4 DEF Empty
    <3>3. QED
      BY <1>7, <3>1, <3>2
  <2>3. Empty = LoopPromise(op, a)
    BY <1>1, <1>3, <2>2
  <2>4. QED
    BY <2>1, <2>3, AnswerPass
<1>8. ASSUME Nodes PROVE ~ Terminal(f) /\ ~ Terminal(g)
  BY <1>8 DEF Terminal
<1>9. CASE Nodes /\ Level(f) < Level(g)
  <2>1. Level(g) > Level(f)
    BY <1>1, <1>9, Levels
  <2>2. ZddLoop(op, a, got) = Keep(One(f, g), Empty)
    BY <1>2, <1>9, <2>1 DEF bdddiv_iter
  <2>3. y \in Support(g) /\ y \notin Support(f)
    BY <1>1, <1>8, <1>9, HigherFacts
  <2>4. PICK t \in g : y \in t
    BY <2>3 DEF Support
  <2>5. \A s : s \cup t \notin f
    BY <2>3, <2>4 DEF Support
  <2>6. \A s : s \notin Quotient(f, g)
    BY <1>1, <1>5, <1>9, <2>4, <2>5 DEF Divides
  <2>7. Quotient(f, g) = Empty
    BY <2>6 DEF Empty
  <2>8. Empty = LoopPromise(op, a)
    BY <1>1, <1>3, <2>7
  <2>9. QED
    BY <1>4, <2>2, <2>8, KeepPass
<1>10. CASE Nodes /\ Level(f) > Level(g)
  <2>1. ~ (Level(g) > Level(f))
    BY <1>1, <1>10, Levels
  <2> DEFINE a1 == <<Lo(f), g>>
             a2 == <<Hi(f), g>>
  <2>2. \A h : ZddLoop(op, a, h) = Open(One(f, g), <<a1, a2>>, h, Node(x, h[1], h[2]))
    BY <1>2, <1>10, <2>1 DEF bdddiv_iter
  <2>3. /\ x \in Vars /\ Lo(f) \in Families /\ Hi(f) \in Families
        /\ Below(Lo(f), x) /\ Below(Hi(f), x)
        /\ \A s : s \in Lo(f) <=> s \in f /\ x \notin s
        /\ \A s : x \in s => (s \in f <=> s \ {x} \in Hi(f))
    BY <1>1, <1>8, <1>10, TopSides
  <2>4. \A t \in g : x \notin t
    BY <1>1, <1>8, <1>10, HigherFacts DEF Support
  <2>5. /\ LoopPromise(op, a) = Quotient(f, g)
        /\ LoopPromise(op, a1) = Quotient(Lo(f), g)
        /\ LoopPromise(op, a2) = Quotient(Hi(f), g)
        /\ a1 \in ArgsOf(op) /\ a2 \in ArgsOf(op)
    BY <1>1, <1>3, <2>3
  <2> HIDE DEF a1, a2
  <2>6. ASSUME NEW s
        PROVE  s \in Quotient(f, g) <=> (x \notin s /\ s \in Quotient(Lo(f), g))
                                        \/ (x \in s /\ s \ {x} \in Quotient(Hi(f), g))
    <3>1. /\ s \in Quotient(f, g) <=> Divides(s, f, g)
          /\ s \in Quotient(Lo(f), g) <=> Divides(s, Lo(f), g)
          /\ s \ {x} \in Quotient(Hi(f), g) <=> Divides(s \ {x}, Hi(f), g)
      BY <1>1, <1>5, <1>10, <2>3
    <3>2. PICK t1 \in g : TRUE
      BY <1>10 DEF Empty
    <3>3. CASE x \notin s
      <4>1. \A t \in g : x \notin s \cup t
        BY <2>4, <3>3
      <4>2. QED
        BY <2>3, <3>1, <3>2, <3>3, <4>1 DEF Divides
    <3>4. CASE x \in s
      <4>1. \A t \in g : /\ x \in s \cup t /\ (s \cup t) \ {x} = (s \ {x}) \cup t
                         /\ (Apart(s, t) <=> Apart(s \ {x}, t))
        BY <2>4, <3>4 DEF Apart
      <4>2. \A t \in g : s \cup t \in f <=> (s \ {x}) \cup t \in Hi(f)
        BY <2>3, <4>1
      <4>3. QED
        BY <3>1, <3>4, <4>1, <4>2 DEF Divides
    <3>5. QED
      BY <3>3, <3>4
  <2>7. /\ Quotient(Lo(f), g) \in Families /\ Below(Quotient(Lo(f), g), x)
        /\ Quotient(Hi(f), g) \in Families /\ Below(Quotient(Hi(f), g), x)
    BY <1>1, <2>3, QuotientFamily
  <2>8. \A s : (s \in LoopPromise(op, a) <=> (x \notin s /\ s \in LoopPromise(op, a1))
                                             \/ (x \in s /\ s \ {x} \in LoopPromise(op, a2)))
    BY <2>5, <2>6
  <2>9. /\ LoopPromise(op, a1) \in Families /\ Below(LoopPromise(op, a1), x)
        /\ LoopPromise(op, a2) \in Families /\ Below(LoopPromise(op, a2), x)
    BY <2>5, <2>7
  <2>10. QED
    BY <1>3, <1>4, <2>2, <2>3, <2>5, <2>8, <2>9, NodePass
<1>11. ASSUME Nodes, Level(f) = Level(g)
       PROVE  /\ Lo(f) \in Families /\ Hi(f) \in Families
              /\ Lo(g) \in Families /\ Hi(g) \in Families /\ Hi(g) # Empty
              /\ \A s : s \in Quotient(f, g) <=>
                   /\ s \in Quotient(Hi(f), Hi(g))
                   /\ Lo(g) # Empty => s \in Quotient(Lo(f), Lo(g))
  <2>1. x = y /\ x \in Vars /\ x \in Support(g)
    BY <1>1, <1>8, <1>11, HigherFacts
  <2>2. /\ Lo(f) \in Families /\ Hi(f) \in Families
        /\ Lo(g) \in Families /\ Hi(g) \in Families
        /\ \A s : s \in Lo(f) <=> s \in f /\ x \notin s
        /\ \A s : s \in Hi(f) <=> x \notin s /\ s \cup {x} \in f
        /\ \A s : x \in s => (s \in f <=> s \ {x} \in Hi(f))
        /\ \A s : s \in Lo(g) <=> s \in g /\ x \notin s
        /\ \A s : s \in Hi(g) <=> x \notin s /\ s \cup {x} \in g
        /\ \A s : x \in s => (s \in g <=> s \ {x} \in Hi(g))
    BY <1>1, <1>8, <1>11, <2>1, TopSides
  <2>3. PICK t1 \in g : x \in t1
    BY <2>1 DEF Support
  <2>4. t1 \ {x} \in Hi(g)
    BY <2>2, <2>3
  <2>5. Hi(g) # Empty
    BY <2>4 DEF Empty
  <2>6. ASSUME NEW s, s \in Quotient(f, g)
        PROVE  /\ s \in Quotient(Hi(f), Hi(g))
               /\ Lo(g) # Empty => s \in Quotient(Lo(f), Lo(g))
    <3>1. \A t \in g : Apart(s, t) /\ s \cup t \in f
      BY <1>1, <1>5, <1>11, <2>6 DEF Divides
    <3>2. x \notin s
      <4>1. s \cap t1 = {}
        BY <2>3, <3>1 DEF Apart
      <4>2. QED
        BY <2>3, <4>1
    <3>3. ASSUME NEW t \in Hi(g) PROVE Apart(s, t) /\ s \cup t \in Hi(f)
      <4>1. x \notin t /\ t \cup {x} \in g
        BY <2>2
      <4>2. s \cap (t \cup {x}) = {} /\ s \cup (t \cup {x}) \in f
        BY <3>1, <4>1 DEF Apart
      <4>3. (s \cup t) \cup {x} = s \cup (t \cup {x}) /\ x \notin s \cup t
        BY <3>2, <4>1
      <4>4. Apart(s, t)
        BY <4>2 DEF Apart
      <4>5. QED
        BY <2>2, <4>2, <4>3, <4>4
    <3>4. ASSUME NEW t \in Lo(g) PROVE Apart(s, t) /\ s \cup t \in Lo(f)
      <4>1. x \notin t /\ t \in g
        BY <2>2
      <4>2. x \notin s \cup t
        BY <3>2, <4>1
      <4>3. QED
        BY <2>2, <3>1, <4>1, <4>2
    <3>5. Divides(s, Hi(f), Hi(g)) /\ Divides(s, Lo(f), Lo(g))
      BY <3>3, <3>4 DEF Divides
    <3>6. QED
      BY <1>5, <2>2, <2>5, <3>5
  <2>7. ASSUME NEW s, s \in Quotient(Hi(f), Hi(g)),
               Lo(g) # Empty => s \in Quotient(Lo(f), Lo(g))
        PROVE  s \in Quotient(f, g)
    <3>1. \A t \in Hi(g) : Apart(s, t) /\ s \cup t \in Hi(f)
      BY <1>5, <2>2, <2>5, <2>7 DEF Divides
    <3>2. \A t \in Lo(g) : Apart(s, t) /\ s \cup t \in Lo(f)
      BY <1>5, <2>2, <2>7 DEF Empty, Divides
    <3>3. x \notin s
      <4>1. s \cup (t1 \ {x}) \in Hi(f)
        BY <2>4, <3>1
      <4>2. x \notin s \cup (t1 \ {x})
        BY <2>2, <4>1
      <4>3. QED
        BY <4>2
    <3>4. ASSUME NEW t \in g PROVE Apart(s, t) /\ s \cup t \in f
      <4>1. CASE x \in t
        <5>1. t \ {x} \in Hi(g)
          BY <2>2, <4>1
        <5>2. Apart(s, t \ {x}) /\ s \cup (t \ {x}) \in Hi(f)
          BY <3>1, <5>1
        <5>3. (s \cup t) \ {x} = s \cup (t \ {x}) /\ x \in s \cup t
          BY <3>3, <4>1
        <5>4. Apart(s, t)
          BY <3>3, <5>2 DEF Apart
        <5>5. QED
          BY <2>2, <5>2, <5>3, <5>4
      <4>2. CASE x \notin t
        <5>1. t \in Lo(g)
          BY <2>2, <4>2
        <5>2. QED
          BY <2>2, <3>2, <5>1
      <4>3. QED
        BY <4>1, <4>2
    <3>5. QED
      BY <1>1, <1>5, <1>11, <3>4 DEF Divides
  <2>8. QED
    BY <2>2, <2>5, <2>6, <2>7
<1>12. CASE Nodes /\ Level(f) = Level(g) /\ Lo(g) = Empty
  <2>1. ~ (Level(g) > Level(f)) /\ ~ (Level(f) > Level(g))
    BY <1>1, <1>12, LevelFacts
  <2> DEFINE a1 == <<Hi(f), Hi(g)>>
  <2>2. \A h : ZddLoop(op, a, h) = Open(One(f, g), <<a1>>, h, h[1])
    BY <1>2, <1>12, <2>1 DEF bdddiv_iter
  <2>3. AsksOnly(op, a, One(f, g), <<a1>>)
    BY <2>2 DEF AsksOnly
  <2>4. \A s : s \in Quotient(f, g) <=> s \in Quotient(Hi(f), Hi(g))
    BY <1>11, <1>12
  <2>5. Quotient(f, g) = Quotient(Hi(f), Hi(g))
    BY <2>4
  <2>6. a1 \in ArgsOf(op) /\ LoopPromise(op, a1) = LoopPromise(op, a)
    BY <1>1, <1>3, <1>11, <1>12, <2>5
  <2> HIDE DEF a1
  <2>7. QED
    BY <1>3, <1>4, <2>2, <2>3, <2>6, OpenOne
<1>13. CASE Nodes /\ Level(f) = Level(g) /\ Lo(g) # Empty
  <2>1. ~ (Level(g) > Level(f)) /\ ~ (Level(f) > Level(g))
    BY <1>1, <1>13, LevelFacts
  <2> DEFINE a1 == <<Hi(f), Hi(g)>>
             a2 == <<Lo(f), Lo(g)>>
  <2>2. \A h : ZddLoop(op, a, h) = Open(One(f, g), <<a1, a2>>, h, h[1] \cap h[2])
    BY <1>2, <1>13, <2>1 DEF bdddiv_iter
  <2>3. AsksOnly(op, a, One(f, g), <<a1, a2>>)
    BY <2>2 DEF AsksOnly
  <2>4. \A s : s \in Quotient(f, g) <=>
                 s \in Quotient(Hi(f), Hi(g)) /\ s \in Quotient(Lo(f), Lo(g))
    BY <1>11, <1>13
  <2>5. Quotient(f, g) = Quotient(Hi(f), Hi(g)) \cap Quotient(Lo(f), Lo(g))
    BY <2>4
  <2>6. a1 \in ArgsOf(op) /\ a2 \in ArgsOf(op)
        /\ LoopPromise(op, a1) \cap LoopPromise(op, a2) = LoopPromise(op, a)
    BY <1>1, <1>3, <1>11, <1>13, <2>5
  <2> HIDE DEF a1, a2
  <2>7. QED
    BY <1>3, <1>4, <2>2, <2>3, <2>6, OpenTwo
<1>14. Nodes => Level(f) > Level(g) \/ Level(f) < Level(g) \/ Level(f) = Level(g)
  BY <1>1, Levels
<1>15. QED
  BY <1>6, <1>7, <1>9, <1>10, <1>12, <1>13, <1>14

-----------------------------------------------------------------------------
\* Members by the sets they include or are included in.

SupersetOps == {"bddrestrict", "bddremove_supersets"}
SubsetOps == {"bddpermit", "bddremove_subsets"}

Includes(s, g) == \E t \in g : t \subseteq s
Within(s, g) == \E t \in g : s \subseteq t

\* Whether op leaves the set s in.
Kept(op, s, g) ==
  CASE op = "bddrestrict" -> Includes(s, g)
    [] op = "bddremove_supersets" -> ~ Includes(s, g)
    [] op = "bddpermit" -> Within(s, g)
    [] op = "bddremove_subsets" -> ~ Within(s, g)

\* Membership in the results of the four operations.
LEMMA KeptMembers ==
  ASSUME NEW op \in SupersetOps \cup SubsetOps
  PROVE  \A f, g, s : s \in LoopPromise(op, <<f, g>>) <=> s \in f /\ Kept(op, s, g)
<1>1. /\ \A s, g : Kept("bddrestrict", s, g) <=> Includes(s, g)
      /\ \A s, g : Kept("bddremove_supersets", s, g) <=> ~ Includes(s, g)
      /\ \A s, g : Kept("bddpermit", s, g) <=> Within(s, g)
      /\ \A s, g : Kept("bddremove_subsets", s, g) <=> ~ Within(s, g)
  BY DEF Kept
<1>2. CASE op = "bddrestrict"
  <2>1. ASSUME NEW f, NEW g, NEW s
        PROVE  s \in LoopPromise("bddrestrict", <<f, g>>) <=> s \in f /\ Includes(s, g)
    <3>1. LoopPromise("bddrestrict", <<f, g>>) = {t \in f : Includes(t, g)}
      BY Promises DEF Includes
    <3>2. QED
      BY <3>1
  <2>2. QED
    BY <1>1, <1>2, <2>1
<1>3. CASE op = "bddremove_supersets"
  <2>1. ASSUME NEW f, NEW g, NEW s
        PROVE  s \in LoopPromise("bddremove_supersets", <<f, g>>) <=> s \in f /\ ~ Includes(s, g)
    <3>1. LoopPromise("bddremove_supersets", <<f, g>>) = {t \in f : ~ Includes(t, g)}
      BY Promises DEF Includes
    <3>2. QED
      BY <3>1
  <2>2. QED
    BY <1>1, <1>3, <2>1
<1>4. CASE op = "bddpermit"
  <2>1. ASSUME NEW f, NEW g, NEW s
        PROVE  s \in LoopPromise("bddpermit", <<f, g>>) <=> s \in f /\ Within(s, g)
    <3>1. LoopPromise("bddpermit", <<f, g>>) = {t \in f : Within(t, g)}
      BY Promises DEF Within
    <3>2. QED
      BY <3>1
  <2>2. QED
    BY <1>1, <1>4, <2>1
<1>5. CASE op = "bddremove_subsets"
  <2>1. ASSUME NEW f, NEW g, NEW s
        PROVE  s \in LoopPromise("bddremove_subsets", <<f, g>>) <=> s \in f /\ ~ Within(s, g)
    <3>1. LoopPromise("bddremove_subsets", <<f, g>>) = {t \in f : ~ Within(t, g)}
      BY Promises DEF Within
    <3>2. QED
      BY <3>1
  <2>2. QED
    BY <1>1, <1>5, <2>1
<1>6. QED
  BY <1>2, <1>3, <1>4, <1>5 DEF SupersetOps, SubsetOps

\* Which sides of g have a set that s includes,
LEMMA IncludesSplit ==
  ASSUME NEW g \in Families, NEW v \in Vars, NEW s
  PROVE  /\ v \notin s => (Includes(s, g) <=> Includes(s, Off(g, v)))
         /\ v \in s => (Includes(s, g) <=> Includes(s \ {v}, Off(g, v) \cup On(g, v)))
<1>1. /\ \A t : t \in Off(g, v) <=> t \in g /\ v \notin t
      /\ \A t : t \in On(g, v) <=> v \notin t /\ t \cup {v} \in g
      /\ \A t : v \in t => (t \in g <=> t \ {v} \in On(g, v))
  BY InOrOut, SideFacts
<1>2. ASSUME v \notin s PROVE Includes(s, g) <=> Includes(s, Off(g, v))
  <2>1. \A t \in g : t \subseteq s => v \notin t
    BY <1>2
  <2>2. QED
    BY <1>1, <2>1 DEF Includes
<1>3. ASSUME v \in s, Includes(s, g) PROVE Includes(s \ {v}, Off(g, v) \cup On(g, v))
  <2>1. PICK t \in g : t \subseteq s
    BY <1>3 DEF Includes
  <2>2. CASE v \in t
    <3>1. t \ {v} \in On(g, v) /\ t \ {v} \subseteq s \ {v}
      BY <1>1, <2>1, <2>2
    <3>2. QED
      BY <3>1 DEF Includes
  <2>3. CASE v \notin t
    <3>1. t \in Off(g, v) /\ t \subseteq s \ {v}
      BY <1>1, <2>1, <2>3
    <3>2. QED
      BY <3>1 DEF Includes
  <2>4. QED
    BY <2>2, <2>3
<1>4. ASSUME v \in s, Includes(s \ {v}, Off(g, v) \cup On(g, v)) PROVE Includes(s, g)
  <2>1. PICK t \in Off(g, v) \cup On(g, v) : t \subseteq s \ {v}
    BY <1>4 DEF Includes
  <2>2. CASE t \in Off(g, v)
    <3>1. t \in g /\ t \subseteq s
      BY <1>1, <2>1, <2>2
    <3>2. QED
      BY <3>1 DEF Includes
  <2>3. CASE t \in On(g, v)
    <3>1. t \cup {v} \in g /\ t \cup {v} \subseteq s
      BY <1>1, <1>4, <2>1, <2>3
    <3>2. QED
      BY <3>1 DEF Includes
  <2>4. QED
    BY <2>1, <2>2, <2>3
<1>5. QED
  BY <1>2, <1>3, <1>4

\* and which have one that includes s.
LEMMA WithinSplit ==
  ASSUME NEW g \in Families, NEW v \in Vars, NEW s
  PROVE  /\ v \notin s => (Within(s, g) <=> Within(s, Off(g, v) \cup On(g, v)))
         /\ v \in s => (Within(s, g) <=> Within(s \ {v}, On(g, v)))
<1>1. /\ \A t : t \in Off(g, v) <=> t \in g /\ v \notin t
      /\ \A t : t \in On(g, v) <=> v \notin t /\ t \cup {v} \in g
      /\ \A t : v \in t => (t \in g <=> t \ {v} \in On(g, v))
  BY InOrOut, SideFacts
<1>2. ASSUME v \notin s, Within(s, g) PROVE Within(s, Off(g, v) \cup On(g, v))
  <2>1. PICK t \in g : s \subseteq t
    BY <1>2 DEF Within
  <2>2. CASE v \in t
    <3>1. t \ {v} \in On(g, v) /\ s \subseteq t \ {v}
      BY <1>1, <1>2, <2>1, <2>2
    <3>2. QED
      BY <3>1 DEF Within
  <2>3. CASE v \notin t
    <3>1. t \in Off(g, v)
      BY <1>1, <2>1, <2>3
    <3>2. QED
      BY <2>1, <3>1 DEF Within
  <2>4. QED
    BY <2>2, <2>3
<1>3. ASSUME v \notin s, Within(s, Off(g, v) \cup On(g, v)) PROVE Within(s, g)
  <2>1. PICK t \in Off(g, v) \cup On(g, v) : s \subseteq t
    BY <1>3 DEF Within
  <2>2. t \in g \/ t \cup {v} \in g
    BY <1>1, <2>1
  <2>3. s \subseteq t \cup {v}
    BY <2>1
  <2>4. QED
    BY <2>1, <2>2, <2>3 DEF Within
<1>4. ASSUME v \in s, Within(s, g) PROVE Within(s \ {v}, On(g, v))
  <2>1. PICK t \in g : s \subseteq t
    BY <1>4 DEF Within
  <2>2. t \ {v} \in On(g, v) /\ s \ {v} \subseteq t \ {v}
    BY <1>1, <1>4, <2>1
  <2>3. QED
    BY <2>2 DEF Within
<1>5. ASSUME v \in s, Within(s \ {v}, On(g, v)) PROVE Within(s, g)
  <2>1. PICK t \in On(g, v) : s \ {v} \subseteq t
    BY <1>5 DEF Within
  <2>2. t \cup {v} \in g /\ s \subseteq t \cup {v}
    BY <1>1, <1>5, <2>1
  <2>3. QED
    BY <2>2 DEF Within
<1>6. QED
  BY <1>2, <1>3, <1>4, <1>5

\* What the loops of the four operations rest on: which sides of g decide
\* whether a set with, or without, v stays.
LEMMA KeptSplit ==
  ASSUME NEW g \in Families, NEW v \in Vars, NEW s
  PROVE  /\ \A op \in SupersetOps :
              /\ v \notin s => (Kept(op, s, g) <=> Kept(op, s, Off(g, v)))
              /\ v \in s => (Kept(op, s, g) <=> Kept(op, s \ {v}, Off(g, v) \cup On(g, v)))
         /\ \A op \in SubsetOps :
              /\ v \notin s => (Kept(op, s, g) <=> Kept(op, s, Off(g, v) \cup On(g, v)))
              /\ v \in s => (Kept(op, s, g) <=> Kept(op, s \ {v}, On(g, v)))
<1>1. /\ \A t, h : Kept("bddrestrict", t, h) = Includes(t, h)
      /\ \A t, h : Kept("bddremove_supersets", t, h) = ~ Includes(t, h)
      /\ \A t, h : Kept("bddpermit", t, h) = Within(t, h)
      /\ \A t, h : Kept("bddremove_subsets", t, h) = ~ Within(t, h)
  BY DEF Kept
<1>2. /\ v \notin s => (Includes(s, g) <=> Includes(s, Off(g, v)))
      /\ v \in s => (Includes(s, g) <=> Includes(s \ {v}, Off(g, v) \cup On(g, v)))
      /\ v \notin s => (Within(s, g) <=> Within(s, Off(g, v) \cup On(g, v)))
      /\ v \in s => (Within(s, g) <=> Within(s \ {v}, On(g, v)))
  BY IncludesSplit, WithinSplit
<1>3. ASSUME NEW op \in SupersetOps
      PROVE  /\ v \notin s => (Kept(op, s, g) <=> Kept(op, s, Off(g, v)))
             /\ v \in s => (Kept(op, s, g) <=> Kept(op, s \ {v}, Off(g, v) \cup On(g, v)))
  <2>1. op = "bddrestrict" \/ op = "bddremove_supersets"
    BY <1>3 DEF SupersetOps
  <2>2. QED
    BY <1>1, <1>2, <2>1
<1>4. ASSUME NEW op \in SubsetOps
      PROVE  /\ v \notin s => (Kept(op, s, g) <=> Kept(op, s, Off(g, v) \cup On(g, v)))
             /\ v \in s => (Kept(op, s, g) <=> Kept(op, s \ {v}, On(g, v)))
  <2>1. op = "bddpermit" \/ op = "bddremove_subsets"
    BY <1>4 DEF SubsetOps
  <2>2. QED
    BY <1>1, <1>2, <2>1
<1>5. QED
  BY <1>3, <1>4

\* The arguments and the members of the results of the four operations.
LEMMA FilterArgs ==
  ASSUME NEW op \in SupersetOps \cup SubsetOps, NEW f \in Families, NEW g \in Families
  PROVE  /\ <<f, g>> \in ArgsOf(op)
         /\ LoopPromise(op, <<f, g>>) \in Families
         /\ \A v : Below(f, v) => Below(LoopPromise(op, <<f, g>>), v)
         /\ \A k \in One(f, g) : LoopPromise(op, k) = LoopPromise(op, <<f, g>>)
<1>1. <<f, g>> \in ArgsOf(op)
  BY Arguments DEF SupersetOps, SubsetOps, TwoFamilies
<1>2. PICK r : r = LoopPromise(op, <<f, g>>)
  OBVIOUS
<1>3. r \subseteq f
  BY <1>2, KeptMembers
<1>4. r \in Families /\ \A v : Below(f, v) => Below(r, v)
  BY <1>3 DEF Families, Below, Support
<1>5. QED
  BY <1>1, <1>2, <1>4 DEF One

\* The loop of bddrestrict and bddremove_supersets past its terminal cases.
LEMMA SupersetPass ==
  ASSUME NEW op \in SupersetOps, NEW f \in Families, NEW g \in Families, ~ Terminal(g),
         NEW got, Sequence(got), Asked(op, <<f, g>>, got),
         \A h : ZddLoop(op, <<f, g>>, h) =
                  IF Level(f) < Level(g) THEN Open(One(f, g), <<<<f, Lo(g)>>>>, h, h[1])
                  ELSE Open(One(f, g), IF Level(f) > Level(g) THEN <<<<Lo(f), g>>, <<Hi(f), g>>>>
                                       ELSE <<<<Lo(f), Lo(g)>>, <<Hi(f), Lo(g) \cup Hi(g)>>>>,
                            h, Node(TopVar(f), h[1], h[2]))
  PROVE  PassRight(op, <<f, g>>, ZddLoop(op, <<f, g>>, got))
<1> DEFINE a == <<f, g>>
           x == TopVar(f)
           y == TopVar(g)
<1>1. \A k \in One(f, g) : LoopPromise(op, k) = LoopPromise(op, a)
  BY FilterArgs
<1>2. \A p, q, s : s \in LoopPromise(op, <<p, q>>) <=> s \in p /\ Kept(op, s, q)
  BY KeptMembers
<1>3. Level(f) \in Nat /\ Level(g) \in Nat /\ Level(g) > 0
  BY LevelFacts
<1>4. CASE Level(f) < Level(g)
  <2> DEFINE a1 == <<f, Lo(g)>>
  <2>1. \A h : ZddLoop(op, a, h) = Open(One(f, g), <<a1>>, h, h[1])
    BY <1>4
  <2>2. AsksOnly(op, a, One(f, g), <<a1>>)
    BY <2>1 DEF AsksOnly
  <2>3. y \in Vars /\ Level(g) = var2level[y] /\ Lo(g) = Off(g, y) /\ Lo(g) \in Families
    BY TopSides
  <2>4. y \notin Support(f)
    BY <1>4, <2>3, BelowFacts
  <2>5. \A s \in f : y \notin s
    BY <2>4 DEF Support
  <2>6. \A s : s \in LoopPromise(op, a) <=> s \in LoopPromise(op, a1)
    BY <1>2, <2>3, <2>5, KeptSplit
  <2>7. LoopPromise(op, a1) = LoopPromise(op, a)
    BY <2>6
  <2>8. a1 \in ArgsOf(op)
    BY <2>3, FilterArgs
  <2> HIDE DEF a1, a
  <2>9. QED
    BY <1>1, <2>1, <2>2, <2>7, <2>8, OpenOne DEF a
<1>5. ASSUME ~ (Level(f) < Level(g)) PROVE ~ Terminal(f)
  BY <1>3, <1>5, LevelFacts
<1>6. CASE Level(f) > Level(g)
  <2>1. ~ (Level(f) < Level(g)) /\ ~ Terminal(f)
    BY <1>3, <1>5, <1>6
  <2> DEFINE a1 == <<Lo(f), g>>
             a2 == <<Hi(f), g>>
  <2>2. \A h : ZddLoop(op, a, h) = Open(One(f, g), <<a1, a2>>, h, Node(x, h[1], h[2]))
    BY <1>6, <2>1
  <2>3. /\ x \in Vars /\ Level(f) = var2level[x] /\ Lo(f) \in Families /\ Hi(f) \in Families
        /\ Below(Lo(f), x) /\ Below(Hi(f), x)
        /\ \A s : s \in Lo(f) <=> s \in f /\ x \notin s
        /\ \A s : x \in s => (s \in f <=> s \ {x} \in Hi(f))
    BY <2>1, TopSides
  <2>4. Off(g, x) = g /\ On(g, x) = {}
    <3>1. Level(g) < var2level[x]
      BY <1>3, <1>6, <2>3
    <3>2. QED
      BY <2>3, <3>1, BelowFacts
  <2>5. \A s : (s \in LoopPromise(op, a) <=> (x \notin s /\ s \in LoopPromise(op, a1))
                                             \/ (x \in s /\ s \ {x} \in LoopPromise(op, a2)))
    <3>1. Off(g, x) \cup On(g, x) = g
      BY <2>4
    <3> HIDE DEF x
    <3>2. \A s : x \in s => (Kept(op, s, g) <=> Kept(op, s \ {x}, Off(g, x) \cup On(g, x)))
      BY <2>3, KeptSplit
    <3>3. \A s : x \in s => (Kept(op, s, g) <=> Kept(op, s \ {x}, g))
      BY <3>1, <3>2
    <3>4. QED
      BY <1>2, <2>3, <3>3
  <2>6. /\ a1 \in ArgsOf(op) /\ a2 \in ArgsOf(op)
        /\ LoopPromise(op, a1) \in Families /\ Below(LoopPromise(op, a1), x)
        /\ LoopPromise(op, a2) \in Families /\ Below(LoopPromise(op, a2), x)
    BY <2>3, FilterArgs
  <2> HIDE DEF a1, a2, a
  <2>7. QED
    BY <1>1, <2>2, <2>3, <2>5, <2>6, NodePass DEF a
<1>7. CASE Level(f) = Level(g)
  <2>1. ~ (Level(f) < Level(g)) /\ ~ (Level(f) > Level(g)) /\ ~ Terminal(f)
    BY <1>3, <1>5, <1>7
  <2> DEFINE a1 == <<Lo(f), Lo(g)>>
             a2 == <<Hi(f), Lo(g) \cup Hi(g)>>
  <2>2. \A h : ZddLoop(op, a, h) = Open(One(f, g), <<a1, a2>>, h, Node(x, h[1], h[2]))
    BY <1>7, <2>1
  <2>3. /\ x \in Vars /\ Lo(f) \in Families /\ Hi(f) \in Families
        /\ Below(Lo(f), x) /\ Below(Hi(f), x)
        /\ \A s : s \in Lo(f) <=> s \in f /\ x \notin s
        /\ \A s : x \in s => (s \in f <=> s \ {x} \in Hi(f))
    BY <2>1, TopSides
  <2>4. /\ Lo(g) \in Families /\ Hi(g) \in Families /\ Lo(g) \cup Hi(g) \in Families
        /\ Lo(g) = Off(g, x) /\ Hi(g) = On(g, x)
    <3>1. x = y
      BY <1>7, <2>1, HigherFacts
    <3>2. /\ Lo(g) \in Families /\ Hi(g) \in Families
          /\ Lo(g) = Off(g, y) /\ Hi(g) = On(g, y)
      BY TopSides
    <3>3. QED
      BY <3>1, <3>2, UnionBelow
  <2>5. \A s : (s \in LoopPromise(op, a) <=> (x \notin s /\ s \in LoopPromise(op, a1))
                                             \/ (x \in s /\ s \ {x} \in LoopPromise(op, a2)))
    <3> HIDE DEF x
    <3>1. /\ \A s : x \notin s => (Kept(op, s, g) <=> Kept(op, s, Off(g, x)))
          /\ \A s : x \in s => (Kept(op, s, g) <=> Kept(op, s \ {x}, Off(g, x) \cup On(g, x)))
      BY <2>3, KeptSplit
    <3>2. /\ \A s : x \notin s => (Kept(op, s, g) <=> Kept(op, s, Lo(g)))
          /\ \A s : x \in s => (Kept(op, s, g) <=> Kept(op, s \ {x}, Lo(g) \cup Hi(g)))
      BY <2>4, <3>1
    <3>3. QED
      BY <1>2, <2>3, <3>2
  <2>6. /\ a1 \in ArgsOf(op) /\ a2 \in ArgsOf(op)
        /\ LoopPromise(op, a1) \in Families /\ Below(LoopPromise(op, a1), x)
        /\ LoopPromise(op, a2) \in Families /\ Below(LoopPromise(op, a2), x)
    BY <2>3, <2>4, FilterArgs
  <2> HIDE DEF a1, a2, a
  <2>7. QED
    BY <1>1, <2>2, <2>3, <2>5, <2>6, NodePass DEF a
<1>8. QED
  BY <1>3, <1>4, <1>6, <1>7

\* The loop of bddpermit and bddremove_subsets past its terminal cases.
LEMMA SubsetPass ==
  ASSUME NEW op \in SubsetOps, NEW f \in Families, NEW g \in Families, ~ Terminal(f),
         NEW got, Sequence(got), Asked(op, <<f, g>>, got),
         \A h : Level(f) > Level(g) =>
                  ZddLoop(op, <<f, g>>, h) =
                    IF op = "bddpermit" THEN Open(One(f, g), <<<<Lo(f), g>>>>, h, h[1])
                    ELSE Open(One(f, g), <<<<Lo(f), g>>>>, h, Node(TopVar(f), h[1], Hi(f))),
         \A h : ~ (Level(f) > Level(g)) =>
                  ZddLoop(op, <<f, g>>, h) =
                    IF Level(f) < Level(g)
                    THEN Open(One(f, g), <<<<f, Lo(g) \cup Hi(g)>>>>, h, h[1])
                    ELSE Open(One(f, g), <<<<Lo(f), Lo(g) \cup Hi(g)>>, <<Hi(f), Hi(g)>>>>, h,
                              Node(TopVar(f), h[1], h[2]))
  PROVE  PassRight(op, <<f, g>>, ZddLoop(op, <<f, g>>, got))
<1> DEFINE a == <<f, g>>
           x == TopVar(f)
           y == TopVar(g)
<1>1. \A k \in One(f, g) : LoopPromise(op, k) = LoopPromise(op, a)
  BY FilterArgs
<1>2. \A p, q, s : s \in LoopPromise(op, <<p, q>>) <=> s \in p /\ Kept(op, s, q)
  BY KeptMembers
<1>3. Level(f) \in Nat /\ Level(g) \in Nat /\ Level(f) > 0
  BY LevelFacts
<1>4. /\ x \in Vars /\ Level(f) = var2level[x] /\ Lo(f) \in Families /\ Hi(f) \in Families
      /\ Below(Lo(f), x) /\ Below(Hi(f), x)
      /\ \A s : s \in Lo(f) <=> s \in f /\ x \notin s
      /\ \A s : x \in s => (s \in f <=> s \ {x} \in Hi(f))
  BY TopSides
<1>5. CASE Level(f) > Level(g)
  <2>1. Off(g, x) \cup On(g, x) = g /\ On(g, x) = {}
    <3>1. Level(g) < var2level[x]
      BY <1>3, <1>4, <1>5
    <3>2. Off(g, x) = g /\ On(g, x) = {}
      BY <1>4, <3>1, BelowFacts
    <3>3. QED
      BY <3>2
  <2> DEFINE a1 == <<Lo(f), g>>
  <2>2. /\ a1 \in ArgsOf(op)
        /\ LoopPromise(op, a1) \in Families /\ Below(LoopPromise(op, a1), x)
    BY <1>4, FilterArgs
  <2>3. \A s : Within(s, {}) <=> FALSE
    BY DEF Within
  <2>4. CASE op = "bddpermit"
    <3>1. \A h : ZddLoop(op, a, h) = Open(One(f, g), <<a1>>, h, h[1])
      BY <1>5, <2>4
    <3>2. AsksOnly(op, a, One(f, g), <<a1>>)
      BY <3>1 DEF AsksOnly
    <3>3. \A s : x \in s => ~ Kept(op, s, g)
      <4>1. \A s : ~ Kept(op, s, {})
        BY <2>3, <2>4 DEF Kept
      <4> HIDE DEF x
      <4>2. \A s : x \in s => (Kept(op, s, g) <=> Kept(op, s \ {x}, On(g, x)))
        BY <1>4, KeptSplit
      <4>3. QED
        BY <2>1, <4>1, <4>2
    <3>4. \A s : s \in LoopPromise(op, a) <=> s \in LoopPromise(op, a1)
      BY <1>2, <1>4, <3>3
    <3>5. LoopPromise(op, a1) = LoopPromise(op, a)
      BY <3>4
    <3> HIDE DEF a1, a
    <3>6. QED
      BY <1>1, <2>2, <3>1, <3>2, <3>5, OpenOne DEF a
  <2>5. CASE op = "bddremove_subsets"
    <3>1. \A h : ZddLoop(op, a, h) = Open(One(f, g), <<a1>>, h, Node(x, h[1], Hi(f)))
      BY <1>5, <2>5
    <3>2. AsksOnly(op, a, One(f, g), <<a1>>)
      BY <3>1 DEF AsksOnly
    <3>3. \A s : x \in s => Kept(op, s, g)
      <4>1. \A s : Kept(op, s, {})
        BY <2>3, <2>5 DEF Kept
      <4> HIDE DEF x
      <4>2. \A s : x \in s => (Kept(op, s, g) <=> Kept(op, s \ {x}, On(g, x)))
        BY <1>4, KeptSplit
      <4>3. QED
        BY <2>1, <4>1, <4>2
    <3>4. \A s : (s \in LoopPromise(op, a) <=> (x \notin s /\ s \in LoopPromise(op, a1))
                                               \/ (x \in s /\ s \ {x} \in Hi(f)))
      BY <1>2, <1>4, <3>3
    <3>5. Node(x, LoopPromise(op, a1), Hi(f)) = LoopPromise(op, a)
      <4> HIDE DEF a1, a, x
      <4>1. QED
        BY <1>4, <2>2, <3>4, NodeIs
    <3> HIDE DEF a1, a
    <3>6. got[1] = LoopPromise(op, a1) => Node(x, got[1], Hi(f)) = LoopPromise(op, a)
      BY <3>5
    <3>7. QED
      BY <1>1, <2>2, <3>1, <3>2, <3>6, OpenOne DEF a
  <2>6. QED
    BY <2>4, <2>5 DEF SubsetOps
<1>6. ASSUME ~ (Level(f) > Level(g)) PROVE ~ Terminal(g)
  BY <1>3, <1>6, LevelFacts
<1>7. CASE Level(f) < Level(g)
  <2>1. ~ (Level(f) > Level(g)) /\ ~ Terminal(g)
    BY <1>3, <1>6, <1>7
  <2> DEFINE a1 == <<f, Lo(g) \cup Hi(g)>>
  <2>2. \A h : ZddLoop(op, a, h) = Open(One(f, g), <<a1>>, h, h[1])
    BY <1>7, <2>1
  <2>3. AsksOnly(op, a, One(f, g), <<a1>>)
    BY <2>2 DEF AsksOnly
  <2>4. /\ y \in Vars /\ Level(g) = var2level[y]
        /\ Lo(g) = Off(g, y) /\ Hi(g) = On(g, y)
        /\ Lo(g) \in Families /\ Hi(g) \in Families /\ Lo(g) \cup Hi(g) \in Families
    <3>1. /\ y \in Vars /\ Level(g) = var2level[y]
          /\ Lo(g) = Off(g, y) /\ Hi(g) = On(g, y)
          /\ Lo(g) \in Families /\ Hi(g) \in Families
      BY <2>1, TopSides
    <3>2. QED
      BY <3>1, UnionBelow
  <2>5. y \notin Support(f)
    BY <1>7, <2>4, BelowFacts
  <2>6. \A s \in f : y \notin s
    BY <2>5 DEF Support
  <2>7. \A s : s \in LoopPromise(op, a) <=> s \in LoopPromise(op, a1)
    <3> HIDE DEF y
    <3>1. \A s : y \notin s => (Kept(op, s, g) <=> Kept(op, s, Off(g, y) \cup On(g, y)))
      BY <2>4, KeptSplit
    <3>2. \A s \in f : Kept(op, s, g) <=> Kept(op, s, Lo(g) \cup Hi(g))
      BY <2>4, <2>6, <3>1
    <3>3. QED
      BY <1>2, <3>2
  <2>8. LoopPromise(op, a1) = LoopPromise(op, a)
    BY <2>7
  <2>9. a1 \in ArgsOf(op)
    BY <2>4, FilterArgs
  <2> HIDE DEF a1, a
  <2>10. QED
    BY <1>1, <2>2, <2>3, <2>8, <2>9, OpenOne DEF a
<1>8. CASE Level(f) = Level(g)
  <2>1. ~ (Level(f) < Level(g)) /\ ~ (Level(f) > Level(g)) /\ ~ Terminal(g)
    BY <1>3, <1>6, <1>8
  <2> DEFINE a1 == <<Lo(f), Lo(g) \cup Hi(g)>>
             a2 == <<Hi(f), Hi(g)>>
  <2>2. \A h : ZddLoop(op, a, h) = Open(One(f, g), <<a1, a2>>, h, Node(x, h[1], h[2]))
    BY <1>8, <2>1
  <2>3. /\ Lo(g) \in Families /\ Hi(g) \in Families /\ Lo(g) \cup Hi(g) \in Families
        /\ Lo(g) = Off(g, x) /\ Hi(g) = On(g, x)
    <3>1. x = y
      BY <1>8, <2>1, HigherFacts
    <3>2. /\ Lo(g) \in Families /\ Hi(g) \in Families
          /\ Lo(g) = Off(g, y) /\ Hi(g) = On(g, y)
      BY <2>1, TopSides
    <3>3. QED
      BY <3>1, <3>2, UnionBelow
  <2>4. \A s : (s \in LoopPromise(op, a) <=> (x \notin s /\ s \in LoopPromise(op, a1))
                                             \/ (x \in s /\ s \ {x} \in LoopPromise(op, a2)))
    <3> HIDE DEF x
    <3>1. /\ \A s : x \notin s => (Kept(op, s, g) <=> Kept(op, s, Lo(g) \cup Hi(g)))
          /\ \A s : x \in s => (Kept(op, s, g) <=> Kept(op, s \ {x}, Hi(g)))
      <4>1. /\ \A s : x \notin s => (Kept(op, s, g) <=> Kept(op, s, Off(g, x) \cup On(g, x)))
            /\ \A s : x \in s => (Kept(op, s, g) <=> Kept(op, s \ {x}, On(g, x)))
        BY <1>4, KeptSplit
      <4>2. QED
        BY <2>3, <4>1
    <3>2. QED
      BY <1>2, <1>4, <3>1
  <2>5. /\ a1 \in ArgsOf(op) /\ a2 \in ArgsOf(op)
        /\ LoopPromise(op, a1) \in Families /\ Below(LoopPromise(op, a1), x)
        /\ LoopPromise(op, a2) \in Families /\ Below(LoopPromise(op, a2), x)
    BY <1>4, <2>3, FilterArgs
  <2> HIDE DEF a1, a2, a
  <2>6. QED
    BY <1>1, <1>4, <2>2, <2>4, <2>5, NodePass DEF a
<1>9. QED
  BY <1>3, <1>5, <1>7, <1>8

\* bddrestrict: one pass is right.
LEMMA RestrictRight ==
  ASSUME NEW a \in ArgsOf("bddrestrict"), NEW got, Sequence(got), Asked("bddrestrict", a, got)
  PROVE  PassRight("bddrestrict", a, ZddLoop("bddrestrict", a, got))
<1> DEFINE op == "bddrestrict"
<1>1. PICK f \in Families, g \in Families : a = <<f, g>>
  BY Arguments DEF TwoFamilies
<1>2. \A h : ZddLoop(op, a, h) = bddrestrict_iter(<<f, g>>, h)
  BY <1>1, Bodies
<1>3. op \in SupersetOps \cup SubsetOps /\ Asked(op, a, got)
  BY DEF SupersetOps, SubsetOps
<1>4. \A s : s \in LoopPromise(op, a) <=> s \in f /\ Kept(op, s, g)
  BY <1>1, <1>3, KeptMembers
<1>5. \A s : Kept(op, s, g) <=> Includes(s, g)
  BY DEF Kept
<1>6. op \in SupersetOps /\ (op = "bddpermit" <=> FALSE)
  BY DEF SupersetOps
<1> SUFFICES PassRight(op, a, ZddLoop(op, a, got))
  OBVIOUS
<1> HIDE DEF op
<1>7. CASE Empty \in {f, g}
  <2>1. ZddLoop(op, a, got) = Answer(Empty)
    BY <1>2, <1>7 DEF bddrestrict_iter
  <2>2. \A s : s \in Empty <=> s \in LoopPromise(op, a)
    BY <1>4, <1>5, <1>7 DEF Empty, Includes
  <2>3. Empty = LoopPromise(op, a)
    BY <2>2
  <2>4. QED
    BY <2>1, <2>3, AnswerPass
<1>8. CASE Empty \notin {f, g} /\ (g = Single \/ f = g)
  <2>1. ZddLoop(op, a, got) = Answer(f)
    BY <1>2, <1>8 DEF bddrestrict_iter
  <2>2. \A s : s \in f <=> s \in LoopPromise(op, a)
    <3>1. \A s : {} \subseteq s /\ s \subseteq s
      OBVIOUS
    <3>2. {} \in Single
      BY DEF Single
    <3>3. \A s \in f : Includes(s, g)
      BY <1>8, <3>1, <3>2 DEF Includes
    <3>4. QED
      BY <1>4, <1>5, <3>3
  <2>3. f = LoopPromise(op, a)
    BY <2>2
  <2>4. QED
    BY <2>1, <2>3, AnswerPass
<1>9. CASE Empty \notin {f, g} /\ ~ (g = Single \/ f = g)
  <2>1. ~ Terminal(g)
    BY <1>9 DEF Terminal
  <2>2. \A h : ZddLoop(op, <<f, g>>, h) =
                  IF Level(f) < Level(g) THEN Open(One(f, g), <<<<f, Lo(g)>>>>, h, h[1])
                  ELSE Open(One(f, g), IF Level(f) > Level(g) THEN <<<<Lo(f), g>>, <<Hi(f), g>>>>
                                       ELSE <<<<Lo(f), Lo(g)>>, <<Hi(f), Lo(g) \cup Hi(g)>>>>,
                            h, Node(TopVar(f), h[1], h[2]))
    BY <1>1, <1>2, <1>9 DEF bddrestrict_iter
  <2>3. Asked(op, <<f, g>>, got)
    BY <1>1, <1>3
  <2>4. QED
    BY <1>1, <1>6, <2>1, <2>2, <2>3, SupersetPass
<1>10. QED
  BY <1>7, <1>8, <1>9

\* bddremove_supersets: one pass is right.
LEMMA RemoveSupersetsRight ==
  ASSUME NEW a \in ArgsOf("bddremove_supersets"), NEW got, Sequence(got),
         Asked("bddremove_supersets", a, got)
  PROVE  PassRight("bddremove_supersets", a, ZddLoop("bddremove_supersets", a, got))
<1> DEFINE op == "bddremove_supersets"
<1>1. PICK f \in Families, g \in Families : a = <<f, g>>
  BY Arguments DEF TwoFamilies
<1>2. \A h : ZddLoop(op, a, h) = bddremove_supersets_iter(<<f, g>>, h)
  BY <1>1, Bodies
<1>3. op \in SupersetOps \cup SubsetOps /\ Asked(op, a, got)
  BY DEF SupersetOps, SubsetOps
<1>4. \A s : s \in LoopPromise(op, a) <=> s \in f /\ Kept(op, s, g)
  BY <1>1, <1>3, KeptMembers
<1>5. \A s : Kept(op, s, g) <=> ~ Includes(s, g)
  BY DEF Kept
<1>6. op \in SupersetOps /\ (op = "bddpermit" <=> FALSE)
  BY DEF SupersetOps
<1> SUFFICES PassRight(op, a, ZddLoop(op, a, got))
  OBVIOUS
<1> HIDE DEF op
<1>7. CASE f = Empty \/ g = Single \/ f = g
  <2>1. ZddLoop(op, a, got) = Answer(Empty)
    BY <1>2, <1>7 DEF bddremove_supersets_iter
  <2>2. \A s : s \in Empty <=> s \in LoopPromise(op, a)
    <3>1. \A s : {} \subseteq s /\ s \subseteq s
      OBVIOUS
    <3>2. {} \in Single
      BY DEF Single
    <3>3. \A s \in f : Includes(s, g)
      BY <1>7, <3>1, <3>2 DEF Empty, Includes
    <3>4. QED
      BY <1>4, <1>5, <3>3 DEF Empty
  <2>3. Empty = LoopPromise(op, a)
    BY <2>2
  <2>4. QED
    BY <2>1, <2>3, AnswerPass
<1>8. CASE ~ (f = Empty \/ g = Single \/ f = g) /\ g = Empty
  <2>1. ZddLoop(op, a, got) = Answer(f)
    BY <1>2, <1>8 DEF bddremove_supersets_iter
  <2>2. \A s : s \in f <=> s \in LoopPromise(op, a)
    BY <1>4, <1>5, <1>8 DEF Empty, Includes
  <2>3. f = LoopPromise(op, a)
    BY <2>2
  <2>4. QED
    BY <2>1, <2>3, AnswerPass
<1>9. CASE ~ (f = Empty \/ g = Single \/ f = g) /\ g # Empty
  <2>1. ~ Terminal(g)
    BY <1>9 DEF Terminal
  <2>2. \A h : ZddLoop(op, <<f, g>>, h) =
                  IF Level(f) < Level(g) THEN Open(One(f, g), <<<<f, Lo(g)>>>>, h, h[1])
                  ELSE Open(One(f, g), IF Level(f) > Level(g) THEN <<<<Lo(f), g>>, <<Hi(f), g>>>>
                                       ELSE <<<<Lo(f), Lo(g)>>, <<Hi(f), Lo(g) \cup Hi(g)>>>>,
                            h, Node(TopVar(f), h[1], h[2]))
    BY <1>1, <1>2, <1>9 DEF bddremove_supersets_iter
  <2>3. Asked(op, <<f, g>>, got)
    BY <1>1, <1>3
  <2>4. QED
    BY <1>1, <1>6, <2>1, <2>2, <2>3, SupersetPass
<1>10. QED
  BY <1>7, <1>8, <1>9

\* bddpermit: one pass is right.
LEMMA PermitRight ==
  ASSUME NEW a \in ArgsOf("bddpermit"), NEW got, Sequence(got), Asked("bddpermit", a, got)
  PROVE  PassRight("bddpermit", a, ZddLoop("bddpermit", a, got))
<1> DEFINE op == "bddpermit"
<1>1. PICK f \in Families, g \in Families : a = <<f, g>>
  BY Arguments DEF TwoFamilies
<1>2. \A h : ZddLoop(op, a, h) = bddpermit_iter(<<f, g>>, h)
  BY <1>1, Bodies
<1>3. op \in SupersetOps \cup SubsetOps /\ Asked(op, a, got)
  BY DEF SupersetOps, SubsetOps
<1>4. \A s : s \in LoopPromise(op, a) <=> s \in f /\ Kept(op, s, g)
  BY <1>1, <1>3, KeptMembers
<1>5. \A s : Kept(op, s, g) <=> Within(s, g)
  BY DEF Kept
<1>6. op \in SubsetOps /\ (op = "bddpermit" <=> TRUE)
  BY DEF SubsetOps
<1> SUFFICES PassRight(op, a, ZddLoop(op, a, got))
  OBVIOUS
<1> HIDE DEF op
<1>7. CASE Empty \in {f, g}
  <2>1. ZddLoop(op, a, got) = Answer(Empty)
    BY <1>2, <1>7 DEF bddpermit_iter
  <2>2. \A s : s \in Empty <=> s \in LoopPromise(op, a)
    BY <1>4, <1>5, <1>7 DEF Empty, Within
  <2>3. Empty = LoopPromise(op, a)
    BY <2>2
  <2>4. QED
    BY <2>1, <2>3, AnswerPass
<1>8. CASE Empty \notin {f, g} /\ (f = Single \/ f = g)
  <2>1. ZddLoop(op, a, got) = Answer(f)
    BY <1>2, <1>8 DEF bddpermit_iter
  <2>2. \A s : s \in f <=> s \in LoopPromise(op, a)
    <3>1. \A s : {} \subseteq s /\ s \subseteq s
      OBVIOUS
    <3>2. \A s \in Single : s = {}
      BY DEF Single
    <3>3. \E t : t \in g
      BY <1>8 DEF Empty
    <3>4. \A s \in f : Within(s, g)
      BY <1>8, <3>1, <3>2, <3>3 DEF Within
    <3>5. QED
      BY <1>4, <1>5, <3>4 DEF Empty
  <2>3. f = LoopPromise(op, a)
    BY <2>2
  <2>4. QED
    BY <2>1, <2>3, AnswerPass
<1>9. CASE Empty \notin {f, g} /\ ~ (f = Single \/ f = g)
  <2>1. ~ Terminal(f)
    BY <1>9 DEF Terminal
  <2>2. \A h : Level(f) > Level(g) =>
                  ZddLoop(op, <<f, g>>, h) =
                    IF op = "bddpermit" THEN Open(One(f, g), <<<<Lo(f), g>>>>, h, h[1])
                    ELSE Open(One(f, g), <<<<Lo(f), g>>>>, h, Node(TopVar(f), h[1], Hi(f)))
    BY <1>1, <1>2, <1>6, <1>9 DEF bddpermit_iter
  <2>3. \A h : ~ (Level(f) > Level(g)) =>
                  ZddLoop(op, <<f, g>>, h) =
                    IF Level(f) < Level(g)
                    THEN Open(One(f, g), <<<<f, Lo(g) \cup Hi(g)>>>>, h, h[1])
                    ELSE Open(One(f, g), <<<<Lo(f), Lo(g) \cup Hi(g)>>, <<Hi(f), Hi(g)>>>>, h,
                              Node(TopVar(f), h[1], h[2]))
    BY <1>1, <1>2, <1>9 DEF bddpermit_iter
  <2>4. Asked(op, <<f, g>>, got)
    BY <1>1, <1>3
  <2>5. QED
    BY <1>1, <1>6, <2>1, <2>2, <2>3, <2>4, SubsetPass
<1>10. QED
  BY <1>7, <1>8, <1>9

\* bddremove_subsets: one pass is right.
LEMMA RemoveSubsetsRight ==
  ASSUME NEW a \in ArgsOf("bddremove_subsets"), NEW got, Sequence(got),
         Asked("bddremove_subsets", a, got)
  PROVE  PassRight("bddremove_subsets", a, ZddLoop("bddremove_subsets", a, got))
<1> DEFINE op == "bddremove_subsets"
<1>1. PICK f \in Families, g \in Families : a = <<f, g>>
  BY Arguments DEF TwoFamilies
<1>2. \A h : ZddLoop(op, a, h) = bddremove_subsets_iter(<<f, g>>, h)
  BY <1>1, Bodies
<1>3. op \in SupersetOps \cup SubsetOps /\ Asked(op, a, got)
  BY DEF SupersetOps, SubsetOps
<1>4. \A s : s \in LoopPromise(op, a) <=> s \in f /\ Kept(op, s, g)
  BY <1>1, <1>3, KeptMembers
<1>5. \A s : Kept(op, s, g) <=> ~ Within(s, g)
  BY DEF Kept
<1>6. op \in SubsetOps /\ (op = "bddpermit" <=> FALSE)
  BY DEF SubsetOps
<1> SUFFICES PassRight(op, a, ZddLoop(op, a, got))
  OBVIOUS
<1> HIDE DEF op
<1>7. CASE f = Empty
  <2>1. ZddLoop(op, a, got) = Answer(Empty)
    BY <1>2, <1>7 DEF bddremove_subsets_iter
  <2>2. \A s : s \in Empty <=> s \in LoopPromise(op, a)
    BY <1>4, <1>5, <1>7 DEF Empty
  <2>3. Empty = LoopPromise(op, a)
    BY <2>2
  <2>4. QED
    BY <2>1, <2>3, AnswerPass
<1>8. CASE f # Empty /\ g # Empty /\ (f = Single \/ f = g)
  <2>1. ZddLoop(op, a, got) = Answer(Empty)
    BY <1>2, <1>8 DEF bddremove_subsets_iter
  <2>2. \A s : s \in Empty <=> s \in LoopPromise(op, a)
    <3>1. \A s : {} \subseteq s /\ s \subseteq s
      OBVIOUS
    <3>2. \A s \in Single : s = {}
      BY DEF Single
    <3>3. \E t : t \in g
      BY <1>8 DEF Empty
    <3>4. \A s \in f : Within(s, g)
      BY <1>8, <3>1, <3>2, <3>3 DEF Within
    <3>5. QED
      BY <1>4, <1>5, <3>4 DEF Empty
  <2>3. Empty = LoopPromise(op, a)
    BY <2>2
  <2>4. QED
    BY <2>1, <2>3, AnswerPass
<1>9. CASE f # Empty /\ g = Empty
  <2>1. ZddLoop(op, a, got) = Answer(f)
    BY <1>2, <1>9 DEF bddremove_subsets_iter
  <2>2. \A s : s \in f <=> s \in LoopPromise(op, a)
    BY <1>4, <1>5, <1>9 DEF Empty, Within
  <2>3. f = LoopPromise(op, a)
    BY <2>2
  <2>4. QED
    BY <2>1, <2>3, AnswerPass
<1>10. CASE f # Empty /\ g # Empty /\ ~ (f = Single \/ f = g)
  <2>1. ~ Terminal(f)
    BY <1>10 DEF Terminal
  <2>2. \A h : Level(f) > Level(g) =>
                  ZddLoop(op, <<f, g>>, h) =
                    IF op = "bddpermit" THEN Open(One(f, g), <<<<Lo(f), g>>>>, h, h[1])
                    ELSE Open(One(f, g), <<<<Lo(f), g>>>>, h, Node(TopVar(f), h[1], Hi(f)))
    BY <1>1, <1>2, <1>6, <1>10 DEF bddremove_subsets_iter
  <2>3. \A h : ~ (Level(f) > Level(g)) =>
                  ZddLoop(op, <<f, g>>, h) =
                    IF Level(f) < Level(g)
                    THEN Open(One(f, g), <<<<f, Lo(g) \cup Hi(g)>>>>, h, h[1])
                    ELSE Open(One(f, g), <<<<Lo(f), Lo(g) \cup Hi(g)>>, <<Hi(f), Hi(g)>>>>, h,
                              Node(TopVar(f), h[1], h[2]))
    BY <1>1, <1>2, <1>10 DEF bddremove_subsets_iter
  <2>4. Asked(op, <<f, g>>, got)
    BY <1>1, <1>3
  <2>5. QED
    BY <1>1, <1>6, <2>1, <2>2, <2>3, <2>4, SubsetPass
<1>11. QED
  BY <1>7, <1>8, <1>9, <1>10

\* bddclosure: one pass is right.
LEMMA ClosureRight ==
  ASSUME NEW a \in ArgsOf("bddclosure"), NEW got, Sequence(got), Asked("bddclosure", a, got)
  PROVE  PassRight("bddclosure", a, ZddLoop("bddclosure", a, got))
<1> DEFINE op == "bddclosure"
<1>1. PICK f \in Families : a = <<f>>
  BY Arguments
<1>2. \A h : ZddLoop(op, a, h) = bddclosure_iter(<<f>>, h)
  BY <1>1, Bodies
<1>3. /\ \A p : LoopPromise(op, <<p>>) = UNION {SUBSET s : s \in p}
      /\ \A p \in Families : <<p>> \in ArgsOf(op)
      /\ Asked(op, a, got)
  BY Promises, Arguments
<1>4. \A p, s : s \in LoopPromise(op, <<p>>) <=> Within(s, p)
  <2>1. ASSUME NEW p, NEW s PROVE s \in UNION {SUBSET t : t \in p} <=> Within(s, p)
    BY DEF Within
  <2>2. QED
    BY <1>3, <2>1
<1>5. \A k \in {a} : LoopPromise(op, k) = LoopPromise(op, a)
  OBVIOUS
<1> SUFFICES PassRight(op, a, ZddLoop(op, a, got))
  OBVIOUS
<1> HIDE DEF op
<1>6. CASE Terminal(f)
  <2>1. ZddLoop(op, a, got) = Answer(f)
    BY <1>2, <1>6 DEF bddclosure_iter
  <2>2. ASSUME NEW s PROVE s \in f <=> Within(s, f)
    BY <1>6 DEF Terminal, Empty, Single, Within
  <2>3. \A s : s \in f <=> s \in LoopPromise(op, a)
    BY <1>1, <1>4, <2>2
  <2>4. f = LoopPromise(op, a)
    BY <2>3
  <2>5. QED
    BY <2>1, <2>4, AnswerPass
<1>7. CASE ~ Terminal(f)
  <2> DEFINE x == TopVar(f)
             a1 == <<Lo(f)>>
             a2 == <<Hi(f)>>
             lo == LoopPromise(op, a1)
             hi == LoopPromise(op, a2)
  <2>1. \A h : ZddLoop(op, a, h) = Open({a}, <<a1, a2>>, h, Node(x, h[1] \cup h[2], h[2]))
    BY <1>1, <1>2, <1>7 DEF bddclosure_iter
  <2>2. AsksOnly(op, a, {a}, <<a1, a2>>)
    BY <2>1 DEF AsksOnly
  <2>3. /\ x \in Vars /\ Lo(f) \in Families /\ Hi(f) \in Families
        /\ Below(Lo(f), x) /\ Below(Hi(f), x)
        /\ Lo(f) = Off(f, x) /\ Hi(f) = On(f, x)
    BY <1>7, TopSides
  <2>4. a1 \in ArgsOf(op) /\ a2 \in ArgsOf(op)
    BY <1>3, <2>3
  <2>5. ASSUME NEW p \in Families
        PROVE  /\ LoopPromise(op, <<p>>) \in Families
               /\ \A v : Below(p, v) => Below(LoopPromise(op, <<p>>), v)
    <3>1. PICK r : r = LoopPromise(op, <<p>>)
      OBVIOUS
    <3>2. \A s \in r : s \subseteq Support(p) \cup Support(p)
      <4>1. \A t \in p : t \subseteq Support(p)
        BY SupportFacts
      <4>2. \A s \in r : Within(s, p)
        BY <1>4, <3>1
      <4>3. QED
        BY <4>1, <4>2 DEF Within
    <3>3. QED
      BY <3>1, <3>2, Inside
  <2>6. /\ lo \in Families /\ Below(lo, x) /\ hi \in Families /\ Below(hi, x)
        /\ lo \cup hi \in Families /\ Below(lo \cup hi, x)
    <3>1. lo \in Families /\ Below(lo, x) /\ hi \in Families /\ Below(hi, x)
      BY <2>3, <2>5
    <3> HIDE DEF lo, hi
    <3>2. QED
      BY <3>1, UnionBelow
  <2>7. ASSUME NEW s
        PROVE  s \in LoopPromise(op, a) <=> (x \notin s /\ s \in lo \cup hi)
                                             \/ (x \in s /\ s \ {x} \in hi)
    <3> HIDE DEF x
    <3>1. /\ x \notin s => (Within(s, f) <=> Within(s, Off(f, x) \cup On(f, x)))
          /\ x \in s => (Within(s, f) <=> Within(s \ {x}, On(f, x)))
      BY <2>3, WithinSplit
    <3>2. Within(s, Lo(f) \cup Hi(f)) <=> Within(s, Lo(f)) \/ Within(s, Hi(f))
      BY DEF Within
    <3>3. QED
      BY <1>1, <1>4, <2>3, <3>1, <3>2
  <2>8. Node(x, lo \cup hi, hi) = LoopPromise(op, a)
    <3> HIDE DEF lo, hi, x
    <3>1. PICK both : both = lo \cup hi
      OBVIOUS
    <3>2. \A s : (s \in LoopPromise(op, a) <=> (x \notin s /\ s \in both)
                                               \/ (x \in s /\ s \ {x} \in hi))
      BY <2>7, <3>1
    <3>3. QED
      BY <2>3, <2>6, <3>1, <3>2, NodeIs
  <2> HIDE DEF a1, a2
  <2>9. QED
    BY <1>3, <1>5, <2>1, <2>2, <2>4, <2>8, OpenTwo
<1>8. QED
  BY <1>6, <1>7

-----------------------------------------------------------------------------
\* The loop.

\* One pass of every one of the 17 loops is right.
LEMMA BodyRight ==
  ASSUME NEW op \in ZddLoopOps, NEW a \in ArgsOf(op), NEW S, NEW got \in Seq(S),
         Asked(op, a, got)
  PROVE  PassRight(op, a, ZddLoop(op, a, got))
<1>1. Sequence(got)
  BY DEF Sequence
<1>2. CASE op = "bddoffset"
  BY <1>1, <1>2, OffsetRight
<1>3. CASE op = "bddonset"
  BY <1>1, <1>3, OnsetRight
<1>4. CASE op = "bddonset0"
  BY <1>1, <1>4, Onset0Right
<1>5. CASE op = "bddchange"
  BY <1>1, <1>5, ChangeRight
<1>6. CASE op = "bddissubset"
  BY <1>1, <1>6, SubsetRight
<1>7. CASE op = "bddisdisjoint"
  BY <1>1, <1>7, DisjointRight
<1>8. CASE op = "bdddiv"
  BY <1>1, <1>8, DivRight
<1>9. CASE op = "bddjoin"
  BY <1>1, <1>9, JoinRight
<1>10. CASE op = "bddproduct"
  BY <1>1, <1>10, ProductRight
<1>11. CASE op = "bddmeet"
  BY <1>1, <1>11, MeetRight
<1>12. CASE op = "bdddelta"
  BY <1>1, <1>12, DeltaRight
<1>13. CASE op = "bdddisjoin"
  BY <1>1, <1>13, DisjoinRight
<1>14. CASE op = "bddrestrict"
  BY <1>1, <1>14, RestrictRight
<1>15. CASE op = "bddpermit"
  BY <1>1, <1>15, PermitRight
<1>16. CASE op = "bddremove_supersets"
  BY <1>1, <1>16, RemoveSupersetsRight
<1>17. CASE op = "bddremove_subsets"
  BY <1>1, <1>17, RemoveSubsetsRight
<1>18. CASE op = "bddclosure"
  BY <1>1, <1>18, ClosureRight
<1>19. QED
  BY <1>2, <1>3, <1>4, <1>5, <1>6, <1>7, <1>8, <1>9, <1>10,
     <1>11, <1>12, <1>13, <1>14, <1>15, <1>16, <1>17, <1>18 DEF ZddLoopOps, OneVariable, TwoFamilies

\* A frame that gets the promise it asked for still has only right results.
LEMMA AskedMore ==
  ASSUME NEW op, NEW a, NEW S, NEW got \in Seq(S), Asked(op, a, got), NEW v,
         NEW does, does = ZddLoop(op, a, got), does.kind = "ask",
         v = LoopPromise(op, does.sub)
  PROVE  /\ \E T : Append(got, v) \in Seq(T)
         /\ Asked(op, a, Append(got, v))
<1> DEFINE more == Append(got, v)
           T == S \cup {v}
<1>1. /\ more \in Seq(T) /\ Len(more) = Len(got) + 1 /\ Len(got) \in Nat
      /\ more[Len(got) + 1] = v /\ \A i \in 1..Len(got) : more[i] = got[i]
  <2>1. got \in Seq(T) /\ v \in T
    BY SMT
  <2>2. QED
    BY <2>1, SMT
<1>2. \A j \in 1..Len(got) : SubSeq(more, 1, j - 1) = SubSeq(got, 1, j - 1)
  BY <1>1, SMT
<1>3. SubSeq(more, 1, Len(got)) = got
  BY <1>1, SMT
<1>4. ASSUME NEW j \in 1..Len(more)
      PROVE  \E d \in {ZddLoop(op, a, SubSeq(more, 1, j - 1))} :
               d.kind = "ask" /\ more[j] = LoopPromise(op, d.sub)
  <2>1. CASE j = Len(got) + 1
    <3>1. j - 1 = Len(got)
      BY <1>1, <2>1
    <3>2. SubSeq(more, 1, j - 1) = got
      BY <1>3, <3>1
    <3>3. more[j] = v
      BY <1>1, <2>1
    <3>4. QED
      BY <3>2, <3>3
  <2>2. CASE j \in 1..Len(got)
    <3>1. PICK d \in {ZddLoop(op, a, SubSeq(got, 1, j - 1))} :
            d.kind = "ask" /\ got[j] = LoopPromise(op, d.sub)
      BY <2>2 DEF Asked
    <3>2. more[j] = got[j] /\ SubSeq(more, 1, j - 1) = SubSeq(got, 1, j - 1)
      BY <1>1, <1>2, <2>2
    <3>3. QED
      BY <3>1, <3>2
  <2>3. j = Len(got) + 1 \/ j \in 1..Len(got)
    BY <1>1
  <2>4. QED
    BY <2>1, <2>2, <2>3
<1>5. Asked(op, a, more)
  BY <1>4 DEF Asked
<1>6. QED
  BY <1>1, <1>5

-----------------------------------------------------------------------------
\* What is popped goes to the frame below, which asked for it.
LEMMA GotMore ==
  ASSUME NEW fr, fr = [op |-> fr.op, args |-> fr.args, got |-> fr.got], NEW v
  PROVE  [fr EXCEPT !.got = Append(@, v)] =
           [op |-> fr.op, args |-> fr.args, got |-> Append(fr.got, v)]
<1>1. PICK o, r, h : fr = [op |-> o, args |-> r, got |-> h]
  OBVIOUS
<1>2. fr.op = o /\ fr.args = r /\ fr.got = h
  BY <1>1
<1>3. PICK w : w = Append(fr.got, v)
  OBVIOUS
<1>4. [[op |-> o, args |-> r, got |-> h] EXCEPT !.got = w] =
        [op |-> o, args |-> r, got |-> w]
  OBVIOUS
<1>5. [fr EXCEPT !.got = w] = [op |-> o, args |-> r, got |-> w]
  BY <1>1, <1>4
<1>6. QED
  BY <1>2, <1>3, <1>5

\* A sequence with elements is not the empty one.
LEMMA NotEmpty == ASSUME NEW S, NEW t \in Seq(S), Len(t) > 0 PROVE t # <<>>
<1>1. Len(<<>>) = 0 /\ ~ (0 > 0)
  OBVIOUS
<1>2. QED
  BY <1>1

\* The stack s after its top was popped with v.
Popped(s, v) ==
  IF Len(s) = 1 THEN <<>>
  ELSE Append(Front(Front(s)), [s[Len(s) - 1] EXCEPT !.got = Append(@, v)])

\* The stack that is left after a pop with the promise is right.
LEMMA PopKeeps ==
  ASSUME NEW c, NEW s, StackFor(c, s), s # <<>>, NEW n, n = Len(s), NEW fr,
         fr = s[n], NEW v, v = LoopPromise(fr.op, fr.args),
         NEW t, t = Popped(s, v)
  PROVE  /\ StackFor(c, t)
         /\ t = <<>> => v = LoopPromise(c.op, c.args)
<1>1. PICK S : s \in Seq(S)
  BY DEF StackFor
<1>2. n \in Nat /\ n > 0 /\ \A i \in 1..n : s[i] \in S
  BY <1>1, SMT
<1>a. n \in Nat /\ n > 0
  BY <1>2
<1>b. \A i \in 1..n :
        /\ IsFrame(s[i], c.op)
        /\ Asked(s[i].op, s[i].args, s[i].got)
        /\ i = 1 => s[i].args = c.args
        /\ i > 1 => Links(s[i - 1], s[i])
  BY DEF StackFor
<1>3. CASE n = 1
  <2>1. t = <<>>
    BY <1>3 DEF Popped
  <2>2. fr.op = c.op /\ fr.args = c.args
    BY <1>a, <1>b, <1>3 DEF IsFrame
  <2>3. t \in Seq({}) /\ Len(t) = 0
    BY <2>1
  <2>4. \A i \in 1..Len(t) : FALSE
    BY <2>3
  <2>5. StackFor(c, t)
    BY <2>3, <2>4 DEF StackFor
  <2>6. QED
    BY <2>2, <2>5
<1>4. CASE n # 1
  <2> DEFINE low == s[n - 1]
             new == [low EXCEPT !.got = Append(@, v)]
             T == S \cup {new}
  <2>1. n - 1 \in 1..n /\ n - 2 \in Nat /\ n \in 1..n
    BY <1>a, <1>4
  <2>2. /\ Front(s) \in Seq(S) /\ Len(Front(s)) = n - 1
        /\ \A i \in 1..(n - 1) : Front(s)[i] = s[i]
    BY <1>1, <1>a, <2>1, SMT DEF Front
  <2>4. /\ Front(Front(s)) \in Seq(S) /\ Len(Front(Front(s))) = n - 2
        /\ \A i \in 1..(n - 2) : Front(Front(s))[i] = s[i]
    <3>1. /\ Front(Front(s)) \in Seq(S) /\ Len(Front(Front(s))) = n - 2
          /\ \A i \in 1..(n - 2) : Front(Front(s))[i] = Front(s)[i]
      BY <2>1, <2>2, SMT DEF Front
    <3>2. QED
      BY <2>1, <2>2, <3>1
  <2>5. t = Append(Front(Front(s)), new)
    BY <1>4 DEF Popped
  <2>6. Front(Front(s)) \in Seq(T) /\ new \in T /\ Len(Front(Front(s))) = n - 2
    BY <2>1, <2>4, SMT
  <2> HIDE DEF new, T
  <2>7. /\ t \in Seq(T) /\ Len(t) = n - 1 /\ t[n - 1] = new
        /\ \A i \in 1..(n - 2) : t[i] = s[i]
    BY <2>1, <2>4, <2>5, <2>6, SMT
  <2>8. /\ IsFrame(low, c.op) /\ Asked(low.op, low.args, low.got)
        /\ n - 1 = 1 => low.args = c.args
        /\ n - 1 > 1 => Links(s[n - 2], low)
    <3>1. (n - 1) - 1 = n - 2
      BY <2>1
    <3>2. QED
      BY <1>b, <2>1, <3>1
  <2>9. Links(low, fr) /\ IsFrame(fr, c.op)
    <3>1. n > 1
      BY <1>a, <1>4
    <3>2. QED
      BY <1>b, <2>1, <3>1
  <2> HIDE DEF low
  <2>10. PICK does : /\ does = ZddLoop(low.op, low.args, low.got)
                     /\ does.kind = "ask" /\ fr.args = does.sub
    BY <2>9 DEF Links
  <2>11. PICK G : low.got \in Seq(G)
    BY <2>8 DEF IsFrame
  <2>12. v = LoopPromise(low.op, does.sub)
    BY <2>8, <2>9, <2>10 DEF IsFrame
  <2>13. /\ \E U : Append(low.got, v) \in Seq(U)
         /\ Asked(low.op, low.args, Append(low.got, v))
    <3>1. Asked(low.op, low.args, low.got)
      BY <2>8
    <3>2. QED
      BY <2>10, <2>11, <2>12, <3>1, AskedMore
  <2>14. new = [op |-> low.op, args |-> low.args, got |-> Append(low.got, v)]
    BY <2>8, GotMore DEF new, IsFrame
  <2>15. IsFrame(new, c.op) /\ Asked(new.op, new.args, new.got)
    BY <2>8, <2>13, <2>14 DEF IsFrame
  <2>16. ASSUME NEW i \in 1..Len(t)
         PROVE  /\ IsFrame(t[i], c.op)
                /\ Asked(t[i].op, t[i].args, t[i].got)
                /\ i = 1 => t[i].args = c.args
                /\ i > 1 => Links(t[i - 1], t[i])
    <3>1. CASE i = n - 1
      <4>1. t[i] = new /\ new.args = low.args
        BY <2>7, <2>14, <3>1
      <4>2. ASSUME i > 1 PROVE Links(t[i - 1], t[i])
        <5>1. i - 1 \in 1..(n - 2)
          BY <2>1, <3>1, <4>2
        <5>2. t[i - 1] = s[n - 2]
          BY <2>7, <3>1, <5>1
        <5>3. Links(s[n - 2], low)
          BY <2>8, <3>1, <4>2
        <5>4. Links(s[n - 2], new)
          BY <4>1, <5>3 DEF Links
        <5>5. QED
          BY <4>1, <5>2, <5>4
      <4>3. QED
        BY <2>8, <2>15, <3>1, <4>1, <4>2
    <3>2. CASE i # n - 1
      <4>1. i \in 1..(n - 2) /\ i \in 1..n /\ i - 1 \in 1..(n - 2) \cup {0}
        BY <2>1, <2>7, <3>2
      <4>2. t[i] = s[i]
        BY <2>7, <4>1
      <4>3. ASSUME i > 1 PROVE t[i - 1] = s[i - 1]
        <5>1. i - 1 \in 1..(n - 2)
          BY <4>1, <4>3
        <5>2. QED
          BY <2>7, <5>1
      <4>4. QED
        BY <1>b, <4>1, <4>2, <4>3
    <3>3. QED
      BY <3>1, <3>2
  <2>17. StackFor(c, t)
    BY <2>7, <2>16 DEF StackFor
  <2>18. t # <<>>
    <3>1. Len(t) > 0
      BY <2>1, <2>7
    <3>2. QED
      BY <2>7, <3>1, NotEmpty
  <2>19. QED
    BY <2>17, <2>18
<1>5. QED
  BY <1>3, <1>4

\* A frame that is pushed works on what its maker asks for.
LEMMA PushKeeps ==
  ASSUME NEW c, NEW s, StackFor(c, s), s # <<>>, NEW n, n = Len(s), NEW fr,
         fr = s[n], NEW does, does = ZddLoop(fr.op, fr.args, fr.got),
         does.kind = "ask", does.sub \in ArgsOf(fr.op),
         NEW new, new = [op |-> fr.op, args |-> does.sub, got |-> <<>>]
  PROVE  StackFor(c, Append(s, new))
<1>1. PICK S : s \in Seq(S)
  BY DEF StackFor
<1> DEFINE T == S \cup {new}
           t == Append(s, new)
<1>2. n \in Nat /\ n > 0 /\ s \in Seq(T) /\ new \in T
  BY <1>1, SMT
<1> HIDE DEF T
<1>3. /\ t \in Seq(T) /\ Len(t) = n + 1 /\ t[n + 1] = new
      /\ \A i \in 1..n : t[i] = s[i]
  BY <1>2, SMT
<1> HIDE DEF t
<1>4. IsFrame(fr, c.op)
  BY <1>2 DEF StackFor
<1>5. /\ <<>> \in Seq({}) /\ \A i \in 1..Len(<<>>) : FALSE
  OBVIOUS
<1>6. IsFrame(new, c.op) /\ Asked(new.op, new.args, new.got)
  BY <1>4, <1>5 DEF IsFrame, Asked
<1>7. Links(fr, new)
  BY DEF Links
<1>8. ASSUME NEW i \in 1..Len(t)
      PROVE  /\ IsFrame(t[i], c.op)
             /\ Asked(t[i].op, t[i].args, t[i].got)
             /\ i = 1 => t[i].args = c.args
             /\ i > 1 => Links(t[i - 1], t[i])
  <2>1. CASE i = n + 1
    <3>1. t[i] = new /\ i # 1 /\ n \in 1..n /\ i - 1 = n
      BY <1>2, <1>3, <2>1
    <3>2. t[i - 1] = fr
      BY <1>3, <3>1
    <3>3. QED
      BY <1>6, <1>7, <3>1, <3>2
  <2>2. CASE i # n + 1
    <3>1. i \in 1..n /\ (i > 1 => i - 1 \in 1..n)
      BY <1>2, <1>3, <2>2
    <3>2. t[i] = s[i] /\ (i > 1 => t[i - 1] = s[i - 1])
      BY <1>3, <3>1
    <3>3. QED
      BY <3>1, <3>2 DEF StackFor
  <2>3. QED
    BY <2>1, <2>2
<1>9. StackFor(c, t)
  BY <1>3, <1>8 DEF StackFor
<1>10. QED
  BY <1>9 DEF t

\* The invariant holds at first,
LEMMA LoopInitially == Loop!FramesInit => LoopInv
BY DEF Loop!FramesInit, LoopInv, Loop!Idle

\* and every step keeps it: the call,
LEMMA CallKeeps == ASSUME LoopInv, CallLoop PROVE LoopInv'
<1>0. PICK op \in ZddLoopOps :
        \E a \in ArgsOf(op) : Loop!Begin([op |-> op, args |-> a])
  BY DEF CallLoop
<1>1. PICK a \in ArgsOf(op) : Loop!Begin([op |-> op, args |-> a])
  BY <1>0
<1>2. Loop!Idle /\ memo = Loop!NoMemo /\ memo' = memo
  BY <1>1 DEF Loop!Begin, LoopInv
<1> DEFINE fr == [op |-> op, args |-> a, got |-> <<>>]
<1>3. /\ call' = [op |-> op, args |-> a] /\ stack' = <<fr>>
  BY <1>1 DEF Loop!Begin, Loop!Push
<1>4. /\ <<>> \in Seq({}) /\ \A i \in 1..Len(<<>>) : FALSE
  OBVIOUS
<1>5. IsFrame(fr, op) /\ Asked(op, a, <<>>)
  BY <1>4 DEF IsFrame, Asked
<1>6. StackFor([op |-> op, args |-> a], <<fr>>)
  <2>1. <<fr>> \in Seq({fr}) /\ Len(<<fr>>) = 1 /\ <<fr>>[1] = fr
    OBVIOUS
  <2>2. \A i \in 1..1 : i = 1
    OBVIOUS
  <2> HIDE DEF fr
  <2>3. fr.op = op /\ fr.args = a /\ fr.got = <<>>
    BY DEF fr
  <2>4. PICK s : s = <<fr>>
    OBVIOUS
  <2>5. PICK c : c = [op |-> op, args |-> a]
    OBVIOUS
  <2>6. c.op = op /\ c.args = a /\ s \in Seq({fr}) /\ Len(s) = 1 /\ s[1] = fr
    BY <2>1, <2>4, <2>5
  <2>7. ASSUME NEW i \in 1..Len(s)
        PROVE  /\ IsFrame(s[i], c.op)
               /\ Asked(s[i].op, s[i].args, s[i].got)
               /\ i = 1 => s[i].args = c.args
               /\ ~ (i > 1)
    BY <1>5, <2>3, <2>6
  <2>8. StackFor(c, s)
    BY <2>6, <2>7 DEF StackFor
  <2>9. QED
    BY <2>4, <2>5, <2>8
<1>7. call' # Loop!NoCall /\ stack' # <<>>
  <2>1. op # "none"
    BY DEF ZddLoopOps, OneVariable, TwoFamilies
  <2>2. call'.op # Loop!NoCall.op
    BY <1>3, <2>1 DEF Loop!NoCall
  <2>3. stack' # <<>>
    BY <1>3
  <2>4. QED
    BY <2>2, <2>3
<1>8. DOMAIN memo = {}
  BY <1>2 DEF Loop!NoMemo
<1>9. EntriesRight'
  BY <1>2, <1>8 DEF EntriesRight
<1>10. QED
  BY <1>3, <1>6, <1>7, <1>9 DEF LoopInv, Loop!Idle

\* the return,
LEMMA ReturnKeeps == ASSUME LoopInv, Loop!Return PROVE LoopInv'
BY DEF Loop!Return, Loop!Finished, LoopInv, Loop!Idle

\* and a pass of the loop, which answers from the cache, keeps or asks.
LEMMA StepKeeps == ASSUME LoopInv, Loop!Step(ZddLoop) PROVE LoopInv'
<1> DEFINE n == Len(stack)
<1>1. stack # <<>> /\ ~ Loop!Idle /\ call' = call
  BY DEF Loop!Step, LoopInv
<1>2. /\ call.op \in ZddLoopOps /\ call.args \in ArgsOf(call.op)
      /\ StackFor(call, stack) /\ EntriesRight
  BY <1>1 DEF LoopInv
<1>3. PICK top, does :
        /\ top = Last(stack) /\ does = ZddLoop(top.op, top.args, top.got)
        /\ \/ /\ Loop!Known(top.op, top.args) # {}
              /\ Loop!Pop(memo[CHOOSE e \in Loop!Known(top.op, top.args) : TRUE])
              /\ memo' = memo
           \/ does.kind = "answer" /\ Loop!Pop(does.value) /\ memo' = memo
           \/ /\ does.kind = "keep" /\ Loop!Pop(does.value)
              /\ memo' = Loop!Entered([op |-> top.op, key |-> does.key], does.value)
           \/ /\ does.kind = "ask" /\ UNCHANGED <<result, memo>>
              /\ stack' = Append(stack, Loop!Push([op |-> top.op, args |-> does.sub]))
  <2>1. \E top \in {Last(stack)} :
          \E does \in {ZddLoop(top.op, top.args, top.got)} :
            \/ /\ Loop!Known(top.op, top.args) # {}
               /\ Loop!Pop(memo[CHOOSE e \in Loop!Known(top.op, top.args) : TRUE])
               /\ memo' = memo
            \/ does.kind = "answer" /\ Loop!Pop(does.value) /\ memo' = memo
            \/ /\ does.kind = "keep" /\ Loop!Pop(does.value)
               /\ memo' = Loop!Entered([op |-> top.op, key |-> does.key], does.value)
            \/ /\ does.kind = "ask" /\ UNCHANGED <<result, memo>>
               /\ stack' = Append(stack, Loop!Push([op |-> top.op, args |-> does.sub]))
    BY Zenon DEF Loop!Step, Loop!Pass, Loop!Last, Last
  <2>2. QED
    BY <2>1, Zenon
<1>4. top = stack[n]
  BY <1>3 DEF Last
<1>5. PICK S : stack \in Seq(S)
  BY <1>2 DEF StackFor
<1>6. n \in 1..Len(stack)
  BY <1>1, <1>5, SMT
<1> HIDE DEF n
<1>7. IsFrame(top, call.op) /\ Asked(top.op, top.args, top.got)
  BY <1>2, <1>4, <1>6 DEF StackFor
<1>8. PICK G : top.got \in Seq(G)
  BY <1>7 DEF IsFrame
<1>9. top.op = call.op /\ top.op \in ZddLoopOps /\ top.args \in ArgsOf(top.op)
  BY <1>2, <1>7 DEF IsFrame
<1>10. PassRight(top.op, top.args, does)
  BY <1>3, <1>7, <1>8, <1>9, BodyRight
<1>11. ASSUME NEW v, v = LoopPromise(top.op, top.args), Loop!Pop(v)
       PROVE  /\ StackFor(call, stack')
              /\ stack' = <<>> => result' = LoopPromise(call.op, call.args)
  <2>1. result' = v /\ stack' = Popped(stack, v)
    BY <1>11 DEF Loop!Pop, Loop!Front, Front, Popped
  <2>2. PICK c, s, t : c = call /\ s = stack /\ t = stack'
    OBVIOUS
  <2>3. /\ StackFor(c, s) /\ s # <<>> /\ n = Len(s) /\ top = s[n]
        /\ t = Popped(s, v)
    BY <1>1, <1>2, <1>4, <2>1, <2>2 DEF n
  <2>4. StackFor(c, t) /\ (t = <<>> => v = LoopPromise(c.op, c.args))
    BY <1>11, <2>3, PopKeeps
  <2>5. QED
    BY <2>1, <2>2, <2>4
<1>12. CASE /\ Loop!Known(top.op, top.args) # {}
            /\ Loop!Pop(memo[CHOOSE e \in Loop!Known(top.op, top.args) : TRUE])
            /\ memo' = memo
  <2>1. PICK e : /\ e = (CHOOSE k \in Loop!Known(top.op, top.args) : TRUE)
                 /\ e \in Loop!Known(top.op, top.args)
    BY <1>12
  <2>2. e \in DOMAIN memo /\ e.op = top.op /\ top.args \in e.key
    BY <2>1 DEF Loop!Known
  <2>3. memo[e] = LoopPromise(top.op, top.args)
    BY <1>2, <2>2 DEF EntriesRight
  <2>4. Loop!Pop(memo[e])
    BY <1>12, <2>1
  <2>5. EntriesRight'
    BY <1>2, <1>12 DEF EntriesRight
  <2>6. QED
    BY <1>1, <1>2, <1>11, <2>3, <2>4, <2>5 DEF LoopInv, Loop!Idle
<1>13. CASE does.kind = "answer" /\ Loop!Pop(does.value) /\ memo' = memo
  <2>1. does.value = LoopPromise(top.op, top.args)
    BY <1>10, <1>13 DEF PassRight
  <2>2. EntriesRight'
    BY <1>2, <1>13 DEF EntriesRight
  <2>3. QED
    BY <1>1, <1>2, <1>11, <1>13, <2>1, <2>2 DEF LoopInv, Loop!Idle
<1>14. CASE /\ does.kind = "keep" /\ Loop!Pop(does.value)
            /\ memo' = Loop!Entered([op |-> top.op, key |-> does.key], does.value)
  <2> DEFINE entry == [op |-> top.op, key |-> does.key]
  <2>1. /\ does.value = LoopPromise(top.op, top.args)
        /\ \A k \in does.key : does.value = LoopPromise(top.op, k)
    BY <1>10, <1>14 DEF PassRight
  <2>2. /\ DOMAIN memo' = {entry} \cup DOMAIN memo
        /\ \A e \in DOMAIN memo' :
             memo'[e] = IF e = entry THEN does.value ELSE memo[e]
    BY <1>14 DEF Loop!Entered
  <2>3. entry.op = top.op /\ entry.key = does.key
    OBVIOUS
  <2> HIDE DEF entry
  <2>4. EntriesRight'
    BY <1>2, <2>1, <2>2, <2>3 DEF EntriesRight
  <2>5. QED
    BY <1>1, <1>2, <1>11, <1>14, <2>1, <2>4 DEF LoopInv, Loop!Idle
<1>15. CASE /\ does.kind = "ask" /\ UNCHANGED <<result, memo>>
            /\ stack' = Append(stack, Loop!Push([op |-> top.op, args |-> does.sub]))
  <2>1. does.sub \in ArgsOf(top.op)
    BY <1>10, <1>15 DEF PassRight
  <2>2. Loop!Push([op |-> top.op, args |-> does.sub]) =
          [op |-> top.op, args |-> does.sub, got |-> <<>>]
    BY DEF Loop!Push
  <2>3. n = Len(stack)
    BY DEF n
  <2>4. StackFor(call, stack')
    BY <1>1, <1>2, <1>3, <1>4, <1>15, <2>1, <2>2, <2>3, PushKeeps
  <2>5. stack' # <<>>
    BY <1>5, <1>15, SMT
  <2>6. EntriesRight'
    BY <1>2, <1>15 DEF EntriesRight
  <2>7. QED
    BY <1>1, <1>2, <2>4, <2>5, <2>6 DEF LoopInv, Loop!Idle
<1>16. QED
  BY <1>3, <1>12, <1>13, <1>14, <1>15

(***************************************************************************)
(* In every call of an iterative ZDD loop each frame works on what the one *)
(* below it asked for and holds right results of those it asked for        *)
(* itself, and the cache never holds a wrong entry.                        *)
(***************************************************************************)
THEOREM LoopInvariance == LoopSpec => []LoopInv
<1>1. ASSUME LoopInv, [LoopNext]_loopVars PROVE LoopInv'
  <2>1. CASE CallLoop
    BY <1>1, <2>1, CallKeeps
  <2>2. CASE Loop!Step(ZddLoop)
    BY <1>1, <2>2, StepKeeps
  <2>3. CASE Loop!Return
    BY <1>1, <2>3, ReturnKeeps
  <2>4. CASE UNCHANGED loopVars
    BY <1>1, <2>4 DEF loopVars, LoopInv, Loop!Idle, EntriesRight
  <2>5. QED
    BY <1>1, <2>1, <2>2, <2>3, <2>4 DEF LoopNext
<1>2. QED
  BY LoopInitially, <1>1, PTL DEF LoopSpec

\* The invariant gives the property.
LEMMA InvGivesRight == LoopInv => LoopsRight
<1> SUFFICES ASSUME LoopInv, call.op \in ZddLoopOps PROVE LoopsRight
  BY DEF LoopsRight
<1>1. ~ Loop!Idle
  BY DEF Loop!Idle, Loop!NoCall, ZddLoopOps, OneVariable, TwoFamilies
<1>2. StackRight
  BY <1>1 DEF LoopInv, StackFor, StackRight, IsFrame, Links
<1>3. QED
  BY <1>1, <1>2 DEF LoopInv, LoopsRight

(***************************************************************************)
(* The iterative forms of the 17 operations end with what the operation    *)
(* promises, and leave only right entries in the cache, for any number of  *)
(* variables and any order of them.                                        *)
(***************************************************************************)
THEOREM LoopsAlwaysRight == LoopSpec => []LoopsRight
BY LoopInvariance, InvGivesRight, PTL
=============================================================================
