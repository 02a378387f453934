------------------------ MODULE BddIterativeProofs ------------------------
(***************************************************************************)
(* The iterative BDD operations keep their promises for every number of    *)
(* variables and every order of them.  As for the ZDD operations, a pass   *)
(* of a loop is right when what it answers or keeps is as promised and     *)
(* what it asks for is in range (PassRight); each of the 11 bodies is      *)
(* shown right for one pass, and then the loop over the explicit stack and *)
(* the cache, for any bodies that are right.                               *)
(***************************************************************************)
EXTENDS BddIterative, FiniteSetTheorems, TLAPS

(***************************************************************************)
(* The loop, for any body that is right for one pass (BodyRight).          *)
(***************************************************************************)
IsFrame(fr, op) ==
  /\ fr = [op |-> fr.op, args |-> fr.args, got |-> fr.got]
  /\ fr.op = op /\ fr.args \in BddArgs(op)
  /\ \E S : fr.got \in Seq(S)

Links(low, fr) ==
  \E does \in {BddLoop(low.op, low.args, low.got)} :
    does.kind = "ask" /\ fr.args = does.sub

\* The stack s of a call c.
StackFor(c, s) ==
  /\ \E S : s \in Seq(S)
  /\ \A i \in 1..Len(s) :
       /\ IsFrame(s[i], c.op)
       /\ BddAsked(s[i].op, s[i].args, s[i].got)
       /\ i = 1 => s[i].args = c.args
       /\ i > 1 => Links(s[i - 1], s[i])

LoopInv ==
  IF BddRun!Idle THEN stack = <<>> /\ memo = BddRun!NoMemo
  ELSE /\ call.op \in BddLoopOps /\ call.args \in BddArgs(call.op)
       /\ StackFor(call, stack)
       /\ BddEntriesRight
       /\ stack = <<>> => BddKept(call.op, call.args, result)

\* What a pass of the loop of op over a frame with arguments a does is right.
PassRight(op, a, does) ==
  /\ does.kind \in {"answer", "keep", "ask"}
  /\ does.kind # "ask" => BddKept(op, a, does.value)
  /\ does.kind = "keep" => \A k \in does.key : BddKept(op, k, does.value)
  /\ does.kind = "ask" => does.sub \in BddArgs(op)

-----------------------------------------------------------------------------
-----------------------------------------------------------------------------
(***************************************************************************)
(* One pass of a loop that asks for the results of subs, in order.         *)
(***************************************************************************)
Sequence(s) == \E S : s \in Seq(S)

AsksOnly(op, a, key, subs) ==
  \A h : Sequence(h) => \/ BddLoop(op, a, h).kind \in {"answer", "keep"}
                        \/ \E v : \/ BddLoop(op, a, h) = Open(key, subs, h, v)
                                  \/ BddLoop(op, a, h) = Relay(subs, h, v)

\* Open asks for the next of subs, and once all are got it keeps v.
LEMMA OpenIs ==
  ASSUME NEW key, NEW subs, NEW h, NEW v
  PROVE  /\ Len(h) < Len(subs) => /\ Open(key, subs, h, v).kind = "ask"
                                  /\ Open(key, subs, h, v).sub = subs[Len(h) + 1]
         /\ ~ (Len(h) < Len(subs)) => /\ Open(key, subs, h, v).kind = "keep"
                                      /\ Open(key, subs, h, v).key = key
                                      /\ Open(key, subs, h, v).value = v
BY DEF Open, Ask, Keep

\* Relay answers with v once all are got.
LEMMA RelayIs ==
  ASSUME NEW subs, NEW h, NEW v
  PROVE  /\ Len(h) < Len(subs) => /\ Relay(subs, h, v).kind = "ask"
                                  /\ Relay(subs, h, v).sub = subs[Len(h) + 1]
         /\ ~ (Len(h) < Len(subs)) => /\ Relay(subs, h, v).kind = "answer"
                                      /\ Relay(subs, h, v).value = v
BY DEF Relay, Ask, Answer

\* A loop that asks only for subs has got the results of the first of them.
LEMMA Prompts ==
  ASSUME NEW op, NEW a, NEW got, Sequence(got), BddAsked(op, a, got), NEW key, NEW subs,
         Len(subs) \in Nat, AsksOnly(op, a, key, subs)
  PROVE  /\ Len(got) \in Nat /\ Len(got) <= Len(subs)
         /\ \A j \in 1..Len(got) : BddKept(op, subs[j], got[j])
<1>1. PICK S : got \in Seq(S)
  BY DEF Sequence
<1>2. Len(got) \in Nat
  BY <1>1
<1>3. ASSUME NEW j \in 1..Len(got)
      PROVE  j <= Len(subs) /\ BddKept(op, subs[j], got[j])
  <2>1. PICK h : h = SubSeq(got, 1, j - 1)
    OBVIOUS
  <2>2. h \in Seq(S) /\ Len(h) = j - 1
    BY <1>1, <2>1, SMT
  <2>3. BddLoop(op, a, h).kind = "ask" /\ BddKept(op, BddLoop(op, a, h).sub, got[j])
    BY <1>3, <2>1 DEF BddAsked
  <2>4. PICK v : \/ BddLoop(op, a, h) = Open(key, subs, h, v)
                 \/ BddLoop(op, a, h) = Relay(subs, h, v)
    BY <2>2, <2>3 DEF AsksOnly, Sequence
  <2>5. Len(h) < Len(subs) /\ BddLoop(op, a, h).sub = subs[Len(h) + 1]
    BY <2>3, <2>4, OpenIs, RelayIs
  <2>6. (j - 1) + 1 = j /\ j <= Len(subs)
    BY <1>2, <2>2, <2>5
  <2>7. QED
    BY <2>2, <2>3, <2>5, <2>6
<1>4. Len(got) <= Len(subs)
  <2>1. CASE Len(got) = 0
    BY <2>1
  <2>2. CASE Len(got) # 0
    <3>1. Len(got) \in 1..Len(got)
      BY <1>2, <2>2
    <3>2. QED
      BY <1>3, <3>1
  <2>3. QED
    BY <2>1, <2>2
<1>5. QED
  BY <1>2, <1>3, <1>4

\* A loop that asks for subs and puts their results together right is right.
LEMMA OpenPass ==
  ASSUME NEW op, NEW a, NEW got, Sequence(got), BddAsked(op, a, got), NEW key, NEW subs,
         Len(subs) \in Nat, AsksOnly(op, a, key, subs),
         \A j \in 1..Len(subs) : subs[j] \in BddArgs(op),
         \A k \in key : \A r : BddKept(op, a, r) => BddKept(op, k, r),
         NEW v, BddLoop(op, a, got) = Open(key, subs, got, v),
         (Len(got) = Len(subs) /\ \A j \in 1..Len(subs) : BddKept(op, subs[j], got[j]))
           => BddKept(op, a, v)
  PROVE  PassRight(op, a, BddLoop(op, a, got))
<1>1. /\ Len(got) <= Len(subs) /\ Len(got) \in Nat
      /\ \A j \in 1..Len(got) : BddKept(op, subs[j], got[j])
  BY Prompts
<1>2. CASE Len(got) < Len(subs)
  <2>1. /\ BddLoop(op, a, got).kind = "ask"
        /\ BddLoop(op, a, got).sub = subs[Len(got) + 1]
    BY <1>2, OpenIs
  <2>2. Len(got) + 1 \in 1..Len(subs)
    BY <1>1, <1>2
  <2>3. BddLoop(op, a, got).sub \in BddArgs(op)
    BY <2>1, <2>2
  <2>4. QED
    BY <2>1, <2>3 DEF PassRight
<1>3. CASE Len(got) = Len(subs)
  <2>1. ~ (Len(got) < Len(subs))
    BY <1>1, <1>3
  <2>2. /\ BddLoop(op, a, got).kind = "keep"
        /\ BddLoop(op, a, got).key = key /\ BddLoop(op, a, got).value = v
    BY <2>1, OpenIs
  <2>3. BddKept(op, a, v)
    BY <1>1, <1>3
  <2>4. QED
    BY <2>2, <2>3 DEF PassRight
<1>4. QED
  BY <1>1, <1>2, <1>3

LEMMA NoneOrOne == ASSUME NEW n \in Nat, n <= 1 PROVE n = 0 \/ n = 1
OBVIOUS

\* A loop that hands one subproblem on and answers right with its result is right.
LEMMA RelayPass ==
  ASSUME NEW op, NEW a, NEW got, Sequence(got), BddAsked(op, a, got),
         NEW a1 \in BddArgs(op), AsksOnly(op, a, {}, <<a1>>),
         NEW v, BddLoop(op, a, got) = Relay(<<a1>>, got, v),
         (Len(got) = 1 /\ BddKept(op, a1, got[1])) => BddKept(op, a, v)
  PROVE  PassRight(op, a, BddLoop(op, a, got))
<1> DEFINE subs == <<a1>>
<1>1. Len(subs) = 1 /\ subs[1] = a1
  OBVIOUS
<1>2. AsksOnly(op, a, {}, subs) /\ BddLoop(op, a, got) = Relay(subs, got, v)
  OBVIOUS
<1> HIDE DEF subs
<1>3. /\ Len(got) <= 1 /\ Len(got) \in Nat
      /\ \A j \in 1..Len(got) : BddKept(op, subs[j], got[j])
  BY <1>1, <1>2, Prompts
<1>4. CASE Len(got) = 0
  <2>1. Len(got) < Len(subs) /\ Len(got) + 1 = 1
    BY <1>1, <1>4
  <2>2. BddLoop(op, a, got).kind = "ask" /\ BddLoop(op, a, got).sub = a1
    BY <1>1, <1>2, <2>1, RelayIs
  <2>3. QED
    BY <2>2 DEF PassRight
<1>5. CASE Len(got) = 1
  <2>1. ~ (Len(got) < Len(subs)) /\ 1 \in 1..Len(got)
    BY <1>1, <1>5
  <2>2. BddLoop(op, a, got).kind = "answer" /\ BddLoop(op, a, got).value = v
    BY <1>2, <2>1, RelayIs
  <2>3. BddKept(op, a1, got[1])
    BY <1>1, <1>3, <2>1
  <2>4. QED
    BY <1>5, <2>2, <2>3 DEF PassRight
<1>6. Len(got) = 0 \/ Len(got) = 1
  BY <1>3, NoneOrOne
<1>7. QED
  BY <1>4, <1>5, <1>6

\* The same for one subproblem,
LEMMA OpenOne ==
  ASSUME NEW op, NEW a, NEW got, Sequence(got), BddAsked(op, a, got), NEW key,
         NEW a1 \in BddArgs(op), AsksOnly(op, a, key, <<a1>>),
         \A k \in key : \A r : BddKept(op, a, r) => BddKept(op, k, r),
         NEW v, BddLoop(op, a, got) = Open(key, <<a1>>, got, v),
         (Len(got) = 1 /\ BddKept(op, a1, got[1])) => BddKept(op, a, v)
  PROVE  PassRight(op, a, BddLoop(op, a, got))
<1> DEFINE subs == <<a1>>
<1>1. Len(subs) \in Nat /\ Len(subs) = 1 /\ subs[1] = a1
  OBVIOUS
<1>2. AsksOnly(op, a, key, subs) /\ BddLoop(op, a, got) = Open(key, subs, got, v)
  OBVIOUS
<1> HIDE DEF subs
<1>3. \A j \in 1..Len(subs) : subs[j] \in BddArgs(op)
  BY <1>1
<1>4. (Len(got) = Len(subs) /\ \A j \in 1..Len(subs) : BddKept(op, subs[j], got[j]))
        => BddKept(op, a, v)
  BY <1>1
<1>5. QED
  BY <1>1, <1>2, <1>3, <1>4, OpenPass

\* for two,
LEMMA OpenTwo ==
  ASSUME NEW op, NEW a, NEW got, Sequence(got), BddAsked(op, a, got), NEW key,
         NEW a1 \in BddArgs(op), NEW a2 \in BddArgs(op), AsksOnly(op, a, key, <<a1, a2>>),
         \A k \in key : \A r : BddKept(op, a, r) => BddKept(op, k, r),
         NEW v, BddLoop(op, a, got) = Open(key, <<a1, a2>>, got, v),
         (Len(got) = 2 /\ BddKept(op, a1, got[1]) /\ BddKept(op, a2, got[2]))
           => BddKept(op, a, v)
  PROVE  PassRight(op, a, BddLoop(op, a, got))
<1> DEFINE subs == <<a1, a2>>
<1>1. Len(subs) \in Nat /\ Len(subs) = 2 /\ subs[1] = a1 /\ subs[2] = a2
  OBVIOUS
<1>2. AsksOnly(op, a, key, subs) /\ BddLoop(op, a, got) = Open(key, subs, got, v)
  OBVIOUS
<1> HIDE DEF subs
<1>3. \A j \in 1..Len(subs) : subs[j] \in BddArgs(op)
  <2>1. \A j \in 1..2 : j = 1 \/ j = 2
    OBVIOUS
  <2>2. QED
    BY <1>1, <2>1
<1>4. (Len(got) = Len(subs) /\ \A j \in 1..Len(subs) : BddKept(op, subs[j], got[j]))
        => BddKept(op, a, v)
  <2>1. 1 \in 1..2 /\ 2 \in 1..2
    OBVIOUS
  <2>2. QED
    BY <1>1, <2>1
<1>5. QED
  BY <1>1, <1>2, <1>3, <1>4, OpenPass

\* for three
LEMMA OpenThree ==
  ASSUME NEW op, NEW a, NEW got, Sequence(got), BddAsked(op, a, got), NEW key,
         NEW a1 \in BddArgs(op), NEW a2 \in BddArgs(op), NEW a3 \in BddArgs(op),
         AsksOnly(op, a, key, <<a1, a2, a3>>),
         \A k \in key : \A r : BddKept(op, a, r) => BddKept(op, k, r),
         NEW v, BddLoop(op, a, got) = Open(key, <<a1, a2, a3>>, got, v),
         (Len(got) = 3 /\ BddKept(op, a1, got[1]) /\ BddKept(op, a2, got[2])
           /\ BddKept(op, a3, got[3])) => BddKept(op, a, v)
  PROVE  PassRight(op, a, BddLoop(op, a, got))
<1> DEFINE subs == <<a1, a2, a3>>
<1>1. /\ Len(subs) \in Nat /\ Len(subs) = 3
      /\ subs[1] = a1 /\ subs[2] = a2 /\ subs[3] = a3
  OBVIOUS
<1>2. AsksOnly(op, a, key, subs) /\ BddLoop(op, a, got) = Open(key, subs, got, v)
  OBVIOUS
<1> HIDE DEF subs
<1>3. \A j \in 1..Len(subs) : subs[j] \in BddArgs(op)
  <2>1. \A j \in 1..3 : j = 1 \/ j = 2 \/ j = 3
    OBVIOUS
  <2>2. QED
    BY <1>1, <2>1
<1>4. (Len(got) = Len(subs) /\ \A j \in 1..Len(subs) : BddKept(op, subs[j], got[j]))
        => BddKept(op, a, v)
  <2>1. 1 \in 1..3 /\ 2 \in 1..3 /\ 3 \in 1..3
    OBVIOUS
  <2>2. QED
    BY <1>1, <2>1
<1>5. QED
  BY <1>1, <1>2, <1>3, <1>4, OpenPass

\* and for four.
LEMMA OpenFour ==
  ASSUME NEW op, NEW a, NEW got, Sequence(got), BddAsked(op, a, got), NEW key,
         NEW a1 \in BddArgs(op), NEW a2 \in BddArgs(op), NEW a3 \in BddArgs(op),
         NEW a4 \in BddArgs(op), AsksOnly(op, a, key, <<a1, a2, a3, a4>>),
         \A k \in key : \A r : BddKept(op, a, r) => BddKept(op, k, r),
         NEW v, BddLoop(op, a, got) = Open(key, <<a1, a2, a3, a4>>, got, v),
         (Len(got) = 4 /\ BddKept(op, a1, got[1]) /\ BddKept(op, a2, got[2])
           /\ BddKept(op, a3, got[3]) /\ BddKept(op, a4, got[4]))
           => BddKept(op, a, v)
  PROVE  PassRight(op, a, BddLoop(op, a, got))
<1> DEFINE subs == <<a1, a2, a3, a4>>
<1>1. /\ Len(subs) \in Nat /\ Len(subs) = 4
      /\ subs[1] = a1 /\ subs[2] = a2 /\ subs[3] = a3 /\ subs[4] = a4
  OBVIOUS
<1>2. AsksOnly(op, a, key, subs) /\ BddLoop(op, a, got) = Open(key, subs, got, v)
  OBVIOUS
<1> HIDE DEF subs
<1>3. \A j \in 1..Len(subs) : subs[j] \in BddArgs(op)
  <2>1. \A j \in 1..4 : j = 1 \/ j = 2 \/ j = 3 \/ j = 4
    OBVIOUS
  <2>2. QED
    BY <1>1, <2>1
<1>4. (Len(got) = Len(subs) /\ \A j \in 1..Len(subs) : BddKept(op, subs[j], got[j]))
        => BddKept(op, a, v)
  <2>1. 1 \in 1..4 /\ 2 \in 1..4 /\ 3 \in 1..4 /\ 4 \in 1..4
    OBVIOUS
  <2>2. QED
    BY <1>1, <2>1
<1>5. QED
  BY <1>1, <1>2, <1>3, <1>4, OpenPass

\* A pass that answers the promise without the cache is right,
LEMMA AnswerPass ==
  ASSUME NEW op, NEW a, NEW does, NEW v, does = Answer(v), BddKept(op, a, v)
  PROVE  PassRight(op, a, does)
BY DEF Answer, PassRight

\* and so is one that keeps it, when the key answers only for equal promises.
LEMMA KeepPass ==
  ASSUME NEW op, NEW a, NEW does, NEW key, NEW v, does = Keep(key, v),
         BddKept(op, a, v),
         \A k \in key : \A r : BddKept(op, a, r) => BddKept(op, k, r)
  PROVE  PassRight(op, a, does)
BY DEF Keep, PassRight

\* When the second of two subproblems is asked for, the first result was not
\* the one that ends the loop.
LEMMA FirstDidNotDecide ==
  ASSUME NEW op, NEW a, NEW got, Sequence(got), BddAsked(op, a, got), Len(got) = 2,
         BddLoop(op, a, <<FALSE>>).kind # "ask"
  PROVE  got[1] # FALSE
<1> SUFFICES ASSUME got[1] = FALSE PROVE FALSE
  OBVIOUS
<1>1. PICK S : got \in Seq(S)
  BY DEF Sequence
<1>2. 2 \in 1..Len(got) /\ 2 - 1 = 1
  OBVIOUS
<1>3. BddLoop(op, a, SubSeq(got, 1, 1)).kind = "ask"
  BY <1>2 DEF BddAsked
<1>4. SubSeq(got, 1, 1) = <<FALSE>>
  <2>1. SubSeq(got, 1, 1) \in Seq(S) /\ Len(SubSeq(got, 1, 1)) = 1
    BY <1>1, SMT
  <2>2. SubSeq(got, 1, 1)[1] = got[1]
    BY <1>1, SMT
  <2>3. \A h \in Seq(S) : Len(h) = 1 => h = <<h[1]>>
    OBVIOUS
  <2>4. SubSeq(got, 1, 1) = <<got[1]>>
    BY <2>1, <2>2, <2>3
  <2>5. QED
    BY <2>4
<1>5. QED
  BY <1>3, <1>4

-----------------------------------------------------------------------------
(***************************************************************************)
(* Boolean functions, the variables they depend on and their cofactors.    *)
(***************************************************************************)
Booleans == SUBSET True

\* Induction over the naturals.
LEMMA Induct ==
  ASSUME NEW S, 0 \in S, \A n \in Nat : n \in S => n + 1 \in S
  PROVE  Nat \subseteq S
<1> SUFFICES ASSUME NEW n \in Nat, n \notin S PROVE FALSE
  OBVIOUS
<1> DEFINE U == {u \in 0..n : u \in S}
           s == [u \in U |-> u + 1]
<1>1. 0 \in U
  OBVIOUS
<1>2. \A u \in U : u + 1 \in U \ {0}
  OBVIOUS
<1>3. IsFiniteSet(U) /\ IsFiniteSet(U \ {0})
  <2>1. IsFiniteSet(0..n)
    BY FS_Interval
  <2>2. U \subseteq 0..n /\ U \ {0} \subseteq 0..n
    OBVIOUS
  <2>3. QED
    BY <2>1, <2>2, FS_Subset
<1>4. Cardinality(U) <= Cardinality(U \ {0})
  <2>1. s \in Injection(U, U \ {0})
    BY <1>2 DEF Injection, IsInjective
  <2> HIDE DEF U, s
  <2>2. QED
    BY <1>3, <2>1, FS_Injection
<1>5. Cardinality(U \ {0}) = Cardinality(U) - 1
  BY <1>1, <1>3, FS_RemoveElement
<1>6. Cardinality(U) \in Nat
  BY <1>3, FS_CardinalityType
<1>7. QED
  BY <1>4, <1>5, <1>6

\* A set of numbers up to n has a greatest one.
LEMMA Greatest ==
  ASSUME NEW n \in Nat, NEW T \in SUBSET (0..n), T # {}
  PROVE  \E x \in T : \A y \in T : y <= x
<1> DEFINE S == {m \in Nat : \A U \in SUBSET (0..m) : U # {} => \E x \in U : \A y \in U : y <= x}
<1>1. 0 \in S
  <2>1. 0..0 = {0}
    OBVIOUS
  <2>2. ASSUME NEW U \in SUBSET {0}, U # {} PROVE \E x \in U : \A y \in U : y <= x
    <3>1. \A y \in U : y = 0
      OBVIOUS
    <3>2. PICK x \in U : x = 0
      BY <2>2, <3>1
    <3>3. QED
      BY <3>1, <3>2, SMT
  <2>3. QED
    BY <2>1, <2>2
<1>2. ASSUME NEW m \in Nat, m \in S PROVE m + 1 \in S
  <2> SUFFICES ASSUME NEW U \in SUBSET (0..(m + 1)), U # {}
               PROVE  \E x \in U : \A y \in U : y <= x
    OBVIOUS
  <2>1. CASE m + 1 \in U
    BY <2>1
  <2>2. CASE m + 1 \notin U
    <3>1. U \in SUBSET (0..m)
      BY <2>2
    <3>2. QED
      BY <1>2, <3>1
  <2>3. QED
    BY <2>1, <2>2
<1> HIDE DEF S
<1>3. n \in S
  BY <1>1, <1>2, Induct
<1>4. QED
  BY <1>3 DEF S

\* var2level numbers the variables, each with its own level.
LEMMA VarsFacts ==
  /\ \E n \in Nat : Vars = 1..n
  /\ \A v \in Vars : /\ LevelOf(v) = var2level[v]
                     /\ var2level[v] \in Nat /\ var2level[v] > 0 /\ v \in Nat
  /\ \A v, w \in Vars : var2level[v] = var2level[w] => v = w
<1>1. Cardinality(Vars) \in Nat
  BY FamilyAssumption, FS_CardinalityType
<1>2. \A v \in Vars : var2level[v] \in Vars /\ LevelOf(v) = var2level[v]
  BY FamilyAssumption DEF LevelOf, Vars
<1>3. QED
  BY <1>1, <1>2, FamilyAssumption

\* A variable that f does not depend on makes no difference to it.
LEMMA Ignored ==
  ASSUME NEW f \in Booleans, NEW v \in Vars, v \notin Depends(f), NEW s \in True
  PROVE  /\ s \cup {v} \in f <=> s \in f
         /\ s \ {v} \in f <=> s \in f
<1>1. \A r \in f : Flip(r, v) \in f
  BY DEF Depends
<1>2. CASE v \in s
  <2>1. s \cup {v} = s /\ Flip(s, v) = s \ {v} /\ Flip(s \ {v}, v) = s
    BY <1>2 DEF Flip
  <2>2. QED
    BY <1>1, <2>1
<1>3. CASE v \notin s
  <2>1. s \ {v} = s /\ Flip(s, v) = s \cup {v} /\ Flip(s \cup {v}, v) = s
    BY <1>3 DEF Flip
  <2>2. QED
    BY <1>1, <2>1
<1>4. QED
  BY <1>2, <1>3

LEMMA NotDepends ==
  ASSUME NEW f \in Booleans, NEW v \in Vars,
         \A s \in True : v \notin s => (s \in f <=> s \cup {v} \in f)
  PROVE  v \notin Depends(f)
<1> SUFFICES ASSUME NEW s \in f PROVE Flip(s, v) \in f
  BY DEF Depends
<1>1. s \in True
  BY DEF Booleans
<1>2. CASE v \in s
  <2>1. s \ {v} \in True /\ v \notin s \ {v} /\ (s \ {v}) \cup {v} = s
    BY <1>1, <1>2 DEF True
  <2>2. s \ {v} \in f
    BY <2>1
  <2>3. QED
    BY <1>2, <2>2 DEF Flip
<1>3. CASE v \notin s
  BY <1>1, <1>3 DEF Flip
<1>4. QED
  BY <1>2, <1>3

\* A function that depends on no variable is constant.
LEMMA ConstantFacts ==
  ASSUME NEW f \in Booleans
  PROVE  Constant(f) <=> Depends(f) = {}
<1>1. ASSUME Constant(f) PROVE Depends(f) = {}
  <2>1. CASE f = {}
    BY <2>1 DEF Depends
  <2>2. CASE f = True
    <3>1. \A s \in True, v \in Vars : Flip(s, v) \in True
      BY DEF Flip, True
    <3>2. QED
      BY <2>2, <3>1 DEF Depends
  <2>3. QED
    BY <1>1, <2>1, <2>2 DEF Constant, False
<1>2. ASSUME Depends(f) = {} PROVE Constant(f)
  <2> DEFINE S == {k \in Nat : \A s \in True : s \ (1..k) \in f <=> s \in f}
  <2>1. 0 \in S
    <3>1. \A s : s \ (1..0) = s
      OBVIOUS
    <3>2. QED
      BY <3>1
  <2>2. ASSUME NEW k \in Nat, k \in S PROVE k + 1 \in S
    <3> SUFFICES ASSUME NEW s \in True PROVE s \ (1..(k + 1)) \in f <=> s \in f
      OBVIOUS
    <3>1. s \ (1..(k + 1)) = (s \ (1..k)) \ {k + 1}
      <4>1. 1..(k + 1) = (1..k) \cup {k + 1}
        OBVIOUS
      <4>2. QED
        BY <4>1
    <3>2. s \ (1..k) \in True /\ (s \ (1..k) \in f <=> s \in f)
      BY <2>2 DEF True
    <3>3. CASE k + 1 \in Vars
      BY <1>2, <3>1, <3>2, <3>3, Ignored
    <3>4. CASE k + 1 \notin Vars
      <4>1. (s \ (1..k)) \ {k + 1} = s \ (1..k)
        BY <3>4 DEF True
      <4>2. QED
        BY <3>1, <3>2, <4>1
    <3>5. QED
      BY <3>3, <3>4
  <2> HIDE DEF S
  <2>3. Nat \subseteq S
    BY <2>1, <2>2, Induct
  <2>4. PICK n \in Nat : Vars = 1..n
    BY VarsFacts
  <2>5. \A s \in True : s \ (1..n) = {}
    BY <2>4 DEF True
  <2>6. \A s \in True : {} \in f <=> s \in f
    BY <2>3, <2>5 DEF S
  <2>7. QED
    BY <2>6 DEF Constant, False, Booleans
<1>3. QED
  BY <1>1, <1>2

\* The level of a function is that of its top variable, 0 for a constant.
LEMMA LevelFacts ==
  ASSUME NEW f \in Booleans
  PROVE  /\ LevelIn(f) \in Nat
         /\ \A w \in Depends(f) : w \in Vars /\ var2level[w] <= LevelIn(f)
         /\ Constant(f) => LevelIn(f) = 0
         /\ ~ Constant(f) => /\ Top(f) \in Depends(f) /\ Top(f) \in Vars
                             /\ LevelIn(f) = var2level[Top(f)] /\ LevelIn(f) > 0
<1> DEFINE on == {LevelOf(v) : v \in Depends(f)}
<1>1. Depends(f) \subseteq Vars
  BY DEF Depends
<1>2. CASE Constant(f)
  <2>1. Depends(f) = {} /\ on = {}
    BY <1>2, ConstantFacts
  <2>2. LevelIn(f) = 0
    BY <2>1 DEF LevelIn
  <2>3. QED
    BY <1>2, <2>1, <2>2
<1>3. CASE ~ Constant(f)
  <2>1. PICK n \in Nat : Vars = 1..n
    BY VarsFacts
  <2>2. on # {} /\ on \in SUBSET (0..n)
    <3>1. \A v \in Vars : var2level[v] \in Vars
      BY FamilyAssumption
    <3>2. QED
      BY <1>1, <1>3, <2>1, <3>1, ConstantFacts, VarsFacts
  <2>3. \E x \in on : \A y \in on : y <= x
    BY <2>2, Greatest
  <2>4. LevelIn(f) \in on /\ \A y \in on : y <= LevelIn(f)
    BY <2>2, <2>3 DEF LevelIn
  <2>5. PICK x \in Depends(f) : LevelIn(f) = var2level[x]
    BY <1>1, <2>4, VarsFacts
  <2>6. x \in Vars /\ LevelIn(f) \in DOMAIN var2level
    BY <1>1, <2>5, FamilyAssumption DEF Vars
  <2>7. Top(f) = x
    <3>1. VarOf(LevelIn(f)) = CHOOSE v \in DOMAIN var2level : var2level[v] = LevelIn(f)
      BY <2>6 DEF VarOf
    <3>2. \A v \in DOMAIN var2level : var2level[v] = LevelIn(f) => v = x
      BY <2>5, <2>6, VarsFacts DEF Vars
    <3>3. QED
      BY <2>5, <2>6, <3>1, <3>2 DEF Top, Vars
  <2>8. \A w \in Depends(f) : var2level[w] <= LevelIn(f)
    BY <1>1, <2>4, VarsFacts
  <2>9. QED
    BY <1>1, <1>3, <2>5, <2>6, <2>7, <2>8, VarsFacts
<1>4. QED
  BY <1>2, <1>3


\* A cofactor by v, point by point; it ignores v.
LEMMA AtFacts ==
  ASSUME NEW f \in Booleans, NEW v \in Vars
  PROVE  /\ At(f, v, 0) \in Booleans /\ At(f, v, 1) \in Booleans
         /\ \A s \in True : /\ s \in At(f, v, 0) <=> s \ {v} \in f
                            /\ s \in At(f, v, 1) <=> s \cup {v} \in f
                            /\ s \ {v} \in True /\ s \cup {v} \in True
         /\ \A s \in True : s \in f <=> IF v \in s THEN s \in At(f, v, 1)
                                                   ELSE s \in At(f, v, 0)
<1>1. \A s \in True : s \ {v} \in True /\ s \cup {v} \in True
  BY DEF True
<1>2. /\ At(f, v, 0) = {s \in True : s \ {v} \in f}
      /\ At(f, v, 1) = {s \in True : s \cup {v} \in f}
  BY DEF At
<1>3. \A s \in True : /\ v \in s => s \cup {v} = s
                      /\ v \notin s => s \ {v} = s
  OBVIOUS
<1>4. At(f, v, 0) \in Booleans /\ At(f, v, 1) \in Booleans
  BY <1>2 DEF Booleans
<1>5. \A s \in True : /\ s \in At(f, v, 0) <=> s \ {v} \in f
                      /\ s \in At(f, v, 1) <=> s \cup {v} \in f
  BY <1>2
<1>6. \A s \in True : s \in f <=> IF v \in s THEN s \in At(f, v, 1)
                                                   ELSE s \in At(f, v, 0)
  <2> SUFFICES ASSUME NEW s \in True
               PROVE  /\ v \in s => (s \in f <=> s \in At(f, v, 1))
                      /\ v \notin s => (s \in f <=> s \in At(f, v, 0))
    OBVIOUS
  <2>1. s \in At(f, v, 0) <=> s \ {v} \in f
    BY <1>5
  <2>2. s \in At(f, v, 1) <=> s \cup {v} \in f
    BY <1>5
  <2>3. (v \in s => s \cup {v} = s) /\ (v \notin s => s \ {v} = s)
    BY <1>3
  <2>4. QED
    BY <2>1, <2>2, <2>3
<1>7. QED
  BY <1>1, <1>4, <1>5, <1>6

\* A cofactor depends on what the function does, without v.
LEMMA AtDepends ==
  ASSUME NEW f \in Booleans, NEW v \in Vars, NEW b \in {0, 1}
  PROVE  /\ Depends(At(f, v, b)) \subseteq Depends(f) \ {v}
         /\ v \notin Depends(f) => At(f, v, b) = f
<1> DEFINE g == At(f, v, b)
<1>1. g \in Booleans
  BY AtFacts
<1>2. \A s \in True : /\ b = 0 => (s \in g <=> s \ {v} \in f)
                      /\ b = 1 => (s \in g <=> s \cup {v} \in f)
                      /\ s \ {v} \in True /\ s \cup {v} \in True
  BY AtFacts
<1> HIDE DEF g
<1>3. v \notin Depends(g)
  <2>1. ASSUME NEW s \in True, v \notin s PROVE s \in g <=> s \cup {v} \in g
    <3>1. (s \cup {v}) \ {v} = s /\ s \ {v} = s /\ (s \cup {v}) \cup {v} = s \cup {v}
      BY <2>1
    <3>2. s \cup {v} \in True
      BY <1>2
    <3>3. CASE b = 0
      BY <1>2, <3>1, <3>2, <3>3
    <3>4. CASE b = 1
      BY <1>2, <3>1, <3>2, <3>4
    <3>5. QED
      BY <3>3, <3>4
  <2>2. QED
    BY <1>1, <2>1, NotDepends
<1>4. ASSUME NEW w \in Vars, w # v, w \notin Depends(f) PROVE w \notin Depends(g)
  <2>1. ASSUME NEW s \in True, w \notin s PROVE s \in g <=> s \cup {w} \in g
    <3>1. /\ (s \cup {w}) \ {v} = (s \ {v}) \cup {w}
          /\ (s \cup {w}) \cup {v} = (s \cup {v}) \cup {w}
      BY <1>4
    <3>2. s \cup {w} \in True /\ s \ {v} \in True /\ s \cup {v} \in True
      BY <1>2 DEF True
    <3>3. \A r \in True : r \cup {w} \in f <=> r \in f
      BY <1>4, Ignored
    <3>4. CASE b = 0
      <4>1. s \in g <=> s \ {v} \in f
        BY <1>2, <3>4
      <4>2. s \cup {w} \in g <=> (s \ {v}) \cup {w} \in f
        BY <1>2, <3>1, <3>2, <3>4
      <4>3. (s \ {v}) \cup {w} \in f <=> s \ {v} \in f
        BY <3>2, <3>3
      <4>4. QED
        BY <4>1, <4>2, <4>3
    <3>5. CASE b = 1
      <4>1. s \in g <=> s \cup {v} \in f
        BY <1>2, <3>5
      <4>2. s \cup {w} \in g <=> (s \cup {v}) \cup {w} \in f
        BY <1>2, <3>1, <3>2, <3>5
      <4>3. (s \cup {v}) \cup {w} \in f <=> s \cup {v} \in f
        BY <3>2, <3>3
      <4>4. QED
        BY <4>1, <4>2, <4>3
    <3>6. QED
      BY <3>4, <3>5
  <2>2. QED
    BY <1>1, <1>4, <2>1, NotDepends
<1>5. Depends(g) \subseteq Vars
  BY DEF Depends
<1>6. ASSUME v \notin Depends(f) PROVE g = f
  <2>1. \A s \in True : s \in g <=> s \in f
    <3>1. \A s \in True : (s \cup {v} \in f <=> s \in f) /\ (s \ {v} \in f <=> s \in f)
      BY <1>6, Ignored
    <3>2. QED
      BY <1>2, <3>1
  <2>2. QED
    BY <1>1, <2>1 DEF Booleans
<1>7. QED
  BY <1>3, <1>4, <1>5, <1>6 DEF g

\* What a function depends on, its cofactors by v do, or it is v.
LEMMA DependsOnSides ==
  ASSUME NEW f \in Booleans, NEW v \in Vars
  PROVE  Depends(f) \subseteq {v} \cup Depends(At(f, v, 0)) \cup Depends(At(f, v, 1))
<1> SUFFICES ASSUME NEW w \in Vars, w # v, w \notin Depends(At(f, v, 0)),
                    w \notin Depends(At(f, v, 1))
             PROVE  w \notin Depends(f)
  BY DEF Depends
<1>1. ASSUME NEW s \in True, w \notin s PROVE s \in f <=> s \cup {w} \in f
  <2>1. s \cup {w} \in True /\ (v \in s <=> v \in s \cup {w})
    BY DEF True
  <2>2. /\ s \cup {w} \in At(f, v, 0) <=> s \in At(f, v, 0)
        /\ s \cup {w} \in At(f, v, 1) <=> s \in At(f, v, 1)
    <3>1. At(f, v, 0) \in Booleans /\ At(f, v, 1) \in Booleans
      BY AtFacts
    <3>2. QED
      BY <3>1, Ignored
  <2>3. QED
    BY <2>1, <2>2, AtFacts
<1>2. QED
  BY <1>1, NotDepends

\* A function whose variables are all below v lies below v.
LEMMA BelowFacts ==
  ASSUME NEW g \in Booleans, NEW v \in Vars,
         \A w \in Depends(g) : var2level[w] < var2level[v]
  PROVE  LevelIn(g) < LevelOf(v)
<1>1. LevelOf(v) = var2level[v] /\ var2level[v] > 0 /\ var2level[v] \in Nat
  BY VarsFacts
<1>2. CASE Constant(g)
  BY <1>1, <1>2, LevelFacts
<1>3. CASE ~ Constant(g)
  BY <1>1, <1>3, LevelFacts
<1>4. QED
  BY <1>2, <1>3

\* v is not below any variable of f; w is lower when it is another.
Covers(v, f) == \A w \in Depends(f) : var2level[w] <= var2level[v]

LEMMA CoversFacts ==
  ASSUME NEW f \in Booleans, NEW v \in Vars, Covers(v, f)
  PROVE  \A w \in Depends(f) \ {v} : w \in Vars /\ var2level[w] < var2level[v]
<1> SUFFICES ASSUME NEW w \in Depends(f) \ {v}
             PROVE  w \in Vars /\ var2level[w] < var2level[v]
  OBVIOUS
<1>1. w \in Vars
  BY DEF Depends
<1>2. var2level[w] <= var2level[v] /\ var2level[w] # var2level[v]
  BY <1>1, VarsFacts DEF Covers
<1>3. var2level[w] \in Nat /\ var2level[v] \in Nat
  BY <1>1, VarsFacts
<1>4. QED
  BY <1>1, <1>2, <1>3

\* A node on v whose children lie below v.
LEMMA BNodeIs ==
  ASSUME NEW v \in Vars, NEW lo \in Booleans, NEW hi \in Booleans,
         \A w \in Depends(lo) \cup Depends(hi) : var2level[w] < var2level[v]
  PROVE  /\ BNode(v, lo, hi) \in Booleans
         /\ \A s \in True : s \in BNode(v, lo, hi) <=> IF v \in s THEN s \in hi ELSE s \in lo
<1>1. Thrown \notin {lo, hi}
  <2>1. -1 \notin Vars
    BY VarsFacts
  <2>2. {-1} \notin True
    BY <2>1 DEF True
  <2>3. Thrown \notin Booleans
    BY <2>2 DEF Thrown, Booleans
  <2>4. QED
    BY <2>3
<1>2. LevelIn(lo) < LevelOf(v) /\ LevelIn(hi) < LevelOf(v)
  BY BelowFacts
<1>3. LevelIn(lo) \in Nat /\ LevelIn(hi) \in Nat /\ LevelOf(v) \in Nat
  BY LevelFacts, VarsFacts
<1>4. ~ (LevelIn(lo) >= LevelOf(v) \/ LevelIn(hi) >= LevelOf(v))
  BY <1>2, <1>3
<1>5. BNode(v, lo, hi) = {s \in lo : v \notin s} \cup {s \in hi : v \in s}
  BY <1>1, <1>4 DEF BNode
<1>6. QED
  BY <1>5 DEF Booleans

\* The result r of a node is f when its children are the cofactors of f.
LEMMA BNodeMakes ==
  ASSUME NEW v \in Vars, NEW lo \in Booleans, NEW hi \in Booleans,
         \A w \in Depends(lo) \cup Depends(hi) : var2level[w] < var2level[v],
         NEW r \in Booleans,
         \A s \in True : s \in r <=> IF v \in s THEN s \in hi ELSE s \in lo
  PROVE  BNode(v, lo, hi) = r
<1>1. \A s \in True : s \in r <=> s \in BNode(v, lo, hi)
  BY BNodeIs
<1>2. BNode(v, lo, hi) \in Booleans
  BY BNodeIs
<1>3. QED
  BY <1>1, <1>2 DEF Booleans

\* The top variable covers its function.
LEMMA TopFacts ==
  ASSUME NEW f \in Booleans, ~ Constant(f)
  PROVE  /\ Top(f) \in Vars /\ Top(f) \in Depends(f) /\ Covers(Top(f), f)
         /\ LevelIn(f) = LevelOf(Top(f)) /\ LevelIn(f) = var2level[Top(f)]
         /\ Lo0(f) = At(f, Top(f), 0) /\ Hi1(f) = At(f, Top(f), 1)
<1>1. Top(f) \in Vars /\ Top(f) \in Depends(f) /\ LevelIn(f) = var2level[Top(f)]
  BY LevelFacts
<1>2. Covers(Top(f), f)
  BY <1>1, LevelFacts DEF Covers
<1>3. LevelOf(Top(f)) = var2level[Top(f)]
  BY <1>1, VarsFacts
<1>4. QED
  BY <1>1, <1>2, <1>3 DEF Lo0, Hi1

\* A function is above v, or v makes no difference to it.
LEMMA HigherIgnored ==
  ASSUME NEW f \in Booleans, NEW v \in Vars, LevelIn(f) < LevelOf(v)
  PROVE  v \notin Depends(f)
<1> SUFFICES ASSUME v \in Depends(f) PROVE FALSE
  OBVIOUS
<1>1. var2level[v] <= LevelIn(f) /\ LevelIn(f) \in Nat
  BY LevelFacts
<1>2. LevelOf(v) = var2level[v] /\ var2level[v] \in Nat
  BY VarsFacts
<1>3. QED
  BY <1>1, <1>2

\* The highest variable of several functions covers them all.
LEMMA HighestFacts ==
  ASSUME NEW F \in SUBSET Booleans, NEW f0 \in F, ~ Constant(f0)
  PROVE  /\ HighestOf(F) \in Vars
         /\ \A f \in F : Covers(HighestOf(F), f)
         /\ \E f \in F : HighestOf(F) \in Depends(f)
<1> DEFINE on == {LevelIn(f) : f \in F}
<1>1. PICK n \in Nat : Vars = 1..n
  BY VarsFacts
<1>2. \A f \in F : LevelIn(f) \in 0..n
  <2> SUFFICES ASSUME NEW f \in F PROVE LevelIn(f) \in 0..n
    OBVIOUS
  <2>1. CASE Constant(f)
    BY <2>1, LevelFacts
  <2>2. CASE ~ Constant(f)
    <3>1. Top(f) \in Vars /\ LevelIn(f) = var2level[Top(f)]
      BY <2>2, TopFacts
    <3>2. LevelIn(f) \in Vars
      BY <3>1, FamilyAssumption
    <3>3. QED
      BY <1>1, <3>2
  <2>3. QED
    BY <2>1, <2>2
<1>3. on \in SUBSET (0..n) /\ on # {}
  BY <1>2
<1>4. PICK m \in on : \A k \in on : k <= m
  BY <1>3, Greatest
<1> DEFINE most == CHOOSE x \in on : \A y \in on : y <= x
<1>5. most \in on /\ \A k \in on : k <= most
  BY <1>4
<1>6. HighestOf(F) = VarOf(most)
  BY DEF HighestOf
<1>7. PICK f \in F : LevelIn(f) = most
  BY <1>5
<1>8. \A g \in F : LevelIn(g) <= LevelIn(f)
  BY <1>5, <1>7
<1>9. ~ Constant(f)
  <2> SUFFICES ASSUME Constant(f) PROVE FALSE
    OBVIOUS
  <2>1. LevelIn(f) = 0
    BY LevelFacts
  <2>2. LevelIn(f0) > 0 /\ LevelIn(f0) \in Nat
    BY LevelFacts
  <2>3. QED
    BY <1>8, <2>1, <2>2
<1>10. HighestOf(F) = Top(f)
  BY <1>6, <1>7 DEF Top
<1>11. Top(f) \in Vars /\ Top(f) \in Depends(f) /\ LevelIn(f) = var2level[Top(f)]
  BY <1>9, TopFacts
<1>12. \A g \in F : Covers(Top(f), g)
  <2> SUFFICES ASSUME NEW g \in F, NEW w \in Depends(g)
               PROVE  var2level[w] <= var2level[Top(f)]
    BY DEF Covers
  <2>1. w \in Vars /\ var2level[w] <= LevelIn(g) /\ LevelIn(g) <= LevelIn(f)
    BY <1>8, LevelFacts
  <2>2. var2level[w] \in Nat /\ LevelIn(g) \in Nat /\ LevelIn(f) \in Nat
    BY <2>1, VarsFacts, LevelFacts
  <2>3. QED
    BY <1>11, <2>1, <2>2
<1>13. QED
  BY <1>10, <1>11, <1>12

\* Negation.
LEMMA NotFacts ==
  ASSUME NEW f \in Booleans
  PROVE  /\ bddnot(f) \in Booleans /\ bddnot(f) = True \ f /\ f # Thrown
         /\ bddnot(bddnot(f)) = f
         /\ \A s \in True : s \in bddnot(f) <=> s \notin f
         /\ Depends(bddnot(f)) = Depends(f)
         /\ LevelIn(bddnot(f)) = LevelIn(f)
<1>1. f # Thrown /\ True \ f # Thrown
  <2>1. -1 \notin Vars
    BY VarsFacts
  <2>2. {-1} \notin True
    BY <2>1 DEF True
  <2>3. Thrown \notin Booleans /\ True \ f \in Booleans
    BY <2>2 DEF Thrown, Booleans
  <2>4. QED
    BY <2>3
<1>2. bddnot(f) = True \ f /\ bddnot(True \ f) = True \ (True \ f)
  BY <1>1 DEF bddnot
<1>3. True \ (True \ f) = f
  BY DEF Booleans
<1>4. \A s \in True, v \in Vars : Flip(s, v) \in True /\ Flip(Flip(s, v), v) = s
  BY DEF Flip, True
<1>5. Depends(True \ f) \subseteq Depends(f)
  <2> SUFFICES ASSUME NEW v \in Vars, NEW s \in True \ f, Flip(s, v) \notin True \ f
               PROVE  v \in Depends(f)
    BY DEF Depends
  <2>1. Flip(s, v) \in f /\ Flip(Flip(s, v), v) \notin f
    BY <1>4
  <2>2. QED
    BY <2>1 DEF Depends
<1>6. Depends(f) \subseteq Depends(True \ f)
  <2> SUFFICES ASSUME NEW v \in Vars, NEW s \in f, Flip(s, v) \notin f
               PROVE  v \in Depends(True \ f)
    BY DEF Depends
  <2>1. s \in True
    BY DEF Booleans
  <2>2. Flip(s, v) \in True \ f /\ Flip(Flip(s, v), v) \notin True \ f
    BY <1>4, <2>1
  <2>3. QED
    BY <2>2 DEF Depends
<1>7. Depends(bddnot(f)) = Depends(f)
  BY <1>2, <1>5, <1>6
<1>8. LevelIn(bddnot(f)) = LevelIn(f)
  BY <1>7 DEF LevelIn
<1>9. QED
  BY <1>1, <1>2, <1>3, <1>7, <1>8 DEF Booleans

\* What is put together from two functions depends on no other variable.
LEMMA JoinDepends ==
  ASSUME NEW f \in Booleans, NEW g \in Booleans
  PROVE  /\ f \cup g \in Booleans /\ Depends(f \cup g) \subseteq Depends(f) \cup Depends(g)
         /\ f \cap g \in Booleans /\ Depends(f \cap g) \subseteq Depends(f) \cup Depends(g)
<1>1. f \cup g \in Booleans /\ f \cap g \in Booleans
  BY DEF Booleans
<1>2. ASSUME NEW v \in Vars, v \notin Depends(f), v \notin Depends(g)
      PROVE  v \notin Depends(f \cup g) /\ v \notin Depends(f \cap g)
  <2>1. \A s \in True : (s \cup {v} \in f <=> s \in f) /\ (s \cup {v} \in g <=> s \in g)
    BY <1>2, Ignored
  <2>2. /\ \A s \in True : s \in f \cup g <=> s \cup {v} \in f \cup g
        /\ \A s \in True : s \in f \cap g <=> s \cup {v} \in f \cap g
    BY <2>1
  <2>3. QED
    BY <1>1, <2>2, NotDepends
<1>3. Depends(f \cup g) \subseteq Vars /\ Depends(f \cap g) \subseteq Vars
  BY DEF Depends
<1>4. QED
  BY <1>1, <1>2, <1>3

\* A cofactor of a cofactor, when the variables differ.
LEMMA AtAt ==
  ASSUME NEW f \in Booleans, NEW x \in Vars, NEW v \in Vars, x # v, NEW b \in {0, 1},
         NEW s \in True
  PROVE  s \in At(f, v, b) <=> IF x \in s THEN s \in At(At(f, x, 1), v, b)
                                         ELSE s \in At(At(f, x, 0), v, b)
<1>1. /\ At(f, x, 0) \in Booleans /\ At(f, x, 1) \in Booleans
      /\ s \ {v} \in True /\ s \cup {v} \in True
  BY AtFacts
<1>2. CASE b = 0
  <2>1. s \in At(f, v, 0) <=> s \ {v} \in f
    BY AtFacts
  <2>2. /\ s \in At(At(f, x, 1), v, 0) <=> s \ {v} \in At(f, x, 1)
        /\ s \in At(At(f, x, 0), v, 0) <=> s \ {v} \in At(f, x, 0)
    BY <1>1, AtFacts
  <2>3. s \ {v} \in f <=> IF x \in s \ {v} THEN s \ {v} \in At(f, x, 1)
                                           ELSE s \ {v} \in At(f, x, 0)
    BY <1>1, AtFacts
  <2>4. x \in s \ {v} <=> x \in s
    OBVIOUS
  <2>5. QED
    BY <1>2, <2>1, <2>2, <2>3, <2>4
<1>3. CASE b = 1
  <2>1. s \in At(f, v, 1) <=> s \cup {v} \in f
    BY AtFacts
  <2>2. /\ s \in At(At(f, x, 1), v, 1) <=> s \cup {v} \in At(f, x, 1)
        /\ s \in At(At(f, x, 0), v, 1) <=> s \cup {v} \in At(f, x, 0)
    BY <1>1, AtFacts
  <2>3. s \cup {v} \in f <=> IF x \in s \cup {v} THEN s \cup {v} \in At(f, x, 1)
                                                 ELSE s \cup {v} \in At(f, x, 0)
    BY <1>1, AtFacts
  <2>4. x \in s \cup {v} <=> x \in s
    OBVIOUS
  <2>5. QED
    BY <1>3, <2>1, <2>2, <2>3, <2>4
<1>4. QED
  BY <1>2, <1>3

\* The sides of a function by a variable that covers it are below that variable.
LEMMA SidesBelow ==
  ASSUME NEW f \in Booleans, NEW x \in Vars, Covers(x, f)
  PROVE  /\ \A w \in Depends(At(f, x, 0)) : w \in Vars /\ var2level[w] < var2level[x]
         /\ \A w \in Depends(At(f, x, 1)) : w \in Vars /\ var2level[w] < var2level[x]
<1>1. Depends(At(f, x, 0)) \subseteq Depends(f) \ {x}
  BY AtDepends
<1>2. Depends(At(f, x, 1)) \subseteq Depends(f) \ {x}
  BY AtDepends
<1>3. QED
  BY <1>1, <1>2, CoversFacts

\* The cofactor by another variable than the top one is a node on the top one.
LEMMA AtNode ==
  ASSUME NEW f \in Booleans, ~ Constant(f), NEW v \in Vars, Top(f) # v, NEW b \in {0, 1}
  PROVE  /\ Lo0(f) \in Booleans /\ Hi1(f) \in Booleans
         /\ BNode(Top(f), At(Lo0(f), v, b), At(Hi1(f), v, b)) = At(f, v, b)
<1> DEFINE x == Top(f)
           lo == At(Lo0(f), v, b)
           hi == At(Hi1(f), v, b)
<1>1. /\ x \in Vars /\ Covers(x, f) /\ Lo0(f) = At(f, x, 0) /\ Hi1(f) = At(f, x, 1)
  BY TopFacts
<1>2. Lo0(f) \in Booleans /\ Hi1(f) \in Booleans
  BY <1>1, AtFacts
<1>3. /\ lo \in Booleans /\ hi \in Booleans /\ At(f, v, b) \in Booleans
      /\ Depends(lo) \subseteq Depends(Lo0(f)) /\ Depends(hi) \subseteq Depends(Hi1(f))
  BY <1>2, AtFacts, AtDepends
<1>4. \A w \in Depends(lo) \cup Depends(hi) : var2level[w] < var2level[x]
  BY <1>1, <1>3, SidesBelow
<1>5. \A s \in True : s \in At(f, v, b) <=> IF x \in s THEN s \in hi ELSE s \in lo
  BY <1>1, AtAt
<1> HIDE DEF x, lo, hi
<1>6. BNode(x, lo, hi) = At(f, v, b)
  BY <1>1, <1>3, <1>4, <1>5, BNodeMakes
<1>7. QED
  BY <1>2, <1>6 DEF x, lo, hi

\* Smoothing joins the two cofactors.
LEMMA SmoothIs ==
  ASSUME NEW f \in Booleans, NEW v \in Vars
  PROVE  Exists(f, {v}) = At(f, v, 0) \cup At(f, v, 1)
<1>1. \A s, t \in True : SymDiff(s, t) \subseteq {v} <=> s \ {v} = t \ {v}
  BY DEF SymDiff
<1>2. ASSUME NEW s \in True
      PROVE  s \in Exists(f, {v}) <=> s \ {v} \in f \/ s \cup {v} \in f
  <2>1. s \ {v} \in True /\ s \cup {v} \in True
    BY AtFacts
  <2>2. s \in Exists(f, {v}) <=> \E t \in f : s \ {v} = t \ {v}
    BY <1>1 DEF Exists, Elsewhere, Booleans
  <2>3. ASSUME NEW t \in f, s \ {v} = t \ {v} PROVE t = s \ {v} \/ t = s \cup {v}
    BY <2>3
  <2>4. (s \ {v}) \ {v} = s \ {v} /\ (s \cup {v}) \ {v} = s \ {v}
    OBVIOUS
  <2>5. QED
    BY <2>2, <2>3, <2>4
<1>3. \A s \in True : s \in At(f, v, 0) \cup At(f, v, 1) <=> s \ {v} \in f \/ s \cup {v} \in f
  BY AtFacts
<1>4. Exists(f, {v}) \subseteq True /\ At(f, v, 0) \cup At(f, v, 1) \subseteq True
  BY DEF Exists, At
<1>5. QED
  BY <1>2, <1>3, <1>4

LEMMA SmoothNode ==
  ASSUME NEW f \in Booleans, ~ Constant(f), NEW v \in Vars, Top(f) # v
  PROVE  BNode(Top(f), Exists(Lo0(f), {v}), Exists(Hi1(f), {v})) = Exists(f, {v})
<1> DEFINE x == Top(f)
           lo == At(Lo0(f), v, 0) \cup At(Lo0(f), v, 1)
           hi == At(Hi1(f), v, 0) \cup At(Hi1(f), v, 1)
           r == At(f, v, 0) \cup At(f, v, 1)
<1>1. /\ x \in Vars /\ Covers(x, f) /\ Lo0(f) = At(f, x, 0) /\ Hi1(f) = At(f, x, 1)
  BY TopFacts
<1>2. Lo0(f) \in Booleans /\ Hi1(f) \in Booleans
  BY <1>1, AtFacts
<1>3. /\ Exists(Lo0(f), {v}) = lo /\ Exists(Hi1(f), {v}) = hi /\ Exists(f, {v}) = r
  BY <1>2, SmoothIs
<1>4. /\ \A g \in {f, Lo0(f), Hi1(f)} : At(g, v, 0) \in Booleans /\ At(g, v, 1) \in Booleans
      /\ \A g \in {Lo0(f), Hi1(f)} : /\ Depends(At(g, v, 0)) \subseteq Depends(g)
                                     /\ Depends(At(g, v, 1)) \subseteq Depends(g)
  BY <1>2, AtFacts, AtDepends
<1>5. lo \in Booleans /\ Depends(lo) \subseteq Depends(Lo0(f))
  BY <1>4, JoinDepends
<1>6. hi \in Booleans /\ Depends(hi) \subseteq Depends(Hi1(f))
  BY <1>4, JoinDepends
<1>7. r \in Booleans
  BY <1>4, JoinDepends
<1>8. \A w \in Depends(lo) \cup Depends(hi) : var2level[w] < var2level[x]
  BY <1>1, <1>5, <1>6, SidesBelow
<1>9. \A s \in True : s \in r <=> IF x \in s THEN s \in hi ELSE s \in lo
  <2> SUFFICES ASSUME NEW s \in True
               PROVE  s \in r <=> IF x \in s THEN s \in hi ELSE s \in lo
    OBVIOUS
  <2>1. /\ s \in At(f, v, 0) <=> IF x \in s THEN s \in At(Hi1(f), v, 0)
                                           ELSE s \in At(Lo0(f), v, 0)
        /\ s \in At(f, v, 1) <=> IF x \in s THEN s \in At(Hi1(f), v, 1)
                                           ELSE s \in At(Lo0(f), v, 1)
    BY <1>1, AtAt
  <2>2. QED
    BY <2>1
<1> HIDE DEF x, lo, hi, r
<1>10. BNode(x, lo, hi) = r
  BY <1>1, <1>5, <1>6, <1>7, <1>8, <1>9, BNodeMakes
<1>11. QED
  BY <1>3, <1>10 DEF x

\* Which body runs, and what its operation promises.
LEMMA Bodies ==
  ASSUME NEW a, NEW h
  PROVE  /\ BddLoop("bddite", a, h) = bddite_iter(a, h)
         /\ BddLoop("bddat0", a, h) = bddat0_iter(a, h)
         /\ BddLoop("bddat1", a, h) = bddat1_iter(a, h)
         /\ BddLoop("bddsmooth", a, h) = bddsmooth_iter(a, h)
         /\ BddLoop("bddimply", a, h) = bddimply_iter(a, h)
         /\ BddLoop("bddcofactor", a, h) = bddcofactor_iter(a, h)
         /\ BddLoop("bddexist", a, h) = bddexist_iter(a, h)
         /\ BddLoop("bdduniv", a, h) = bdduniv_iter(a, h)
         /\ BddLoop("bddspread", a, h) = bddspread_iter(a, h)
         /\ BddLoop("bddlshiftb", a, h) = lshiftb_iter(a, h)
         /\ BddLoop("bddrshiftb", a, h) = rshiftb_iter(a, h)
BY DEF BddLoop

LEMMA Arguments ==
  /\ BddArgs("bddite") = Booleans \X Booleans \X Booleans
  /\ \A op \in ByVariable : BddArgs(op) = Booleans \X Vars
  /\ \A op \in ByFunction : BddArgs(op) = Booleans \X Booleans
  /\ \A op \in BySet : BddArgs(op) = Booleans \X Cubes
  /\ \A op \in ByNumber : BddArgs(op) = {a \in Booleans \X Nat : BddFits(op, a)}
BY DEF BddArgs, ByVariable, ByFunction, BySet, ByNumber, Booleans

LEMMA OpsAre ==
  /\ ByVariable = {"bddat0", "bddat1", "bddsmooth"}
  /\ ByFunction = {"bddimply", "bddcofactor"}
  /\ BySet = {"bddexist", "bdduniv"}
  /\ ByNumber = {"bddspread", "bddlshiftb", "bddrshiftb"}
  /\ BddLoopOps = {"bddite", "bddat0", "bddat1", "bddsmooth", "bddimply", "bddcofactor",
                   "bddexist", "bdduniv", "bddspread", "bddlshiftb", "bddrshiftb"}
BY DEF BddLoopOps, ByVariable, ByFunction, BySet, ByNumber

LEMMA KeptAt ==
  ASSUME NEW f, NEW g, NEW r
  PROVE  /\ BddKept("bddat0", <<f, g>>, r) <=> r = At(f, g, 0)
         /\ BddKept("bddat1", <<f, g>>, r) <=> r = At(f, g, 1)
<1>1. /\ At(f, g, 0) = {s \in True : s \ {g} \in f}
      /\ At(f, g, 1) = {s \in True : s \cup {g} \in f}
  BY DEF At
<1>2. QED
  BY <1>1 DEF BddKept, BddPromise

LEMMA KeptIte ==
  ASSUME NEW f, NEW g, NEW h, NEW r
  PROVE  BddKept("bddite", <<f, g, h>>, r) <=>
           r = {s \in True : IF s \in f THEN s \in g ELSE s \in h}
BY DEF BddKept, BddPromise

LEMMA KeptSets ==
  ASSUME NEW f, NEW g, NEW r
  PROVE  /\ BddKept("bddsmooth", <<f, g>>, r) <=> r = Exists(f, {g})
         /\ BddKept("bddexist", <<f, g>>, r) <=> r = Exists(f, MembersOf(g))
         /\ BddKept("bdduniv", <<f, g>>, r) <=> r = ForAll(f, MembersOf(g))
BY DEF BddKept, BddPromise

LEMMA KeptImply ==
  ASSUME NEW f, NEW g, NEW r
  PROVE  BddKept("bddimply", <<f, g>>, r) <=> r = (f \subseteq g)
BY DEF BddKept, BddPromise

LEMMA KeptCofactor ==
  ASSUME NEW f, NEW g, NEW r
  PROVE  BddKept("bddcofactor", <<f, g>>, r) <=>
           /\ r \cap g = f \cap g
           /\ r \in Booleans /\ Depends(r) \subseteq Depends(f) \cup Depends(g)
BY DEF BddKept, Booleans

LEMMA KeptSpread ==
  ASSUME NEW f, NEW k, NEW r
  PROVE  BddKept("bddspread", <<f, k>>, r) <=>
           r = {s \in True : \E t \in f : Cardinality(SymDiff(s, t)) <= k}
BY DEF BddKept, BddPromise

LEMMA KeptShifts ==
  ASSUME NEW f, NEW k, NEW r
  PROVE  /\ BddKept("bddlshiftb", <<f, k>>, r) <=> r = Moved(f, k)
         /\ BddKept("bddrshiftb", <<f, k>>, r) <=>
              r = IF \E v \in Depends(f) : LevelOf(v) <= k THEN Thrown ELSE Moved(f, -k)
<1>1. BddKept("bddlshiftb", <<f, k>>, r) <=> r = Moved(f, k)
  BY DEF BddKept, BddPromise
<1>2. BddKept("bddrshiftb", <<f, k>>, r) <=>
        r = IF \E v \in Depends(f) : LevelOf(v) <= k THEN Thrown ELSE Moved(f, -k)
  BY DEF BddKept, BddPromise
<1>3. QED
  BY <1>1, <1>2

-----------------------------------------------------------------------------
(***************************************************************************)
(* The body of each operation, one by one.                                 *)
(***************************************************************************)
\* bddat0, bddat1 and bddsmooth descend to the variable.
LEMMA At0Right ==
  ASSUME NEW a \in BddArgs("bddat0"), NEW got, Sequence(got), BddAsked("bddat0", a, got)
  PROVE  PassRight("bddat0", a, BddLoop("bddat0", a, got))
<1> DEFINE op == "bddat0"
<1>1. PICK f \in Booleans, v \in Vars : a = <<f, v>>
  BY Arguments, OpsAre
<1>2. \A h : BddLoop(op, a, h) = bddat0_iter(<<f, v>>, h)
  BY <1>1, Bodies
<1>3. \A g, r : BddKept(op, <<g, v>>, r) <=> r = At(g, v, 0)
  <2> SUFFICES ASSUME NEW g, NEW r PROVE BddKept(op, <<g, v>>, r) <=> r = At(g, v, 0)
    OBVIOUS
  <2>1. QED
    BY KeptAt
<1>4. /\ \A g \in Booleans : <<g, v>> \in BddArgs(op)
      /\ BddAsked(op, a, got)
  BY Arguments, OpsAre
<1>5. v \notin Depends(f) => At(f, v, 0) = f
  BY AtDepends
<1> SUFFICES PassRight(op, a, BddLoop(op, a, got))
  OBVIOUS
<1> HIDE DEF op
<1> DEFINE Lower == Constant(f) \/ LevelIn(f) < LevelOf(v)
<1>6. CASE Lower
  <2>1. BddLoop(op, a, got) = Answer(f)
    BY <1>2, <1>6 DEF bddat0_iter
  <2>2. v \notin Depends(f)
    BY <1>6, HigherIgnored, ConstantFacts
  <2>3. BddKept(op, a, f)
    BY <1>1, <1>3, <1>5, <2>2
  <2>4. QED
    BY <2>1, <2>3, AnswerPass
<1>7. CASE ~ Lower /\ Top(f) = v
  <2>1. BddLoop(op, a, got) = Keep({a}, Lo0(f))
    BY <1>1, <1>2, <1>7 DEF bddat0_iter
  <2>2. BddKept(op, a, Lo0(f))
    BY <1>1, <1>3, <1>7 DEF Lo0, Hi1
  <2>3. QED
    BY <2>1, <2>2, KeepPass
<1>8. CASE ~ Lower /\ Top(f) # v
  <2> DEFINE a1 == <<Lo0(f), v>>
             a2 == <<Hi1(f), v>>
             r == BNode(Top(f), got[1], got[2])
  <2>1. \A h : BddLoop(op, a, h) = Open({a}, <<a1, a2>>, h, BNode(Top(f), h[1], h[2]))
    BY <1>1, <1>2, <1>8 DEF bddat0_iter
  <2>2. AsksOnly(op, a, {a}, <<a1, a2>>)
    BY <2>1 DEF AsksOnly
  <2>3. Lo0(f) \in Booleans /\ Hi1(f) \in Booleans
    BY <1>8, AtNode
  <2>4. a1 \in BddArgs(op) /\ a2 \in BddArgs(op)
    BY <1>4, <2>3
  <2>5. ASSUME BddKept(op, a1, got[1]), BddKept(op, a2, got[2]) PROVE BddKept(op, a, r)
    <3>1. got[1] = At(Lo0(f), v, 0) /\ got[2] = At(Hi1(f), v, 0)
      BY <1>3, <2>5
    <3>2. r = At(f, v, 0)
      BY <1>8, <3>1, AtNode
    <3>3. QED
      BY <1>1, <1>3, <3>2
  <2>6. BddLoop(op, a, got) = Open({a}, <<a1, a2>>, got, r)
    BY <2>1
  <2> HIDE DEF a1, a2, r
  <2>7. \A k \in {a} : \A r0 : BddKept(op, a, r0) => BddKept(op, k, r0)
    OBVIOUS
  <2>8. QED
    BY <1>4, <2>2, <2>4, <2>5, <2>6, <2>7, OpenTwo
<1>9. QED
  BY <1>6, <1>7, <1>8

LEMMA At1Right ==
  ASSUME NEW a \in BddArgs("bddat1"), NEW got, Sequence(got), BddAsked("bddat1", a, got)
  PROVE  PassRight("bddat1", a, BddLoop("bddat1", a, got))
<1> DEFINE op == "bddat1"
<1>1. PICK f \in Booleans, v \in Vars : a = <<f, v>>
  BY Arguments, OpsAre
<1>2. \A h : BddLoop(op, a, h) = bddat1_iter(<<f, v>>, h)
  BY <1>1, Bodies
<1>3. \A g, r : BddKept(op, <<g, v>>, r) <=> r = At(g, v, 1)
  <2> SUFFICES ASSUME NEW g, NEW r PROVE BddKept(op, <<g, v>>, r) <=> r = At(g, v, 1)
    OBVIOUS
  <2>1. QED
    BY KeptAt
<1>4. /\ \A g \in Booleans : <<g, v>> \in BddArgs(op)
      /\ BddAsked(op, a, got)
  BY Arguments, OpsAre
<1>5. v \notin Depends(f) => At(f, v, 1) = f
  BY AtDepends
<1> SUFFICES PassRight(op, a, BddLoop(op, a, got))
  OBVIOUS
<1> HIDE DEF op
<1> DEFINE Lower == Constant(f) \/ LevelIn(f) < LevelOf(v)
<1>6. CASE Lower
  <2>1. BddLoop(op, a, got) = Answer(f)
    BY <1>2, <1>6 DEF bddat1_iter
  <2>2. v \notin Depends(f)
    BY <1>6, HigherIgnored, ConstantFacts
  <2>3. BddKept(op, a, f)
    BY <1>1, <1>3, <1>5, <2>2
  <2>4. QED
    BY <2>1, <2>3, AnswerPass
<1>7. CASE ~ Lower /\ Top(f) = v
  <2>1. BddLoop(op, a, got) = Keep({a}, Hi1(f))
    BY <1>1, <1>2, <1>7 DEF bddat1_iter
  <2>2. BddKept(op, a, Hi1(f))
    BY <1>1, <1>3, <1>7 DEF Lo0, Hi1
  <2>3. QED
    BY <2>1, <2>2, KeepPass
<1>8. CASE ~ Lower /\ Top(f) # v
  <2> DEFINE a1 == <<Lo0(f), v>>
             a2 == <<Hi1(f), v>>
             r == BNode(Top(f), got[1], got[2])
  <2>1. \A h : BddLoop(op, a, h) = Open({a}, <<a1, a2>>, h, BNode(Top(f), h[1], h[2]))
    BY <1>1, <1>2, <1>8 DEF bddat1_iter
  <2>2. AsksOnly(op, a, {a}, <<a1, a2>>)
    BY <2>1 DEF AsksOnly
  <2>3. Lo0(f) \in Booleans /\ Hi1(f) \in Booleans
    BY <1>8, AtNode
  <2>4. a1 \in BddArgs(op) /\ a2 \in BddArgs(op)
    BY <1>4, <2>3
  <2>5. ASSUME BddKept(op, a1, got[1]), BddKept(op, a2, got[2]) PROVE BddKept(op, a, r)
    <3>1. got[1] = At(Lo0(f), v, 1) /\ got[2] = At(Hi1(f), v, 1)
      BY <1>3, <2>5
    <3>2. r = At(f, v, 1)
      BY <1>8, <3>1, AtNode
    <3>3. QED
      BY <1>1, <1>3, <3>2
  <2>6. BddLoop(op, a, got) = Open({a}, <<a1, a2>>, got, r)
    BY <2>1
  <2> HIDE DEF a1, a2, r
  <2>7. \A k \in {a} : \A r0 : BddKept(op, a, r0) => BddKept(op, k, r0)
    OBVIOUS
  <2>8. QED
    BY <1>4, <2>2, <2>4, <2>5, <2>6, <2>7, OpenTwo
<1>9. QED
  BY <1>6, <1>7, <1>8

LEMMA SmoothRight ==
  ASSUME NEW a \in BddArgs("bddsmooth"), NEW got, Sequence(got), BddAsked("bddsmooth", a, got)
  PROVE  PassRight("bddsmooth", a, BddLoop("bddsmooth", a, got))
<1> DEFINE op == "bddsmooth"
<1>1. PICK f \in Booleans, v \in Vars : a = <<f, v>>
  BY Arguments, OpsAre
<1>2. \A h : BddLoop(op, a, h) = bddsmooth_iter(<<f, v>>, h)
  BY <1>1, Bodies
<1>3. \A g, r : BddKept(op, <<g, v>>, r) <=> r = Exists(g, {v})
  <2> SUFFICES ASSUME NEW g, NEW r PROVE BddKept(op, <<g, v>>, r) <=> r = Exists(g, {v})
    OBVIOUS
  <2>1. QED
    BY KeptSets
<1>4. /\ \A g \in Booleans : <<g, v>> \in BddArgs(op)
      /\ BddAsked(op, a, got)
  BY Arguments, OpsAre
<1>5. v \notin Depends(f) => Exists(f, {v}) = f
  <2>1. v \notin Depends(f) => At(f, v, 0) = f /\ At(f, v, 1) = f
    BY AtDepends
  <2>2. QED
    BY <2>1, SmoothIs
<1> SUFFICES PassRight(op, a, BddLoop(op, a, got))
  OBVIOUS
<1> HIDE DEF op
<1> DEFINE Lower == Constant(f) \/ LevelIn(f) < LevelOf(v)
<1>6. CASE Lower
  <2>1. BddLoop(op, a, got) = Answer(f)
    BY <1>2, <1>6 DEF bddsmooth_iter
  <2>2. v \notin Depends(f)
    BY <1>6, HigherIgnored, ConstantFacts
  <2>3. BddKept(op, a, f)
    BY <1>1, <1>3, <1>5, <2>2
  <2>4. QED
    BY <2>1, <2>3, AnswerPass
<1>7. CASE ~ Lower /\ Top(f) = v
  <2>1. BddLoop(op, a, got) = Keep({a}, Lo0(f) \cup Hi1(f))
    BY <1>1, <1>2, <1>7 DEF bddsmooth_iter
  <2>2. BddKept(op, a, Lo0(f) \cup Hi1(f))
    BY <1>1, <1>3, <1>7, SmoothIs DEF Lo0, Hi1
  <2>3. QED
    BY <2>1, <2>2, KeepPass
<1>8. CASE ~ Lower /\ Top(f) # v
  <2> DEFINE a1 == <<Lo0(f), v>>
             a2 == <<Hi1(f), v>>
             r == BNode(Top(f), got[1], got[2])
  <2>1. \A h : BddLoop(op, a, h) = Open({a}, <<a1, a2>>, h, BNode(Top(f), h[1], h[2]))
    BY <1>1, <1>2, <1>8 DEF bddsmooth_iter
  <2>2. AsksOnly(op, a, {a}, <<a1, a2>>)
    BY <2>1 DEF AsksOnly
  <2>3. Lo0(f) \in Booleans /\ Hi1(f) \in Booleans
    BY <1>8, AtNode
  <2>4. a1 \in BddArgs(op) /\ a2 \in BddArgs(op)
    BY <1>4, <2>3
  <2>5. ASSUME BddKept(op, a1, got[1]), BddKept(op, a2, got[2]) PROVE BddKept(op, a, r)
    <3>1. got[1] = Exists(Lo0(f), {v}) /\ got[2] = Exists(Hi1(f), {v})
      BY <1>3, <2>5
    <3>2. r = Exists(f, {v})
      BY <1>8, <3>1, AtNode, SmoothNode
    <3>3. QED
      BY <1>1, <1>3, <3>2
  <2>6. BddLoop(op, a, got) = Open({a}, <<a1, a2>>, got, r)
    BY <2>1
  <2> HIDE DEF a1, a2, r
  <2>7. \A k \in {a} : \A r0 : BddKept(op, a, r0) => BddKept(op, k, r0)
    OBVIOUS
  <2>8. QED
    BY <1>4, <2>2, <2>4, <2>5, <2>6, <2>7, OpenTwo
<1>9. QED
  BY <1>6, <1>7, <1>8

\* If-then-else, point by point.
Chosen(f, g, h) == {s \in True : IF s \in f THEN s \in g ELSE s \in h}

LEMMA ChosenFacts ==
  ASSUME NEW f \in Booleans, NEW g \in Booleans, NEW h \in Booleans
  PROVE  /\ Chosen(f, g, h) \in Booleans
         /\ \A s \in True : s \in Chosen(f, g, h) <=> IF s \in f THEN s \in g ELSE s \in h
         /\ Depends(Chosen(f, g, h)) \subseteq Depends(f) \cup Depends(g) \cup Depends(h)
<1>1. /\ Chosen(f, g, h) \in Booleans
      /\ \A s \in True : s \in Chosen(f, g, h) <=> IF s \in f THEN s \in g ELSE s \in h
  BY DEF Chosen, Booleans
<1>2. ASSUME NEW v \in Vars, v \notin Depends(f), v \notin Depends(g), v \notin Depends(h)
      PROVE  v \notin Depends(Chosen(f, g, h))
  <2>1. \A s \in True : /\ s \cup {v} \in f <=> s \in f
                        /\ s \cup {v} \in g <=> s \in g
                        /\ s \cup {v} \in h <=> s \in h
    BY <1>2, Ignored
  <2>2. \A s \in True : s \cup {v} \in True
    BY DEF True
  <2>3. \A s \in True : s \in Chosen(f, g, h) <=> s \cup {v} \in Chosen(f, g, h)
    BY <1>1, <2>1, <2>2
  <2>4. QED
    BY <1>1, <2>3, NotDepends
<1>3. Depends(Chosen(f, g, h)) \subseteq Vars
  BY DEF Depends
<1>4. QED
  BY <1>1, <1>2, <1>3

\* The shortcuts of if-then-else.
LEMMA DecisionRight ==
  ASSUME NEW f \in Booleans, NEW g \in Booleans, NEW h \in Booleans, IteDecided(f, g, h)
  PROVE  IteDecision(f, g, h) = Chosen(f, g, h)
<1>1. /\ f \subseteq True /\ g \subseteq True /\ h \subseteq True
      /\ bddnot(f) = True \ f
  BY NotFacts DEF Booleans
<1>2. CASE f = True
  BY <1>1, <1>2 DEF IteDecision, Chosen
<1>3. CASE f # True /\ f = False
  BY <1>1, <1>3 DEF IteDecision, Chosen, False
<1>4. CASE f # True /\ f # False /\ g = h
  BY <1>1, <1>4 DEF IteDecision, Chosen
<1> DEFINE Left == f # True /\ f # False /\ g # h
<1>5. CASE Left /\ g = True
  <2>1. IteDecision(f, g, h) = f \cup h
    BY <1>5 DEF IteDecision
  <2>2. QED
    BY <1>1, <1>5, <2>1 DEF Chosen
<1>6. CASE Left /\ g # True /\ g = False
  <2>1. IteDecision(f, g, h) = bddnot(f) \cap h
    BY <1>6 DEF IteDecision
  <2>2. QED
    BY <1>1, <1>6, <2>1 DEF Chosen, False
<1>7. CASE Left /\ g # True /\ g # False /\ h = False
  <2>1. IteDecision(f, g, h) = f \cap g
    BY <1>7 DEF IteDecision
  <2>2. QED
    BY <1>1, <1>7, <2>1 DEF Chosen, False
<1>8. CASE Left /\ g # True /\ g # False /\ h # False
  <2>1. h = True
    BY <1>8 DEF IteDecided, Constant
  <2>2. IteDecision(f, g, h) = bddnot(f) \cup g
    BY <1>8 DEF IteDecision
  <2>3. QED
    BY <1>1, <2>1, <2>2 DEF Chosen
<1>9. QED
  BY <1>2, <1>3, <1>4, <1>5, <1>6, <1>7, <1>8

\* if-then-else commutes with taking a cofactor.
LEMMA ChosenSides ==
  ASSUME NEW f \in Booleans, NEW g \in Booleans, NEW h \in Booleans, NEW v \in Vars,
         Covers(v, f), Covers(v, g), Covers(v, h),
         NEW lo, lo = Chosen(At(f, v, 0), At(g, v, 0), At(h, v, 0)),
         NEW hi, hi = Chosen(At(f, v, 1), At(g, v, 1), At(h, v, 1))
  PROVE  BNode(v, lo, hi) = Chosen(f, g, h)
<1>1. \A k \in {f, g, h} : At(k, v, 0) \in Booleans /\ At(k, v, 1) \in Booleans
  BY AtFacts
<1>2. /\ lo \in Booleans
      /\ \A s \in True : s \in lo <=> IF s \in At(f, v, 0) THEN s \in At(g, v, 0)
                                                           ELSE s \in At(h, v, 0)
      /\ Depends(lo) \subseteq Depends(At(f, v, 0)) \cup Depends(At(g, v, 0))
                                 \cup Depends(At(h, v, 0))
  BY <1>1, ChosenFacts
<1>3. /\ hi \in Booleans
      /\ \A s \in True : s \in hi <=> IF s \in At(f, v, 1) THEN s \in At(g, v, 1)
                                                           ELSE s \in At(h, v, 1)
      /\ Depends(hi) \subseteq Depends(At(f, v, 1)) \cup Depends(At(g, v, 1))
                                 \cup Depends(At(h, v, 1))
  BY <1>1, ChosenFacts
<1>4. \A w \in Depends(lo) \cup Depends(hi) : var2level[w] < var2level[v]
  BY <1>2, <1>3, SidesBelow
<1>5. /\ Chosen(f, g, h) \in Booleans
      /\ \A s \in True : s \in Chosen(f, g, h) <=> IF s \in f THEN s \in g ELSE s \in h
  BY ChosenFacts
<1>6. ASSUME NEW s \in True
      PROVE  s \in Chosen(f, g, h) <=> IF v \in s THEN s \in hi ELSE s \in lo
  <2>1. /\ s \in f <=> IF v \in s THEN s \in At(f, v, 1) ELSE s \in At(f, v, 0)
        /\ s \in g <=> IF v \in s THEN s \in At(g, v, 1) ELSE s \in At(g, v, 0)
        /\ s \in h <=> IF v \in s THEN s \in At(h, v, 1) ELSE s \in At(h, v, 0)
    BY AtFacts
  <2>2. QED
    BY <1>2, <1>3, <1>5, <2>1
<1>7. QED
  BY <1>2, <1>3, <1>4, <1>5, <1>6, BNodeMakes

\* bddite takes the complement bits of the condition and the then-branch off.
LEMMA IteRight ==
  ASSUME NEW a \in BddArgs("bddite"), NEW got, Sequence(got), BddAsked("bddite", a, got)
  PROVE  PassRight("bddite", a, BddLoop("bddite", a, got))
<1> DEFINE op == "bddite"
<1>1. PICK f \in Booleans, g \in Booleans, h \in Booleans : a = <<f, g, h>>
  BY Arguments
<1>2. \A k : BddLoop(op, a, k) = bddite_iter(<<f, g, h>>, k)
  BY <1>1, Bodies
<1>3. \A x, y, z, r : BddKept(op, <<x, y, z>>, r) <=> r = Chosen(x, y, z)
  BY KeptIte DEF Chosen
<1>4. /\ \A x, y, z \in Booleans : <<x, y, z>> \in BddArgs(op)
      /\ BddAsked(op, a, got)
  BY Arguments
<1> SUFFICES PassRight(op, a, BddLoop(op, a, got))
  OBVIOUS
<1> HIDE DEF op
<1>5. CASE IteDecided(f, g, h)
  <2>1. BddLoop(op, a, got) = Answer(IteDecision(f, g, h))
    BY <1>2, <1>5 DEF bddite_iter
  <2>2. BddKept(op, a, IteDecision(f, g, h))
    BY <1>1, <1>3, <1>5, DecisionRight
  <2>3. QED
    BY <2>1, <2>2, AnswerPass
<1>6. CASE ~ IteDecided(f, g, h) /\ Comp(f)
  <2> DEFINE a1 == <<bddnot(f), h, g>>
  <2>1. \A k : BddLoop(op, a, k) = Relay(<<a1>>, k, k[1])
    BY <1>2, <1>6 DEF bddite_iter
  <2>2. AsksOnly(op, a, {}, <<a1>>)
    BY <2>1 DEF AsksOnly
  <2>3. a1 \in BddArgs(op)
    BY <1>4, NotFacts
  <2>4. Chosen(bddnot(f), h, g) = Chosen(f, g, h)
    <3>1. \A s \in True : s \in bddnot(f) <=> s \notin f
      BY NotFacts
    <3>2. QED
      BY <3>1 DEF Chosen
  <2>5. BddKept(op, a1, got[1]) => BddKept(op, a, got[1])
    BY <1>1, <1>3, <2>4
  <2>6. BddLoop(op, a, got) = Relay(<<a1>>, got, got[1])
    BY <2>1
  <2> HIDE DEF a1
  <2>7. QED
    BY <1>4, <2>2, <2>3, <2>5, <2>6, RelayPass
<1>7. CASE ~ IteDecided(f, g, h) /\ ~ Comp(f) /\ Comp(g)
  <2> DEFINE a1 == <<f, bddnot(g), bddnot(h)>>
  <2>1. \A k : BddLoop(op, a, k) = Relay(<<a1>>, k, bddnot(k[1]))
    BY <1>2, <1>7 DEF bddite_iter
  <2>2. AsksOnly(op, a, {}, <<a1>>)
    BY <2>1 DEF AsksOnly
  <2>3. a1 \in BddArgs(op)
    BY <1>4, NotFacts
  <2>4. bddnot(Chosen(f, bddnot(g), bddnot(h))) = Chosen(f, g, h)
    <3> DEFINE c == Chosen(f, bddnot(g), bddnot(h))
    <3>1. /\ \A s \in True : s \in bddnot(g) <=> s \notin g
          /\ \A s \in True : s \in bddnot(h) <=> s \notin h
          /\ bddnot(g) \in Booleans /\ bddnot(h) \in Booleans
      BY NotFacts
    <3>2. /\ c \in Booleans
          /\ \A s \in True : s \in c <=> IF s \in f THEN s \notin g ELSE s \notin h
      BY <3>1, ChosenFacts
    <3> HIDE DEF c
    <3>3. bddnot(c) = True \ c
      BY <3>2, NotFacts
    <3>4. bddnot(c) = Chosen(f, g, h)
      BY <3>2, <3>3 DEF Chosen
    <3>5. QED
      BY <3>4 DEF c
  <2>5. BddKept(op, a1, got[1]) => BddKept(op, a, bddnot(got[1]))
    BY <1>1, <1>3, <2>4
  <2>6. BddLoop(op, a, got) = Relay(<<a1>>, got, bddnot(got[1]))
    BY <2>1
  <2> HIDE DEF a1
  <2>7. QED
    BY <1>4, <2>2, <2>3, <2>5, <2>6, RelayPass
<1>8. CASE ~ IteDecided(f, g, h) /\ ~ Comp(f) /\ ~ Comp(g)
  <2>1. PICK v : v = HighestOf({f, g, h})
    OBVIOUS
  <2>2. v \in Vars /\ Covers(v, f) /\ Covers(v, g) /\ Covers(v, h)
    <3>1. ~ Constant(f)
      BY <1>8 DEF IteDecided
    <3>2. {f, g, h} \in SUBSET Booleans
      OBVIOUS
    <3>3. QED
      BY <2>1, <3>1, <3>2, HighestFacts
  <2> DEFINE a1 == <<At(f, v, 0), At(g, v, 0), At(h, v, 0)>>
             a2 == <<At(f, v, 1), At(g, v, 1), At(h, v, 1)>>
             r == BNode(v, got[1], got[2])
  <2>3. \A k : BddLoop(op, a, k) = Open({a}, <<a1, a2>>, k, BNode(v, k[1], k[2]))
    BY <1>1, <1>2, <1>8, <2>1 DEF bddite_iter
  <2>4. AsksOnly(op, a, {a}, <<a1, a2>>)
    BY <2>3 DEF AsksOnly
  <2>5. a1 \in BddArgs(op) /\ a2 \in BddArgs(op)
    BY <1>4, <2>2, AtFacts
  <2>6. ASSUME BddKept(op, a1, got[1]), BddKept(op, a2, got[2]) PROVE BddKept(op, a, r)
    <3>1. /\ got[1] = Chosen(At(f, v, 0), At(g, v, 0), At(h, v, 0))
          /\ got[2] = Chosen(At(f, v, 1), At(g, v, 1), At(h, v, 1))
      BY <1>3, <2>6
    <3>2. r = Chosen(f, g, h)
      BY <2>2, <3>1, ChosenSides
    <3>3. QED
      BY <1>1, <1>3, <3>2
  <2>7. BddLoop(op, a, got) = Open({a}, <<a1, a2>>, got, r)
    BY <2>3
  <2> HIDE DEF a1, a2, r
  <2>8. \A k \in {a} : \A r0 : BddKept(op, a, r0) => BddKept(op, k, r0)
    OBVIOUS
  <2>9. QED
    BY <1>4, <2>4, <2>5, <2>6, <2>7, <2>8, OpenTwo
<1>9. QED
  BY <1>5, <1>6, <1>7, <1>8

\* Implication holds when it holds on both sides.
LEMMA ImplySides ==
  ASSUME NEW f \in Booleans, NEW g \in Booleans, NEW v \in Vars
  PROVE  f \subseteq g <=> /\ At(f, v, 0) \subseteq At(g, v, 0)
                           /\ At(f, v, 1) \subseteq At(g, v, 1)
<1>1. ASSUME f \subseteq g
      PROVE  At(f, v, 0) \subseteq At(g, v, 0) /\ At(f, v, 1) \subseteq At(g, v, 1)
  BY <1>1 DEF At
<1>2. ASSUME At(f, v, 0) \subseteq At(g, v, 0), At(f, v, 1) \subseteq At(g, v, 1)
      PROVE  f \subseteq g
  <2> SUFFICES ASSUME NEW s \in f PROVE s \in g
    OBVIOUS
  <2>1. s \in True
    BY DEF Booleans
  <2>2. /\ s \in f <=> IF v \in s THEN s \in At(f, v, 1) ELSE s \in At(f, v, 0)
        /\ s \in g <=> IF v \in s THEN s \in At(g, v, 1) ELSE s \in At(g, v, 0)
    BY <2>1, AtFacts
  <2>3. QED
    BY <1>2, <2>2
<1>3. QED
  BY <1>1, <1>2

\* bddimply looks at the hi sides only when the lo sides imply.
LEMMA ImplyRight ==
  ASSUME NEW a \in BddArgs("bddimply"), NEW got, Sequence(got), BddAsked("bddimply", a, got)
  PROVE  PassRight("bddimply", a, BddLoop("bddimply", a, got))
<1> DEFINE op == "bddimply"
<1>1. PICK f \in Booleans, g \in Booleans : a = <<f, g>>
  BY Arguments, OpsAre
<1>2. \A h : BddLoop(op, a, h) = bddimply_iter(<<f, g>>, h)
  BY <1>1, Bodies
<1>3. \A x, y, r : BddKept(op, <<x, y>>, r) <=> r = (x \subseteq y)
  BY KeptImply
<1>4. /\ \A x, y \in Booleans : <<x, y>> \in BddArgs(op)
      /\ BddAsked(op, a, got)
  BY Arguments, OpsAre
<1> SUFFICES PassRight(op, a, BddLoop(op, a, got))
  OBVIOUS
<1> HIDE DEF op
<1>5. CASE ImplyDecided(f, g)
  <2>1. BddLoop(op, a, got) = Answer(ImplyDecision(f, g))
    BY <1>2, <1>5 DEF bddimply_iter
  <2>2. ImplyDecision(f, g) = (f \subseteq g)
    <3>1. CASE f = False \/ g = True \/ f = g
      BY <3>1 DEF ImplyDecision, False, Booleans
    <3>2. CASE ~ (f = False \/ g = True \/ f = g)
      <4>1. ~ (f \subseteq g)
        <5>1. CASE f = bddnot(g)
          <6>1. f = True \ g /\ f # {}
            BY <3>2, <5>1, NotFacts DEF False
          <6>2. QED
            BY <6>1
        <5>2. CASE f = True /\ g = False
          BY <3>2, <5>2 DEF False
        <5>3. QED
          BY <1>5, <3>2, <5>1, <5>2 DEF ImplyDecided
      <4>2. QED
        BY <3>2, <4>1 DEF ImplyDecision
    <3>3. QED
      BY <3>1, <3>2
  <2>3. BddKept(op, a, ImplyDecision(f, g))
    BY <1>1, <1>3, <2>2
  <2>4. QED
    BY <2>1, <2>3, AnswerPass
<1>6. CASE ~ ImplyDecided(f, g)
  <2>1. PICK v : v = HighestOf({f, g})
    OBVIOUS
  <2>2. v \in Vars
    <3>1. ~ Constant(f) \/ ~ Constant(g)
      BY <1>6 DEF ImplyDecided, Constant
    <3>2. {f, g} \in SUBSET Booleans
      OBVIOUS
    <3>3. QED
      BY <2>1, <3>1, <3>2, HighestFacts
  <2> DEFINE a1 == <<At(f, v, 0), At(g, v, 0)>>
             a2 == <<At(f, v, 1), At(g, v, 1)>>
             key == {a}
  <2>3. \A h : BddLoop(op, a, h) = IF h = <<FALSE>> THEN Keep(key, FALSE)
                                   ELSE Open(key, <<a1, a2>>, h, h[2])
    BY <1>1, <1>2, <1>6, <2>1 DEF bddimply_iter
  <2>4. \A k \in key : \A r0 : BddKept(op, a, r0) => BddKept(op, k, r0)
    OBVIOUS
  <2>5. a1 \in BddArgs(op) /\ a2 \in BddArgs(op)
    BY <1>4, <2>2, AtFacts
  <2>6. /\ \A r : BddKept(op, a1, r) => r = (At(f, v, 0) \subseteq At(g, v, 0))
        /\ \A r : BddKept(op, a2, r) => r = (At(f, v, 1) \subseteq At(g, v, 1))
    BY <1>3
  <2>7. \A r : BddKept(op, a, r) <=> r = (f \subseteq g)
    BY <1>1, <1>3
  <2> HIDE DEF a1, a2, key
  <2>8. Keep(key, FALSE).kind = "keep"
    BY DEF Keep
  <2>9. AsksOnly(op, a, key, <<a1, a2>>)
    BY <2>3, <2>8 DEF AsksOnly
  <2>10. CASE got = <<FALSE>>
    <3>1. BddLoop(op, a, got) = Keep(key, FALSE)
      BY <2>3, <2>10
    <3> DEFINE subs == <<a1, a2>>
    <3>2. Len(subs) \in Nat /\ subs[1] = a1
      OBVIOUS
    <3>3. AsksOnly(op, a, key, subs)
      BY <2>9
    <3> HIDE DEF subs
    <3>4. \A j \in 1..Len(got) : BddKept(op, subs[j], got[j])
      BY <1>4, <3>2, <3>3, Prompts
    <3>5. Len(got) = 1 /\ got[1] = FALSE
      BY <2>10
    <3>6. BddKept(op, a1, got[1])
      BY <3>2, <3>4, <3>5
    <3>7. ~ (f \subseteq g)
      BY <2>2, <2>6, <3>5, <3>6, ImplySides
    <3>8. BddKept(op, a, FALSE)
      BY <2>7, <3>7
    <3>9. QED
      BY <2>4, <3>1, <3>8, KeepPass
  <2>11. CASE got # <<FALSE>>
    <3>1. BddLoop(op, a, got) = Open(key, <<a1, a2>>, got, got[2])
      BY <2>3, <2>11
    <3>2. BddLoop(op, a, <<FALSE>>).kind # "ask"
      <4>1. BddLoop(op, a, <<FALSE>>) = Keep(key, FALSE)
        BY <2>3
      <4>2. QED
        BY <2>8, <4>1
    <3>3. ASSUME Len(got) = 2, BddKept(op, a1, got[1]), BddKept(op, a2, got[2])
          PROVE  BddKept(op, a, got[2])
      <4>1. got[1] # FALSE
        BY <1>4, <3>2, <3>3, FirstDidNotDecide
      <4>2. At(f, v, 0) \subseteq At(g, v, 0)
        BY <2>6, <3>3, <4>1
      <4>3. got[2] = (f \subseteq g)
        BY <2>2, <2>6, <3>3, <4>2, ImplySides
      <4>4. QED
        BY <2>7, <4>3
    <3>4. QED
      BY <1>4, <2>4, <2>5, <2>9, <3>1, <3>3, OpenTwo
  <2>12. QED
    BY <2>10, <2>11
<1>7. QED
  BY <1>5, <1>6

\* What a node on v depends on.
LEMMA BNodeDepends ==
  ASSUME NEW v \in Vars, NEW lo \in Booleans, NEW hi \in Booleans,
         \A w \in Depends(lo) \cup Depends(hi) : var2level[w] < var2level[v]
  PROVE  Depends(BNode(v, lo, hi)) \subseteq {v} \cup Depends(lo) \cup Depends(hi)
<1>1. /\ BNode(v, lo, hi) \in Booleans
      /\ \A s \in True : s \in BNode(v, lo, hi) <=> IF v \in s THEN s \in hi ELSE s \in lo
  BY BNodeIs
<1>2. ASSUME NEW w \in Vars, w # v, w \notin Depends(lo), w \notin Depends(hi)
      PROVE  w \notin Depends(BNode(v, lo, hi))
  <2>1. \A s \in True : (s \cup {w} \in lo <=> s \in lo) /\ (s \cup {w} \in hi <=> s \in hi)
    BY <1>2, Ignored
  <2>2. \A s \in True : s \cup {w} \in True /\ (v \in s \cup {w} <=> v \in s)
    BY <1>2 DEF True
  <2>3. \A s \in True : s \in BNode(v, lo, hi) <=> s \cup {w} \in BNode(v, lo, hi)
    BY <1>1, <2>1, <2>2
  <2>4. QED
    BY <1>1, <2>3, NotDepends
<1>3. Depends(BNode(v, lo, hi)) \subseteq Vars
  BY DEF Depends
<1>4. QED
  BY <1>2, <1>3

\* The shortcuts of the generalised cofactor.
LEMMA CofactorDecisionRight ==
  ASSUME NEW f \in Booleans, NEW g \in Booleans, CofactorDecided(f, g)
  PROVE  BddKept("bddcofactor", <<f, g>>, CofactorDecision(f, g))
<1>1. /\ False \in Booleans /\ True \in Booleans
      /\ Depends(False) = {} /\ Depends(True) = {}
  <2>1. False \in Booleans /\ True \in Booleans
    BY DEF False, Booleans
  <2>2. Constant(False) /\ Constant(True)
    BY DEF Constant
  <2>3. QED
    BY <2>1, <2>2, ConstantFacts
<1>2. f \subseteq True /\ g \subseteq True /\ bddnot(g) = True \ g
  BY NotFacts DEF Booleans
<1>3. CASE Constant(f)
  <2>1. CofactorDecision(f, g) = f
    BY <1>3 DEF CofactorDecision
  <2>2. QED
    BY <2>1, KeptCofactor
<1>4. CASE ~ Constant(f) /\ (g = False \/ f = bddnot(g))
  <2>1. CofactorDecision(f, g) = False
    BY <1>4 DEF CofactorDecision
  <2>2. f \cap g = {}
    BY <1>2, <1>4 DEF False
  <2>3. False \cap g = f \cap g
    BY <2>2 DEF False
  <2>4. QED
    BY <1>1, <2>1, <2>3, KeptCofactor
<1>5. CASE ~ Constant(f) /\ ~ (g = False \/ f = bddnot(g)) /\ f = g
  <2>1. CofactorDecision(f, g) = True
    BY <1>5 DEF CofactorDecision
  <2>2. True \cap g = f \cap g
    BY <1>2, <1>5
  <2>3. QED
    BY <1>1, <2>1, <2>2, KeptCofactor
<1>6. CASE ~ Constant(f) /\ ~ (g = False \/ f = bddnot(g)) /\ f # g
  <2>1. CofactorDecision(f, g) = f
    BY <1>6 DEF CofactorDecision
  <2>2. QED
    BY <2>1, KeptCofactor
<1>7. QED
  BY <1>3, <1>4, <1>5, <1>6

\* bddcofactor drops the side on which g never holds.
LEMMA CofactorRight ==
  ASSUME NEW a \in BddArgs("bddcofactor"), NEW got, Sequence(got), BddAsked("bddcofactor", a, got)
  PROVE  PassRight("bddcofactor", a, BddLoop("bddcofactor", a, got))
<1> DEFINE op == "bddcofactor"
<1>1. PICK f \in Booleans, g \in Booleans : a = <<f, g>>
  BY Arguments, OpsAre
<1>2. \A h : BddLoop(op, a, h) = bddcofactor_iter(<<f, g>>, h)
  BY <1>1, Bodies
<1>3. \A x, y, r : BddKept(op, <<x, y>>, r) <=>
                     /\ r \cap y = x \cap y
                     /\ r \in Booleans /\ Depends(r) \subseteq Depends(x) \cup Depends(y)
  BY KeptCofactor
<1>4. /\ \A x, y \in Booleans : <<x, y>> \in BddArgs(op)
      /\ BddAsked(op, a, got)
  BY Arguments, OpsAre
<1>a. CofactorDecided(f, g) => BddKept(op, <<f, g>>, CofactorDecision(f, g))
  BY CofactorDecisionRight
<1> SUFFICES PassRight(op, a, BddLoop(op, a, got))
  OBVIOUS
<1> HIDE DEF op
<1>5. CASE CofactorDecided(f, g)
  <2>1. BddLoop(op, a, got) = Answer(CofactorDecision(f, g))
    BY <1>2, <1>5 DEF bddcofactor_iter
  <2>2. BddKept(op, a, CofactorDecision(f, g))
    BY <1>1, <1>5, <1>a
  <2>3. QED
    BY <2>1, <2>2, AnswerPass
<1>6. CASE ~ CofactorDecided(f, g)
  <2>1. PICK v : v = HighestOf({f, g})
    OBVIOUS
  <2>2. /\ v \in Vars /\ Covers(v, f) /\ Covers(v, g)
        /\ v \in Depends(f) \cup Depends(g)
    <3>1. ~ Constant(f)
      BY <1>6 DEF CofactorDecided
    <3>2. {f, g} \in SUBSET Booleans
      OBVIOUS
    <3>3. /\ v \in Vars /\ \A k \in {f, g} : Covers(v, k)
          /\ \E k \in {f, g} : v \in Depends(k)
      BY <2>1, <3>1, <3>2, HighestFacts
    <3>4. QED
      BY <3>3
  <2> DEFINE f0 == At(f, v, 0)
             f1 == At(f, v, 1)
             g0 == At(g, v, 0)
             g1 == At(g, v, 1)
             a1 == <<f0, g0>>
             a2 == <<f1, g1>>
             key == {a}
  <2>3. /\ \A h : g0 = False => BddLoop(op, a, h) = Open(key, <<a2>>, h, h[1])
        /\ \A h : g0 # False /\ g1 = False =>
             BddLoop(op, a, h) = Open(key, <<a1>>, h, h[1])
        /\ \A h : g0 # False /\ g1 # False =>
             BddLoop(op, a, h) = Open(key, <<a1, a2>>, h, BNode(v, h[1], h[2]))
    BY <1>1, <1>2, <1>6, <2>1 DEF bddcofactor_iter
  <2>4. \A k \in key : \A r0 : BddKept(op, a, r0) => BddKept(op, k, r0)
    OBVIOUS
  <2>5. /\ f0 \in Booleans /\ f1 \in Booleans /\ g0 \in Booleans /\ g1 \in Booleans
        /\ \A s \in True : /\ s \in f <=> IF v \in s THEN s \in f1 ELSE s \in f0
                           /\ s \in g <=> IF v \in s THEN s \in g1 ELSE s \in g0
    BY <2>2, AtFacts
  <2>6. /\ Depends(f0) \subseteq Depends(f) /\ Depends(f1) \subseteq Depends(f)
        /\ Depends(g0) \subseteq Depends(g) /\ Depends(g1) \subseteq Depends(g)
    BY <2>2, AtDepends
  <2>7. /\ \A w \in Depends(f0) \cup Depends(g0) : var2level[w] < var2level[v]
        /\ \A w \in Depends(f1) \cup Depends(g1) : var2level[w] < var2level[v]
    BY <2>2, SidesBelow
  <2> HIDE DEF f0, f1, g0, g1
  <2>8. a1 \in BddArgs(op) /\ a2 \in BddArgs(op)
    BY <1>4, <2>5
  <2>9. /\ \A r : BddKept(op, a1, r) => /\ r \cap g0 = f0 \cap g0 /\ r \in Booleans
                                         /\ Depends(r) \subseteq Depends(f0) \cup Depends(g0)
        /\ \A r : BddKept(op, a2, r) => /\ r \cap g1 = f1 \cap g1 /\ r \in Booleans
                                         /\ Depends(r) \subseteq Depends(f1) \cup Depends(g1)
    BY <1>3
  <2>10. \A r : /\ r \cap g = f \cap g /\ r \in Booleans
                /\ Depends(r) \subseteq Depends(f) \cup Depends(g)
                => BddKept(op, a, r)
    BY <1>1, <1>3
  <2> HIDE DEF a1, a2, key
  <2>11. CASE g0 = False
    <3>1. ASSUME NEW r, BddKept(op, a2, r) PROVE BddKept(op, a, r)
      <4>1. /\ r \cap g1 = f1 \cap g1 /\ r \in Booleans
            /\ Depends(r) \subseteq Depends(f1) \cup Depends(g1)
        BY <2>9, <3>1
      <4>2. \A s \in True : s \in g => v \in s
        BY <2>5, <2>11 DEF False
      <4>3. \A s \in True : s \in r /\ s \in g <=> s \in f /\ s \in g
        BY <2>5, <4>1, <4>2
      <4>4. r \cap g = f \cap g
        BY <4>1, <4>3 DEF Booleans
      <4>5. Depends(r) \subseteq Depends(f) \cup Depends(g)
        BY <2>6, <4>1
      <4>6. QED
        BY <2>10, <4>1, <4>4, <4>5
    <3>2. \A h : BddLoop(op, a, h) = Open(key, <<a2>>, h, h[1])
      BY <2>3, <2>11
    <3>3. AsksOnly(op, a, key, <<a2>>)
      BY <3>2 DEF AsksOnly
    <3>4. BddLoop(op, a, got) = Open(key, <<a2>>, got, got[1])
      BY <3>2
    <3>5. QED
      BY <1>4, <2>4, <2>8, <3>1, <3>3, <3>4, OpenOne
  <2>12. CASE g0 # False /\ g1 = False
    <3>1. ASSUME NEW r, BddKept(op, a1, r) PROVE BddKept(op, a, r)
      <4>1. /\ r \cap g0 = f0 \cap g0 /\ r \in Booleans
            /\ Depends(r) \subseteq Depends(f0) \cup Depends(g0)
        BY <2>9, <3>1
      <4>2. \A s \in True : s \in g => v \notin s
        BY <2>5, <2>12 DEF False
      <4>3. \A s \in True : s \in r /\ s \in g <=> s \in f /\ s \in g
        BY <2>5, <4>1, <4>2
      <4>4. r \cap g = f \cap g
        BY <4>1, <4>3 DEF Booleans
      <4>5. Depends(r) \subseteq Depends(f) \cup Depends(g)
        BY <2>6, <4>1
      <4>6. QED
        BY <2>10, <4>1, <4>4, <4>5
    <3>2. \A h : BddLoop(op, a, h) = Open(key, <<a1>>, h, h[1])
      BY <2>3, <2>12
    <3>3. AsksOnly(op, a, key, <<a1>>)
      BY <3>2 DEF AsksOnly
    <3>4. BddLoop(op, a, got) = Open(key, <<a1>>, got, got[1])
      BY <3>2
    <3>5. QED
      BY <1>4, <2>4, <2>8, <3>1, <3>3, <3>4, OpenOne
  <2>13. CASE g0 # False /\ g1 # False
    <3>1. ASSUME NEW lo, BddKept(op, a1, lo), NEW hi, BddKept(op, a2, hi)
          PROVE  BddKept(op, a, BNode(v, lo, hi))
      <4>1. /\ lo \cap g0 = f0 \cap g0 /\ lo \in Booleans
            /\ Depends(lo) \subseteq Depends(f0) \cup Depends(g0)
            /\ hi \cap g1 = f1 \cap g1 /\ hi \in Booleans
            /\ Depends(hi) \subseteq Depends(f1) \cup Depends(g1)
        BY <2>9, <3>1
      <4>2. \A w \in Depends(lo) \cup Depends(hi) : var2level[w] < var2level[v]
        BY <2>7, <4>1
      <4>3. PICK r : r = BNode(v, lo, hi)
        OBVIOUS
      <4>4. /\ r \in Booleans
            /\ \A s \in True : s \in r <=> IF v \in s THEN s \in hi ELSE s \in lo
        BY <2>2, <4>1, <4>2, <4>3, BNodeIs
      <4>5. Depends(r) \subseteq {v} \cup Depends(lo) \cup Depends(hi)
        BY <2>2, <4>1, <4>2, <4>3, BNodeDepends
      <4>6. Depends(r) \subseteq Depends(f) \cup Depends(g)
        BY <2>2, <2>6, <4>1, <4>5
      <4>7. \A s \in True : s \in r /\ s \in g <=> s \in f /\ s \in g
        BY <2>5, <4>1, <4>4
      <4>8. r \cap g = f \cap g
        BY <4>4, <4>7 DEF Booleans
      <4>9. QED
        BY <2>10, <4>3, <4>4, <4>6, <4>8
    <3>2. \A h : BddLoop(op, a, h) = Open(key, <<a1, a2>>, h, BNode(v, h[1], h[2]))
      BY <2>3, <2>13
    <3>3. AsksOnly(op, a, key, <<a1, a2>>)
      BY <3>2 DEF AsksOnly
    <3>4. PICK r : r = BNode(v, got[1], got[2])
      OBVIOUS
    <3>5. BddLoop(op, a, got) = Open(key, <<a1, a2>>, got, r)
      BY <3>2, <3>4
    <3>6. BddKept(op, a1, got[1]) /\ BddKept(op, a2, got[2]) => BddKept(op, a, r)
      BY <3>1, <3>4
    <3>7. QED
      BY <1>4, <2>4, <2>8, <3>3, <3>5, <3>6, OpenTwo
  <2>14. QED
    BY <2>11, <2>12, <2>13
<1>7. QED
  BY <1>5, <1>6

\* The number of variables in which two assignments differ.
Distance(s, t) == Cardinality(SymDiff(s, t))

LEMMA SizeFacts ==
  ASSUME NEW A \in True, NEW B, NEW x
  PROVE  /\ IsFiniteSet(A) /\ Cardinality(A) \in Nat
         /\ Cardinality(A) = 0 <=> A = {}
         /\ B \subseteq A => Cardinality(B) \in Nat /\ Cardinality(B) <= Cardinality(A)
         /\ B \subseteq A \cup {x} => Cardinality(B) <= Cardinality(A) + 1
         /\ x \in A /\ B \subseteq A \ {x} => Cardinality(B) <= Cardinality(A) - 1
<1>1. IsFiniteSet(A) /\ Cardinality(A) \in Nat
  <2>1. IsFiniteSet(Vars) /\ A \subseteq Vars
    BY FamilyAssumption DEF True
  <2>2. QED
    BY <2>1, FS_Subset, FS_CardinalityType
<1>2. Cardinality(A) = 0 <=> A = {}
  BY <1>1, FS_EmptySet
<1>3. ASSUME B \subseteq A PROVE Cardinality(B) \in Nat /\ Cardinality(B) <= Cardinality(A)
  BY <1>1, <1>3, FS_Subset, FS_CardinalityType
<1>4. ASSUME B \subseteq A \cup {x} PROVE Cardinality(B) <= Cardinality(A) + 1
  <2>1. /\ IsFiniteSet(A \cup {x}) /\ Cardinality(A \cup {x}) \in Nat
        /\ Cardinality(A \cup {x}) <= Cardinality(A) + 1
    BY <1>1, FS_AddElement, FS_CardinalityType
  <2>2. Cardinality(B) <= Cardinality(A \cup {x}) /\ Cardinality(B) \in Nat
    BY <1>4, <2>1, FS_Subset, FS_CardinalityType
  <2>3. QED
    BY <1>1, <2>1, <2>2
<1>5. ASSUME x \in A, B \subseteq A \ {x} PROVE Cardinality(B) <= Cardinality(A) - 1
  <2>1. IsFiniteSet(A \ {x}) /\ Cardinality(A \ {x}) = Cardinality(A) - 1
    BY <1>1, <1>5, FS_RemoveElement
  <2>2. Cardinality(B) <= Cardinality(A \ {x})
    BY <1>5, <2>1, FS_Subset
  <2>3. QED
    BY <2>1, <2>2
<1>6. QED
  BY <1>1, <1>2, <1>3, <1>4, <1>5

LEMMA DistanceFacts ==
  ASSUME NEW s \in True, NEW t \in True, NEW x \in Vars
  PROVE  /\ Distance(s, t) \in Nat
         /\ Distance(s, t) = 0 <=> s = t
         /\ Distance(s \cup {x}, t \cup {x}) <= Distance(s, t)
         /\ Distance(s \ {x}, t \ {x}) <= Distance(s, t)
         /\ x \notin s => /\ Distance(s, t \ {x}) <= Distance(s, t)
                          /\ x \in t => Distance(s, t \ {x}) <= Distance(s, t) - 1
                          /\ Distance(s, t \cup {x}) <= Distance(s, t) + 1
         /\ x \in s => /\ Distance(s, t \cup {x}) <= Distance(s, t)
                       /\ x \notin t => Distance(s, t \cup {x}) <= Distance(s, t) - 1
                       /\ Distance(s, t \ {x}) <= Distance(s, t) + 1
<1> DEFINE A == SymDiff(s, t)
<1>1. A \in True
  BY DEF SymDiff, True
<1>2. /\ A = {} <=> s = t
      /\ SymDiff(s \cup {x}, t \cup {x}) \subseteq A
      /\ SymDiff(s \ {x}, t \ {x}) \subseteq A
  BY DEF SymDiff
<1>3. /\ x \notin s => SymDiff(s, t \ {x}) \subseteq A
      /\ x \notin s /\ x \in t => x \in A /\ SymDiff(s, t \ {x}) \subseteq A \ {x}
      /\ x \notin s => SymDiff(s, t \cup {x}) \subseteq A \cup {x}
  BY DEF SymDiff
<1>4. /\ x \in s => SymDiff(s, t \cup {x}) \subseteq A
      /\ x \in s /\ x \notin t => x \in A /\ SymDiff(s, t \cup {x}) \subseteq A \ {x}
      /\ x \in s => SymDiff(s, t \ {x}) \subseteq A \cup {x}
  BY DEF SymDiff
<1> HIDE DEF A
<1>5. /\ Cardinality(A) \in Nat /\ (Cardinality(A) = 0 <=> s = t)
      /\ Cardinality(SymDiff(s \cup {x}, t \cup {x})) <= Cardinality(A)
      /\ Cardinality(SymDiff(s \ {x}, t \ {x})) <= Cardinality(A)
  BY <1>1, <1>2, SizeFacts
<1>6. /\ x \notin s => Cardinality(SymDiff(s, t \ {x})) <= Cardinality(A)
      /\ x \notin s /\ x \in t => Cardinality(SymDiff(s, t \ {x})) <= Cardinality(A) - 1
      /\ x \notin s => Cardinality(SymDiff(s, t \cup {x})) <= Cardinality(A) + 1
  BY <1>1, <1>3, SizeFacts
<1>7. /\ x \in s => Cardinality(SymDiff(s, t \cup {x})) <= Cardinality(A)
      /\ x \in s /\ x \notin t => Cardinality(SymDiff(s, t \cup {x})) <= Cardinality(A) - 1
      /\ x \in s => Cardinality(SymDiff(s, t \ {x})) <= Cardinality(A) + 1
  BY <1>1, <1>4, SizeFacts
<1>8. QED
  BY <1>5, <1>6, <1>7 DEF Distance, A

\* The assignments within distance k of f.
Near(f, k) == {s \in True : \E t \in f : Distance(s, t) <= k}

LEMMA NearFacts ==
  ASSUME NEW f \in Booleans, NEW k \in Nat
  PROVE  /\ Near(f, k) \in Booleans /\ Depends(Near(f, k)) \subseteq Depends(f)
         /\ Constant(f) => Near(f, k) = f
         /\ k = 0 => Near(f, k) = f
<1>1. Near(f, k) \in Booleans
  BY DEF Near, Booleans
<1>2. \A s, t \in True : Distance(s, t) \in Nat /\ (Distance(s, t) = 0 <=> s = t)
  <2> SUFFICES ASSUME NEW s \in True, NEW t \in True
               PROVE  Distance(s, t) \in Nat /\ (Distance(s, t) = 0 <=> s = t)
    OBVIOUS
  <2>1. SymDiff(s, t) \in True /\ (SymDiff(s, t) = {} <=> s = t)
    BY DEF SymDiff, True
  <2>2. QED
    BY <2>1, SizeFacts DEF Distance
<1>3. ASSUME NEW v \in Vars, v \notin Depends(f) PROVE v \notin Depends(Near(f, k))
  <2>1. ASSUME NEW s \in True, v \notin s, s \in Near(f, k) PROVE s \cup {v} \in Near(f, k)
    <3>1. PICK t \in f : Distance(s, t) <= k
      BY <2>1 DEF Near
    <3>2. t \in True /\ s \cup {v} \in True /\ t \cup {v} \in True
      BY DEF Booleans, True
    <3>3. t \cup {v} \in f
      BY <1>3, <3>2, Ignored
    <3>4. Distance(s \cup {v}, t \cup {v}) <= Distance(s, t)
      BY <3>2, DistanceFacts
    <3>5. Distance(s, t) \in Nat /\ Distance(s \cup {v}, t \cup {v}) \in Nat
      BY <1>2, <3>2
    <3>6. Distance(s \cup {v}, t \cup {v}) <= k
      BY <3>1, <3>4, <3>5
    <3>7. QED
      BY <3>2, <3>3, <3>6 DEF Near
  <2>2. ASSUME NEW s \in True, v \notin s, s \cup {v} \in Near(f, k) PROVE s \in Near(f, k)
    <3>1. PICK t \in f : Distance(s \cup {v}, t) <= k
      BY <2>2 DEF Near
    <3>2. t \in True /\ s \cup {v} \in True /\ t \ {v} \in True
      BY DEF Booleans, True
    <3>3. t \ {v} \in f
      BY <1>3, <3>2, Ignored
    <3>4. Distance((s \cup {v}) \ {v}, t \ {v}) <= Distance(s \cup {v}, t)
      BY <3>2, DistanceFacts
    <3>5. (s \cup {v}) \ {v} = s
      BY <2>2
    <3>6. Distance(s \cup {v}, t) \in Nat /\ Distance(s, t \ {v}) \in Nat
      BY <1>2, <3>2
    <3>7. Distance(s, t \ {v}) <= k
      BY <3>1, <3>4, <3>5, <3>6
    <3>8. QED
      BY <3>3, <3>7 DEF Near
  <2>3. QED
    BY <1>1, <1>3, <2>1, <2>2, NotDepends
<1>4. Depends(Near(f, k)) \subseteq Depends(f)
  BY <1>3 DEF Depends
<1>5. f \subseteq Near(f, k)
  <2> SUFFICES ASSUME NEW s \in f PROVE s \in Near(f, k)
    OBVIOUS
  <2>1. s \in True
    BY DEF Booleans
  <2>2. Distance(s, s) = 0 /\ 0 <= k
    BY <1>2, <2>1
  <2>3. QED
    BY <2>1, <2>2 DEF Near
<1>6. ASSUME Constant(f) PROVE Near(f, k) = f
  <2>1. CASE f = {}
    BY <2>1 DEF Near
  <2>2. CASE f = True
    BY <1>1, <1>5, <2>2 DEF Booleans
  <2>3. QED
    BY <1>6, <2>1, <2>2 DEF Constant, False
<1>7. ASSUME k = 0 PROVE Near(f, k) = f
  <2> SUFFICES ASSUME NEW s \in Near(f, k) PROVE s \in f
    BY <1>5
  <2>1. PICK t \in f : Distance(s, t) <= k /\ s \in True /\ t \in True
    BY DEF Near, Booleans
  <2>2. Distance(s, t) = 0
    BY <1>2, <1>7, <2>1
  <2>3. QED
    BY <1>2, <2>1, <2>2
<1>8. QED
  BY <1>1, <1>4, <1>6, <1>7

\* Changing a variable on which the two agree or differ.
LEMMA Steps ==
  ASSUME NEW s \in True, NEW t \in True, NEW x \in Vars, NEW k \in Nat
  PROVE  /\ x \notin s /\ Distance(s, t) <= k => Distance(s, t \ {x}) <= k
         /\ x \notin s /\ x \in t /\ Distance(s, t) <= k => Distance(s, t \ {x}) <= k - 1
         /\ x \notin s /\ Distance(s, t) <= k - 1 => Distance(s, t \cup {x}) <= k
         /\ x \in s /\ Distance(s, t) <= k => Distance(s, t \cup {x}) <= k
         /\ x \in s /\ x \notin t /\ Distance(s, t) <= k => Distance(s, t \cup {x}) <= k - 1
         /\ x \in s /\ Distance(s, t) <= k - 1 => Distance(s, t \ {x}) <= k
<1>1. PICK d, off, on :
        d = Distance(s, t) /\ off = Distance(s, t \ {x}) /\ on = Distance(s, t \cup {x})
  OBVIOUS
<1>2. t \ {x} \in True /\ t \cup {x} \in True
  BY DEF True
<1>3. d \in Nat /\ off \in Nat /\ on \in Nat
  BY <1>1, <1>2, DistanceFacts
<1>4. /\ x \notin s => off <= d /\ (x \in t => off <= d - 1) /\ on <= d + 1
      /\ x \in s => on <= d /\ (x \notin t => on <= d - 1) /\ off <= d + 1
  BY <1>1, DistanceFacts
<1>5. /\ x \notin s /\ d <= k => off <= k
      /\ x \notin s /\ x \in t /\ d <= k => off <= k - 1
      /\ x \notin s /\ d <= k - 1 => on <= k
      /\ x \in s /\ d <= k => on <= k
      /\ x \in s /\ x \notin t /\ d <= k => on <= k - 1
      /\ x \in s /\ d <= k - 1 => off <= k
  BY <1>3, <1>4
<1>6. QED
  BY <1>1, <1>5

\* From the sides of f by x: the far side costs one step.
LEMMA NearSides ==
  ASSUME NEW f \in Booleans, NEW x \in Vars, NEW k \in Nat, k # 0, NEW s \in True
  PROVE  s \in Near(f, k) <=>
           IF x \in s THEN s \in Near(At(f, x, 1), k) \/ s \in Near(At(f, x, 0), k - 1)
                      ELSE s \in Near(At(f, x, 0), k) \/ s \in Near(At(f, x, 1), k - 1)
<1>1. /\ At(f, x, 0) \in Booleans /\ At(f, x, 1) \in Booleans
      /\ \A t \in True : /\ t \in At(f, x, 0) <=> t \ {x} \in f
                         /\ t \in At(f, x, 1) <=> t \cup {x} \in f
                         /\ t \ {x} \in True /\ t \cup {x} \in True
      /\ \A t \in True : t \in f <=> IF x \in t THEN t \in At(f, x, 1)
                                                ELSE t \in At(f, x, 0)
  BY AtFacts
<1>a. f \subseteq True /\ At(f, x, 0) \subseteq True /\ At(f, x, 1) \subseteq True
  BY <1>1 DEF Booleans
<1>b. \A t \in True : /\ t \ {x} \in At(f, x, 1) <=> t \in At(f, x, 1)
                      /\ t \cup {x} \in At(f, x, 0) <=> t \in At(f, x, 0)
  <2> SUFFICES ASSUME NEW t \in True
               PROVE  /\ t \ {x} \in At(f, x, 1) <=> t \in At(f, x, 1)
                      /\ t \cup {x} \in At(f, x, 0) <=> t \in At(f, x, 0)
    OBVIOUS
  <2>1. (t \ {x}) \cup {x} = t \cup {x} /\ (t \cup {x}) \ {x} = t \ {x}
    OBVIOUS
  <2>2. QED
    BY <1>1, <2>1
<1>4. CASE x \notin s
  <2>1. ASSUME s \in Near(f, k)
        PROVE  s \in Near(At(f, x, 0), k) \/ s \in Near(At(f, x, 1), k - 1)
    <3>1. PICK t \in f : Distance(s, t) <= k /\ t \in True
      BY <1>a, <2>1 DEF Near
    <3>2. CASE x \notin t
      <4>1. t \in At(f, x, 0)
        BY <1>1, <3>1, <3>2
      <4>2. QED
        BY <3>1, <4>1 DEF Near
    <3>3. CASE x \in t
      <4>1. t \ {x} \in At(f, x, 1)
        BY <1>1, <1>b, <3>1, <3>3
      <4>2. Distance(s, t \ {x}) <= k - 1
        BY <1>4, <3>1, <3>3, Steps
      <4>3. QED
        BY <4>1, <4>2 DEF Near
    <3>4. QED
      BY <3>2, <3>3
  <2>2. ASSUME s \in Near(At(f, x, 0), k) PROVE s \in Near(f, k)
    <3>1. PICK t \in At(f, x, 0) : Distance(s, t) <= k /\ t \in True
      BY <1>a, <2>2 DEF Near
    <3>2. t \ {x} \in f
      BY <1>1, <3>1
    <3>3. Distance(s, t \ {x}) <= k
      BY <1>4, <3>1, Steps
    <3>4. QED
      BY <3>2, <3>3 DEF Near
  <2>3. ASSUME s \in Near(At(f, x, 1), k - 1) PROVE s \in Near(f, k)
    <3>1. PICK t \in At(f, x, 1) : Distance(s, t) <= k - 1 /\ t \in True
      BY <1>a, <2>3 DEF Near
    <3>2. t \cup {x} \in f
      BY <1>1, <3>1
    <3>3. Distance(s, t \cup {x}) <= k
      BY <1>4, <3>1, Steps
    <3>4. QED
      BY <3>2, <3>3 DEF Near
  <2>4. QED
    BY <1>4, <2>1, <2>2, <2>3
<1>5. CASE x \in s
  <2>1. ASSUME s \in Near(f, k)
        PROVE  s \in Near(At(f, x, 1), k) \/ s \in Near(At(f, x, 0), k - 1)
    <3>1. PICK t \in f : Distance(s, t) <= k /\ t \in True
      BY <1>a, <2>1 DEF Near
    <3>2. CASE x \in t
      <4>1. t \in At(f, x, 1)
        BY <1>1, <3>1, <3>2
      <4>2. QED
        BY <3>1, <4>1 DEF Near
    <3>3. CASE x \notin t
      <4>1. t \cup {x} \in At(f, x, 0)
        BY <1>1, <1>b, <3>1, <3>3
      <4>2. Distance(s, t \cup {x}) <= k - 1
        BY <1>5, <3>1, <3>3, Steps
      <4>3. QED
        BY <4>1, <4>2 DEF Near
    <3>4. QED
      BY <3>2, <3>3
  <2>2. ASSUME s \in Near(At(f, x, 1), k) PROVE s \in Near(f, k)
    <3>1. PICK t \in At(f, x, 1) : Distance(s, t) <= k /\ t \in True
      BY <1>a, <2>2 DEF Near
    <3>2. t \cup {x} \in f
      BY <1>1, <3>1
    <3>3. Distance(s, t \cup {x}) <= k
      BY <1>5, <3>1, Steps
    <3>4. QED
      BY <3>2, <3>3 DEF Near
  <2>3. ASSUME s \in Near(At(f, x, 0), k - 1) PROVE s \in Near(f, k)
    <3>1. PICK t \in At(f, x, 0) : Distance(s, t) <= k - 1 /\ t \in True
      BY <1>a, <2>3 DEF Near
    <3>2. t \ {x} \in f
      BY <1>1, <3>1
    <3>3. Distance(s, t \ {x}) <= k
      BY <1>5, <3>1, Steps
    <3>4. QED
      BY <3>2, <3>3 DEF Near
  <2>4. QED
    BY <1>5, <2>1, <2>2, <2>3
<1>6. QED
  BY <1>4, <1>5

\* bddspread joins the near sides with the far ones at one step less.
LEMMA SpreadRight ==
  ASSUME NEW a \in BddArgs("bddspread"), NEW got, Sequence(got), BddAsked("bddspread", a, got)
  PROVE  PassRight("bddspread", a, BddLoop("bddspread", a, got))
<1> DEFINE op == "bddspread"
<1>1. PICK f \in Booleans, k \in Nat : a = <<f, k>>
  BY Arguments, OpsAre
<1>2. \A h : BddLoop(op, a, h) = bddspread_iter(<<f, k>>, h)
  BY <1>1, Bodies
<1>3. \A g, n, r : BddKept(op, <<g, n>>, r) <=> r = Near(g, n)
  BY KeptSpread DEF Near, Distance
<1>4. /\ \A g \in Booleans, n \in Nat : <<g, n>> \in BddArgs(op)
      /\ BddAsked(op, a, got)
  BY Arguments, OpsAre DEF BddFits
<1> SUFFICES PassRight(op, a, BddLoop(op, a, got))
  OBVIOUS
<1> HIDE DEF op
<1>5. CASE Constant(f) \/ k = 0
  <2>1. BddLoop(op, a, got) = Answer(f)
    BY <1>2, <1>5 DEF bddspread_iter
  <2>2. BddKept(op, a, f)
    BY <1>1, <1>3, <1>5, NearFacts
  <2>3. QED
    BY <2>1, <2>2, AnswerPass
<1>6. CASE ~ (Constant(f) \/ k = 0)
  <2> DEFINE x == Top(f)
             lo == Lo0(f)
             hi == Hi1(f)
             a1 == <<lo, k>>
             a2 == <<hi, k>>
             a3 == <<lo, k - 1>>
             a4 == <<hi, k - 1>>
             key == {a}
             r == BNode(x, got[1] \cup got[4], got[2] \cup got[3])
  <2>1. \A h : BddLoop(op, a, h) = Open(key, <<a1, a2, a3, a4>>, h,
                                        BNode(x, h[1] \cup h[4], h[2] \cup h[3]))
    BY <1>1, <1>2, <1>6 DEF bddspread_iter
  <2>2. /\ x \in Vars /\ Covers(x, f) /\ lo = At(f, x, 0) /\ hi = At(f, x, 1)
    BY <1>6, TopFacts
  <2>3. lo \in Booleans /\ hi \in Booleans
    BY <2>2, AtFacts
  <2>4. \A w \in Depends(lo) \cup Depends(hi) : var2level[w] < var2level[x]
    BY <2>2, SidesBelow
  <2>5. \A t \in True : t \in Near(f, k) <=>
          IF x \in t THEN t \in Near(hi, k) \/ t \in Near(lo, k - 1)
                     ELSE t \in Near(lo, k) \/ t \in Near(hi, k - 1)
    BY <1>6, <2>2, NearSides
  <2>6. k - 1 \in Nat
    BY <1>6
  <2>7. BddLoop(op, a, got) = Open(key, <<a1, a2, a3, a4>>, got, r)
    BY <2>1
  <2>8. \A j \in key : \A r0 : BddKept(op, a, r0) => BddKept(op, j, r0)
    OBVIOUS
  <2> HIDE DEF x, lo, hi, key
  <2>9. /\ a1 \in BddArgs(op) /\ a2 \in BddArgs(op)
        /\ a3 \in BddArgs(op) /\ a4 \in BddArgs(op)
    BY <1>4, <2>3, <2>6
  <2>10. AsksOnly(op, a, key, <<a1, a2, a3, a4>>)
    BY <2>1 DEF AsksOnly
  <2>11. ASSUME BddKept(op, a1, got[1]), BddKept(op, a2, got[2]),
                BddKept(op, a3, got[3]), BddKept(op, a4, got[4])
         PROVE  BddKept(op, a, r)
    <3>1. /\ got[1] = Near(lo, k) /\ got[2] = Near(hi, k)
          /\ got[3] = Near(lo, k - 1) /\ got[4] = Near(hi, k - 1)
      BY <1>3, <2>11
    <3> DEFINE l == Near(lo, k) \cup Near(hi, k - 1)
               u == Near(hi, k) \cup Near(lo, k - 1)
    <3>2. /\ Near(lo, k) \in Booleans /\ Near(hi, k - 1) \in Booleans
          /\ Near(hi, k) \in Booleans /\ Near(lo, k - 1) \in Booleans
          /\ Depends(Near(lo, k)) \subseteq Depends(lo)
          /\ Depends(Near(hi, k - 1)) \subseteq Depends(hi)
          /\ Depends(Near(hi, k)) \subseteq Depends(hi)
          /\ Depends(Near(lo, k - 1)) \subseteq Depends(lo)
      BY <2>3, <2>6, NearFacts
    <3>3. l \in Booleans /\ Depends(l) \subseteq Depends(lo) \cup Depends(hi)
      <4>1. l \in Booleans /\ Depends(l) \subseteq Depends(Near(lo, k))
                                                  \cup Depends(Near(hi, k - 1))
        BY <3>2, JoinDepends
      <4>2. QED
        BY <3>2, <4>1
    <3>4. u \in Booleans /\ Depends(u) \subseteq Depends(lo) \cup Depends(hi)
      <4>1. u \in Booleans /\ Depends(u) \subseteq Depends(Near(hi, k))
                                                  \cup Depends(Near(lo, k - 1))
        BY <3>2, JoinDepends
      <4>2. QED
        BY <3>2, <4>1
    <3>5. \A t \in True : t \in Near(f, k) <=> IF x \in t THEN t \in u ELSE t \in l
      BY <2>5
    <3>6. r = BNode(x, l, u)
      BY <3>1
    <3> HIDE DEF l, u
    <3>7. Near(f, k) \in Booleans
      BY NearFacts
    <3>8. BNode(x, l, u) = Near(f, k)
      BY <2>2, <2>4, <3>3, <3>4, <3>5, <3>7, BNodeMakes
    <3>9. QED
      BY <1>1, <1>3, <3>6, <3>8
  <2> HIDE DEF a1, a2, a3, a4, r
  <2>12. QED
    BY <1>4, <2>7, <2>8, <2>9, <2>10, <2>11, OpenFour
<1>7. QED
  BY <1>5, <1>6

\* Quantification over a set W of variables.
LEMMA ExistsIs ==
  ASSUME NEW f \in Booleans, NEW W
  PROVE  /\ Exists(f, W) \in Booleans
         /\ \A s \in True : s \in Exists(f, W) <=> \E t \in f : SymDiff(s, t) \subseteq W
         /\ \A t \in f : t \in True
BY DEF Exists, Elsewhere, Booleans

LEMMA ExistsFacts ==
  ASSUME NEW f \in Booleans, NEW W \in SUBSET Vars
  PROVE  /\ Depends(Exists(f, W)) \subseteq Depends(f)
         /\ Constant(f) => Exists(f, W) = f
         /\ W = {} => Exists(f, W) = f
<1>1. /\ Exists(f, W) \in Booleans
      /\ \A s \in True : s \in Exists(f, W) <=> \E t \in f : SymDiff(s, t) \subseteq W
      /\ \A t \in f : t \in True
  BY ExistsIs
<1>2. ASSUME NEW v \in Vars, v \notin Depends(f) PROVE v \notin Depends(Exists(f, W))
  <2> SUFFICES ASSUME NEW s \in True, v \notin s
               PROVE  s \in Exists(f, W) <=> s \cup {v} \in Exists(f, W)
    BY <1>1, <1>2, NotDepends
  <2>1. s \cup {v} \in True
    BY DEF True
  <2>2. ASSUME NEW t \in f, SymDiff(s, t) \subseteq W PROVE s \cup {v} \in Exists(f, W)
    <3>1. t \cup {v} \in f
      BY <1>1, <1>2, Ignored
    <3>2. SymDiff(s \cup {v}, t \cup {v}) \subseteq W
      BY <2>2 DEF SymDiff
    <3>3. QED
      BY <1>1, <2>1, <3>1, <3>2
  <2>3. ASSUME NEW t \in f, SymDiff(s \cup {v}, t) \subseteq W PROVE s \in Exists(f, W)
    <3>1. t \ {v} \in f
      BY <1>1, <1>2, Ignored
    <3>2. SymDiff(s, t \ {v}) \subseteq W
      BY <2>3 DEF SymDiff
    <3>3. QED
      BY <1>1, <3>1, <3>2
  <2>4. QED
    BY <1>1, <2>1, <2>2, <2>3
<1>3. Depends(Exists(f, W)) \subseteq Depends(f)
  BY <1>2 DEF Depends
<1>4. f \subseteq Exists(f, W)
  <2>1. \A s : SymDiff(s, s) \subseteq W
    BY DEF SymDiff
  <2>2. QED
    BY <1>1, <2>1
<1>5. ASSUME Constant(f) PROVE Exists(f, W) = f
  <2>1. CASE f = {}
    BY <1>1, <2>1 DEF Booleans
  <2>2. CASE f = True
    BY <1>1, <1>4, <2>2 DEF Booleans
  <2>3. QED
    BY <1>5, <2>1, <2>2 DEF Constant, False
<1>6. ASSUME W = {} PROVE Exists(f, W) = f
  <2>1. \A s, t \in True : SymDiff(s, t) \subseteq {} => s = t
    BY DEF SymDiff
  <2>2. \A s \in True : s \in Exists(f, W) => s \in f
    BY <1>1, <1>6, <2>1
  <2>3. QED
    BY <1>1, <1>4, <2>2 DEF Booleans
<1>7. QED
  BY <1>3, <1>5, <1>6

\* A variable that f ignores need not be quantified.
LEMMA ExistsIgnored ==
  ASSUME NEW f \in Booleans, NEW W \in SUBSET Vars, NEW v \in Vars, v \notin Depends(f)
  PROVE  Exists(f, W \ {v}) = Exists(f, W)
<1>1. /\ Exists(f, W) \in Booleans /\ Exists(f, W \ {v}) \in Booleans
      /\ \A s \in True : s \in Exists(f, W) <=> \E t \in f : SymDiff(s, t) \subseteq W
      /\ \A s \in True : s \in Exists(f, W \ {v}) <=>
                           \E t \in f : SymDiff(s, t) \subseteq W \ {v}
      /\ \A t \in f : t \in True
  <2>1. PICK U : U = W \ {v}
    OBVIOUS
  <2>2. /\ Exists(f, U) \in Booleans
        /\ \A s \in True : s \in Exists(f, U) <=> \E t \in f : SymDiff(s, t) \subseteq U
    BY ExistsIs
  <2>3. /\ Exists(f, W) \in Booleans
        /\ \A s \in True : s \in Exists(f, W) <=> \E t \in f : SymDiff(s, t) \subseteq W
        /\ \A t \in f : t \in True
    BY ExistsIs
  <2>4. QED
    BY <2>1, <2>2, <2>3
<1>2. ASSUME NEW s \in True, NEW t \in f, SymDiff(s, t) \subseteq W
      PROVE  s \in Exists(f, W \ {v})
  <2>1. t \cup {v} \in f /\ t \ {v} \in f
    BY <1>1, Ignored
  <2>2. CASE v \in s
    <3>1. SymDiff(s, t \cup {v}) \subseteq W \ {v}
      BY <1>2, <2>2 DEF SymDiff
    <3>2. QED
      BY <1>1, <2>1, <3>1
  <2>3. CASE v \notin s
    <3>1. SymDiff(s, t \ {v}) \subseteq W \ {v}
      BY <1>2, <2>3 DEF SymDiff
    <3>2. QED
      BY <1>1, <2>1, <3>1
  <2>4. QED
    BY <2>2, <2>3
<1>3. \A s \in True : s \in Exists(f, W) <=> s \in Exists(f, W \ {v})
  <2>1. \A s, t : SymDiff(s, t) \subseteq W \ {v} => SymDiff(s, t) \subseteq W
    OBVIOUS
  <2>2. QED
    BY <1>1, <1>2, <2>1
<1>4. QED
  BY <1>1, <1>3 DEF Booleans

\* A variable outside W is left where it is.
LEMMA ExistsSides ==
  ASSUME NEW f \in Booleans, NEW W \in SUBSET Vars, NEW x \in Vars, x \notin W,
         NEW s \in True
  PROVE  s \in Exists(f, W) <=> IF x \in s THEN s \in Exists(At(f, x, 1), W)
                                           ELSE s \in Exists(At(f, x, 0), W)
<1>1. /\ At(f, x, 0) \in Booleans /\ At(f, x, 1) \in Booleans
      /\ \A t \in True : t \in f <=> IF x \in t THEN t \in At(f, x, 1)
                                                ELSE t \in At(f, x, 0)
  BY AtFacts
<1>2. /\ s \in Exists(f, W) <=> \E t \in f : SymDiff(s, t) \subseteq W
      /\ s \in Exists(At(f, x, 0), W) <=> \E t \in At(f, x, 0) : SymDiff(s, t) \subseteq W
      /\ s \in Exists(At(f, x, 1), W) <=> \E t \in At(f, x, 1) : SymDiff(s, t) \subseteq W
      /\ f \subseteq True /\ At(f, x, 0) \subseteq True /\ At(f, x, 1) \subseteq True
  BY <1>1, ExistsIs DEF Booleans
<1>3. \A t \in True : SymDiff(s, t) \subseteq W => (x \in t <=> x \in s)
  BY DEF SymDiff
<1>4. QED
  BY <1>1, <1>2, <1>3

\* A variable of W may take either value.
LEMMA ExistsJoins ==
  ASSUME NEW f \in Booleans, NEW W \in SUBSET Vars, NEW v \in W
  PROVE  Exists(f, W) = Exists(At(f, v, 0), W \ {v}) \cup Exists(At(f, v, 1), W \ {v})
<1> DEFINE f0 == At(f, v, 0)
           f1 == At(f, v, 1)
           U == W \ {v}
<1>0. v \in Vars
  OBVIOUS
<1>1. /\ f0 \in Booleans /\ f1 \in Booleans
      /\ \A t \in True : /\ t \in f0 <=> t \ {v} \in f
                         /\ t \in f1 <=> t \cup {v} \in f
                         /\ t \ {v} \in True /\ t \cup {v} \in True
      /\ \A t \in True : t \in f <=> IF v \in t THEN t \in f1 ELSE t \in f0
  BY <1>0, AtFacts
<1>2. v \notin Depends(f0) /\ v \notin Depends(f1)
  BY <1>0, AtDepends
<1> HIDE DEF f0, f1
<1>3. Exists(f0, U) = Exists(f0, W) /\ Exists(f1, U) = Exists(f1, W)
  BY <1>0, <1>1, <1>2, ExistsIgnored
<1>4. /\ Exists(f, W) \in Booleans /\ Exists(f0, W) \in Booleans /\ Exists(f1, W) \in Booleans
      /\ \A s \in True : /\ s \in Exists(f, W) <=> \E t \in f : SymDiff(s, t) \subseteq W
                         /\ s \in Exists(f0, W) <=> \E t \in f0 : SymDiff(s, t) \subseteq W
                         /\ s \in Exists(f1, W) <=> \E t \in f1 : SymDiff(s, t) \subseteq W
      /\ f \subseteq True /\ f0 \subseteq True /\ f1 \subseteq True
  <2>1. \A g \in Booleans : /\ Exists(g, W) \in Booleans /\ g \subseteq True
                            /\ \A s \in True : s \in Exists(g, W) <=>
                                               \E t \in g : SymDiff(s, t) \subseteq W
    BY ExistsIs DEF Booleans
  <2>2. QED
    BY <1>1, <2>1
<1>5. \A s, t \in True : SymDiff(s, t) \subseteq W => /\ SymDiff(s, t \ {v}) \subseteq W
                                                     /\ SymDiff(s, t \cup {v}) \subseteq W
  BY DEF SymDiff
<1>6. ASSUME NEW s \in True
      PROVE  s \in Exists(f, W) <=> s \in Exists(f0, W) \/ s \in Exists(f1, W)
  <2>1. ASSUME NEW t \in f, SymDiff(s, t) \subseteq W
        PROVE  s \in Exists(f0, W) \/ s \in Exists(f1, W)
    BY <1>1, <1>4, <2>1
  <2>2. ASSUME NEW t \in f0, SymDiff(s, t) \subseteq W PROVE s \in Exists(f, W)
    <3>1. t \in True /\ t \ {v} \in f
      BY <1>1, <1>4
    <3>2. SymDiff(s, t \ {v}) \subseteq W
      BY <1>5, <2>2, <3>1
    <3>3. QED
      BY <1>4, <3>1, <3>2
  <2>3. ASSUME NEW t \in f1, SymDiff(s, t) \subseteq W PROVE s \in Exists(f, W)
    <3>1. t \in True /\ t \cup {v} \in f
      BY <1>1, <1>4
    <3>2. SymDiff(s, t \cup {v}) \subseteq W
      BY <1>5, <2>3, <3>1
    <3>3. QED
      BY <1>4, <3>1, <3>2
  <2>4. QED
    BY <1>4, <2>1, <2>2, <2>3
<1>7. Exists(f, W) = Exists(f0, W) \cup Exists(f1, W)
  BY <1>4, <1>6 DEF Booleans
<1>8. QED
  BY <1>3, <1>7 DEF f0, f1

\* The universal quantifier is the existential one of the negation, negated.
LEMMA ForAllIs ==
  ASSUME NEW f \in Booleans, NEW W \in SUBSET Vars
  PROVE  ForAll(f, W) = True \ Exists(True \ f, W)
<1>1. \A s \in True : Elsewhere(s, W) \subseteq True
  BY DEF Elsewhere
<1>2. \A s \in True : Elsewhere(s, W) \subseteq f <=> Elsewhere(s, W) \cap (True \ f) = {}
  BY <1>1
<1>3. QED
  BY <1>2 DEF ForAll, Exists

LEMMA AtNot ==
  ASSUME NEW f \in Booleans, NEW v \in Vars
  PROVE  /\ At(True \ f, v, 0) = True \ At(f, v, 0)
         /\ At(True \ f, v, 1) = True \ At(f, v, 1)
         /\ True \ f \in Booleans /\ True \ (True \ f) = f /\ Depends(True \ f) = Depends(f)
<1>1. \A s \in True : s \ {v} \in True /\ s \cup {v} \in True
  BY DEF True
<1>2. /\ At(f, v, 0) = {s \in True : s \ {v} \in f}
      /\ At(f, v, 1) = {s \in True : s \cup {v} \in f}
      /\ At(True \ f, v, 0) = {s \in True : s \ {v} \in True \ f}
      /\ At(True \ f, v, 1) = {s \in True : s \cup {v} \in True \ f}
  BY DEF At
<1>3. /\ At(True \ f, v, 0) = True \ At(f, v, 0)
      /\ At(True \ f, v, 1) = True \ At(f, v, 1)
  BY <1>1, <1>2
<1>4. /\ True \ f \in Booleans /\ True \ (True \ f) = f /\ Depends(True \ f) = Depends(f)
  BY NotFacts DEF Booleans
<1>5. QED
  BY <1>3, <1>4

LEMMA ForAllFacts ==
  ASSUME NEW f \in Booleans, NEW W \in SUBSET Vars
  PROVE  /\ ForAll(f, W) \in Booleans
         /\ Depends(ForAll(f, W)) \subseteq Depends(f)
         /\ Constant(f) => ForAll(f, W) = f
         /\ W = {} => ForAll(f, W) = f
         /\ \A v \in Vars : v \notin Depends(f) => ForAll(f, W \ {v}) = ForAll(f, W)
         /\ \A x \in Vars : x \notin W => \A s \in True :
              s \in ForAll(f, W) <=> IF x \in s THEN s \in ForAll(At(f, x, 1), W)
                                                ELSE s \in ForAll(At(f, x, 0), W)
         /\ \A v \in W :
              ForAll(f, W) = ForAll(At(f, v, 0), W \ {v}) \cap ForAll(At(f, v, 1), W \ {v})
<1> DEFINE n == True \ f
           e == Exists(n, W)
<1>1. /\ n \in Booleans /\ True \ n = f /\ Depends(n) = Depends(f) /\ f \subseteq True
      /\ ForAll(f, W) = True \ e
  BY NotFacts, ForAllIs DEF Booleans
<1>2. e \in Booleans /\ Depends(e) \subseteq Depends(n)
  BY <1>1, ExistsIs, ExistsFacts
<1> HIDE DEF e
<1>3. True \ e \in Booleans /\ Depends(True \ e) = Depends(e)
  <2>1. bddnot(e) = True \ e /\ bddnot(e) \in Booleans /\ Depends(bddnot(e)) = Depends(e)
    BY <1>2, NotFacts
  <2>2. QED
    BY <2>1
<1>4. ASSUME Constant(f) PROVE ForAll(f, W) = f
  <2>1. Constant(n)
    BY <1>1, <1>4, ConstantFacts
  <2>2. QED
    BY <1>1, <2>1, ExistsFacts DEF e
<1>5. ASSUME W = {} PROVE ForAll(f, W) = f
  <2>1. e = n
    BY <1>1, <1>5, ExistsFacts DEF e
  <2>2. QED
    BY <1>1, <2>1
<1>6. ASSUME NEW v \in Vars, v \notin Depends(f) PROVE ForAll(f, W \ {v}) = ForAll(f, W)
  <2>1. Exists(n, W \ {v}) = e
    BY <1>1, <1>6, ExistsIgnored DEF e
  <2>2. ForAll(f, W \ {v}) = True \ Exists(n, W \ {v})
    BY ForAllIs
  <2>3. QED
    BY <1>1, <2>1, <2>2
<1>7. ASSUME NEW x \in Vars, x \notin W, NEW s \in True
      PROVE  s \in ForAll(f, W) <=> IF x \in s THEN s \in ForAll(At(f, x, 1), W)
                                                ELSE s \in ForAll(At(f, x, 0), W)
  <2>1. s \in e <=> IF x \in s THEN s \in Exists(At(n, x, 1), W)
                               ELSE s \in Exists(At(n, x, 0), W)
    BY <1>1, <1>7, ExistsSides DEF e
  <2>2. /\ At(n, x, 0) = True \ At(f, x, 0) /\ At(n, x, 1) = True \ At(f, x, 1)
        /\ At(f, x, 0) \in Booleans /\ At(f, x, 1) \in Booleans
    BY AtNot, AtFacts
  <2>3. /\ ForAll(At(f, x, 0), W) = True \ Exists(At(n, x, 0), W)
        /\ ForAll(At(f, x, 1), W) = True \ Exists(At(n, x, 1), W)
    BY <2>2, ForAllIs
  <2>4. QED
    BY <1>1, <2>1, <2>3
<1>8. ASSUME NEW v \in W
      PROVE  ForAll(f, W) = ForAll(At(f, v, 0), W \ {v}) \cap ForAll(At(f, v, 1), W \ {v})
  <2>1. e = Exists(At(n, v, 0), W \ {v}) \cup Exists(At(n, v, 1), W \ {v})
    BY <1>1, ExistsJoins DEF e
  <2>2. /\ At(n, v, 0) = True \ At(f, v, 0) /\ At(n, v, 1) = True \ At(f, v, 1)
        /\ At(f, v, 0) \in Booleans /\ At(f, v, 1) \in Booleans
    BY AtNot, AtFacts
  <2>3. /\ ForAll(At(f, v, 0), W \ {v}) = True \ Exists(At(n, v, 0), W \ {v})
        /\ ForAll(At(f, v, 1), W \ {v}) = True \ Exists(At(n, v, 1), W \ {v})
    BY <2>2, ForAllIs
  <2>4. QED
    BY <1>1, <2>1, <2>3
<1>9. QED
  BY <1>1, <1>2, <1>3, <1>4, <1>5, <1>6, <1>7, <1>8

\* A variable set is the disjunction of its variables, or its negation.
CubeOf(U) == {s \in True : s \cap U # {}}

LEMMA CubeFacts ==
  ASSUME NEW U \in SUBSET Vars
  PROVE  /\ CubeOf(U) \in Booleans /\ Depends(CubeOf(U)) = U
         /\ CubeOf(U) \in Cubes /\ bddnot(CubeOf(U)) \in Cubes
         /\ {} \notin CubeOf(U) /\ (CubeOf(U) = False <=> U = {})
         /\ \A v \in Vars : At(CubeOf(U), v, 0) = CubeOf(U \ {v})
<1>1. CubeOf(U) \in Booleans
  BY DEF CubeOf, Booleans
<1>2. {} \in True /\ \A v \in Vars : {v} \in True
  BY DEF True
<1>3. ASSUME NEW v \in U PROVE v \in Depends(CubeOf(U)) /\ {v} \in CubeOf(U)
  <2>1. {v} \in CubeOf(U) /\ Flip({v}, v) = {} /\ {} \notin CubeOf(U)
    BY <1>2 DEF CubeOf, Flip
  <2>2. QED
    BY <2>1 DEF Depends
<1>4. ASSUME NEW v \in Vars, v \notin U PROVE v \notin Depends(CubeOf(U))
  <2>1. \A s \in True : s \cup {v} \in True /\ (s \cup {v}) \cap U = s \cap U
    BY <1>4 DEF True
  <2>2. \A s \in True : s \in CubeOf(U) <=> s \cup {v} \in CubeOf(U)
    BY <2>1 DEF CubeOf
  <2>3. QED
    BY <1>1, <2>2, NotDepends
<1>5. Depends(CubeOf(U)) = U
  <2>1. Depends(CubeOf(U)) \subseteq Vars
    BY DEF Depends
  <2>2. QED
    BY <1>3, <1>4, <2>1
<1>6. CubeOf(U) \in Cubes /\ bddnot(CubeOf(U)) \in Cubes
  BY DEF Cubes, CubeOf
<1>7. {} \notin CubeOf(U) /\ (CubeOf(U) = False <=> U = {})
  BY <1>3 DEF CubeOf, False
<1>8. ASSUME NEW v \in Vars PROVE At(CubeOf(U), v, 0) = CubeOf(U \ {v})
  <2>1. \A s \in True : s \ {v} \in True /\ (s \ {v}) \cap U = s \cap (U \ {v})
    BY DEF True
  <2>2. At(CubeOf(U), v, 0) = {s \in True : s \ {v} \in CubeOf(U)}
    BY DEF At
  <2>3. \A s \in True : s \ {v} \in CubeOf(U) <=> s \in CubeOf(U \ {v})
    BY <2>1 DEF CubeOf
  <2>4. QED
    BY <2>2, <2>3 DEF CubeOf
<1>9. QED
  BY <1>1, <1>5, <1>6, <1>7, <1>8

\* Stripping the complement bit of a variable set gives the disjunction.
LEMMA StripIs ==
  ASSUME NEW c \in Cubes
  PROVE  /\ Depends(c) \in SUBSET Vars /\ Strip(c) = CubeOf(Depends(c))
<1>1. PICK U \in SUBSET Vars : c = CubeOf(U) \/ c = bddnot(CubeOf(U))
  BY DEF Cubes, CubeOf
<1>2. /\ CubeOf(U) \in Booleans /\ Depends(CubeOf(U)) = U /\ {} \notin CubeOf(U)
  BY CubeFacts
<1>3. /\ bddnot(bddnot(CubeOf(U))) = CubeOf(U) /\ bddnot(CubeOf(U)) = True \ CubeOf(U)
      /\ Depends(bddnot(CubeOf(U))) = Depends(CubeOf(U))
  BY <1>2, NotFacts
<1>4. {} \in True
  BY DEF True
<1>5. CASE c = CubeOf(U)
  BY <1>2, <1>5 DEF Strip, Comp
<1>6. CASE c = bddnot(CubeOf(U))
  BY <1>2, <1>3, <1>4, <1>6 DEF Strip, Comp
<1>7. QED
  BY <1>1, <1>5, <1>6

\* bddexist drops the variables of the set that f is below, and joins at the others.
LEMMA ExistRight ==
  ASSUME NEW a \in BddArgs("bddexist"), NEW got, Sequence(got), BddAsked("bddexist", a, got)
  PROVE  PassRight("bddexist", a, BddLoop("bddexist", a, got))
<1> DEFINE op == "bddexist"
<1>1. PICK f \in Booleans, c \in Cubes : a = <<f, c>>
  BY Arguments, OpsAre
<1>2. \A h : BddLoop(op, a, h) = bddexist_iter(<<f, c>>, h)
  BY <1>1, Bodies
<1>3. \A x, y, r : BddKept(op, <<x, y>>, r) <=> r = Exists(x, Depends(y))
  BY KeptSets DEF MembersOf
<1>4. /\ \A x \in Booleans, y \in Cubes : <<x, y>> \in BddArgs(op)
      /\ BddAsked(op, a, got)
  BY Arguments, OpsAre
<1> SUFFICES PassRight(op, a, BddLoop(op, a, got))
  OBVIOUS
<1> HIDE DEF op
<1>5. PICK U \in SUBSET Vars : U = Depends(c) /\ Strip(c) = CubeOf(U)
  BY StripIs
<1>6. PICK g : g = CubeOf(U)
  OBVIOUS
<1>7. /\ g \in Booleans /\ Depends(g) = U /\ g \in Cubes /\ bddnot(g) \in Cubes
      /\ {} \notin g /\ (g = False <=> U = {})
      /\ Depends(bddnot(g)) = U
  BY <1>6, CubeFacts, NotFacts
<1>8. \A v \in U : /\ At(g, v, 0) \in Cubes /\ Depends(At(g, v, 0)) = U \ {v}
                   /\ U \ {v} \in SUBSET Vars
  <2> SUFFICES ASSUME NEW v \in U
               PROVE  /\ At(g, v, 0) \in Cubes /\ Depends(At(g, v, 0)) = U \ {v}
                      /\ U \ {v} \in SUBSET Vars
    OBVIOUS
  <2>1. PICK W : W = U \ {v}
    OBVIOUS
  <2>2. W \in SUBSET Vars /\ v \in Vars
    BY <2>1
  <2>3. CubeOf(W) \in Cubes /\ Depends(CubeOf(W)) = W
    BY <2>2, CubeFacts
  <2>4. At(CubeOf(U), v, 0) = CubeOf(U \ {v})
    BY <2>2, CubeFacts
  <2>5. QED
    BY <1>6, <2>1, <2>2, <2>3, <2>4
<1>9. BddKept(op, a, Exists(f, U)) /\ \A r : BddKept(op, a, r) <=> r = Exists(f, U)
  BY <1>1, <1>3, <1>5
<1> DEFINE key == {<<f, g>>, <<f, bddnot(g)>>}
<1>10. \A k \in key : \A r : BddKept(op, a, r) => BddKept(op, k, r)
  <2>1. \A r : BddKept(op, <<f, g>>, r) <=> r = Exists(f, U)
    BY <1>3, <1>7
  <2>2. \A r : BddKept(op, <<f, bddnot(g)>>, r) <=> r = Exists(f, U)
    BY <1>3, <1>7
  <2>3. QED
    BY <1>9, <2>1, <2>2
<1>11. CASE g = False \/ Constant(f)
  <2>1. BddLoop(op, a, got) = Answer(f)
    BY <1>2, <1>5, <1>6, <1>11 DEF bddexist_iter
  <2>2. Exists(f, U) = f
    BY <1>7, <1>11, ExistsIs, ExistsFacts
  <2>3. QED
    BY <1>9, <2>1, <2>2, AnswerPass
<1> DEFINE Nodes == ~ (g = False \/ Constant(f))
<1>12. ASSUME Nodes PROVE ~ Constant(f) /\ ~ Constant(g)
  <2>1. {} \in True
    BY DEF True
  <2>2. QED
    BY <1>7, <1>12, <2>1 DEF Constant
<1>13. LevelIn(f) \in Nat /\ LevelIn(g) \in Nat
  BY <1>7, LevelFacts
<1>14. CASE Nodes /\ LevelIn(g) > LevelIn(f)
  <2> DEFINE v == Top(g)
             a1 == <<f, Lo0(g)>>
  <2>1. \A h : BddLoop(op, a, h) = Open(key, <<a1>>, h, h[1])
    BY <1>2, <1>5, <1>6, <1>14 DEF bddexist_iter
  <2>2. v \in Vars /\ v \in U /\ Lo0(g) = At(g, v, 0) /\ LevelIn(g) = LevelOf(v)
    BY <1>7, <1>12, <1>14, TopFacts
  <2>3. v \notin Depends(f)
    <3>1. LevelIn(f) < LevelOf(v)
      BY <1>13, <1>14, <2>2
    <3>2. QED
      BY <2>2, <3>1, HigherIgnored
  <2> HIDE DEF v
  <2>4. Exists(f, U \ {v}) = Exists(f, U)
    BY <2>2, <2>3, ExistsIgnored
  <2>5. a1 \in BddArgs(op) /\ \A r : BddKept(op, a1, r) => BddKept(op, a, r)
    <3>1. Lo0(g) \in Cubes /\ Depends(Lo0(g)) = U \ {v}
      BY <1>8, <2>2
    <3>2. QED
      BY <1>3, <1>4, <1>9, <2>4, <3>1
  <2> HIDE DEF a1, key
  <2>6. AsksOnly(op, a, key, <<a1>>)
    BY <2>1 DEF AsksOnly
  <2>7. BddLoop(op, a, got) = Open(key, <<a1>>, got, got[1])
    BY <2>1
  <2>8. QED
    BY <1>4, <1>10, <2>5, <2>6, <2>7, OpenOne
<1>15. CASE Nodes /\ LevelIn(f) > LevelIn(g)
  <2> DEFINE x == Top(f)
             lo == Lo0(f)
             hi == Hi1(f)
             a1 == <<lo, g>>
             a2 == <<hi, g>>
             r == BNode(x, got[1], got[2])
  <2>1. ~ (LevelIn(g) > LevelIn(f))
    BY <1>13, <1>15
  <2>2. \A h : BddLoop(op, a, h) = Open(key, <<a1, a2>>, h, BNode(x, h[1], h[2]))
    BY <1>2, <1>5, <1>6, <1>15, <2>1 DEF bddexist_iter
  <2>3. /\ x \in Vars /\ Covers(x, f) /\ lo = At(f, x, 0) /\ hi = At(f, x, 1)
        /\ LevelIn(f) = LevelOf(x)
    BY <1>12, <1>15, TopFacts
  <2>4. BddLoop(op, a, got) = Open(key, <<a1, a2>>, got, r)
    BY <2>2
  <2> HIDE DEF x, lo, hi
  <2>5. x \notin U
    <3>1. LevelIn(g) < LevelOf(x)
      BY <1>13, <1>15, <2>3
    <3>2. QED
      BY <1>7, <2>3, <3>1, HigherIgnored
  <2>6. /\ lo \in Booleans /\ hi \in Booleans
        /\ \A w \in Depends(lo) \cup Depends(hi) : var2level[w] < var2level[x]
    BY <2>3, AtFacts, SidesBelow
  <2>7. /\ Exists(lo, U) \in Booleans /\ Depends(Exists(lo, U)) \subseteq Depends(lo)
        /\ Exists(hi, U) \in Booleans /\ Depends(Exists(hi, U)) \subseteq Depends(hi)
        /\ Exists(f, U) \in Booleans
    BY <2>6, ExistsIs, ExistsFacts
  <2>8. \A s \in True : s \in Exists(f, U) <=> IF x \in s THEN s \in Exists(hi, U)
                                                        ELSE s \in Exists(lo, U)
    BY <2>3, <2>5, ExistsSides
  <2>9. BNode(x, Exists(lo, U), Exists(hi, U)) = Exists(f, U)
    BY <2>3, <2>6, <2>7, <2>8, BNodeMakes
  <2>10. a1 \in BddArgs(op) /\ a2 \in BddArgs(op)
    BY <1>4, <1>7, <2>6
  <2>11. BddKept(op, a1, got[1]) /\ BddKept(op, a2, got[2]) => BddKept(op, a, r)
    <3>1. ASSUME BddKept(op, a1, got[1]), BddKept(op, a2, got[2]) PROVE BddKept(op, a, r)
      <4>1. got[1] = Exists(lo, U) /\ got[2] = Exists(hi, U)
        BY <1>3, <1>7, <3>1
      <4>2. r = Exists(f, U)
        BY <2>9, <4>1
      <4>3. QED
        BY <1>9, <4>2
    <3>2. QED
      BY <3>1
  <2> HIDE DEF a1, a2, r, key
  <2>12. AsksOnly(op, a, key, <<a1, a2>>)
    BY <2>2 DEF AsksOnly
  <2>13. QED
    BY <1>4, <1>10, <2>4, <2>10, <2>11, <2>12, OpenTwo
<1>16. CASE Nodes /\ LevelIn(f) = LevelIn(g)
  <2> DEFINE v == Top(g)
             a1 == <<Lo0(f), Lo0(g)>>
             a2 == <<Hi1(f), Lo0(g)>>
             r == got[1] \cup got[2]
  <2>1. ~ (LevelIn(g) > LevelIn(f)) /\ ~ (LevelIn(f) > LevelIn(g))
    BY <1>13, <1>16
  <2>2. \A h : BddLoop(op, a, h) = Open(key, <<a1, a2>>, h, h[1] \cup h[2])
    BY <1>2, <1>5, <1>6, <1>16, <2>1 DEF bddexist_iter
  <2>3. v \in Vars /\ v \in U /\ Lo0(g) = At(g, v, 0)
    BY <1>7, <1>12, <1>16, TopFacts
  <2>4. Lo0(f) = At(f, v, 0) /\ Hi1(f) = At(f, v, 1)
    BY <1>16 DEF Lo0, Hi1, Top
  <2> HIDE DEF v
  <2>5. /\ Lo0(f) \in Booleans /\ Hi1(f) \in Booleans
        /\ Lo0(g) \in Cubes /\ Depends(Lo0(g)) = U \ {v}
    BY <1>8, <2>3, <2>4, AtFacts
  <2>6. Exists(f, U) = Exists(Lo0(f), U \ {v}) \cup Exists(Hi1(f), U \ {v})
    BY <2>3, <2>4, ExistsJoins
  <2>7. a1 \in BddArgs(op) /\ a2 \in BddArgs(op)
    BY <1>4, <2>5
  <2>8. BddKept(op, a1, got[1]) /\ BddKept(op, a2, got[2]) => BddKept(op, a, r)
    <3>1. ASSUME BddKept(op, a1, got[1]), BddKept(op, a2, got[2]) PROVE BddKept(op, a, r)
      <4>1. got[1] = Exists(Lo0(f), U \ {v}) /\ got[2] = Exists(Hi1(f), U \ {v})
        BY <1>3, <2>5, <3>1
      <4>2. QED
        BY <1>9, <2>6, <4>1
    <3>2. QED
      BY <3>1
  <2>9. BddLoop(op, a, got) = Open(key, <<a1, a2>>, got, r)
    BY <2>2
  <2> HIDE DEF a1, a2, r, key
  <2>10. AsksOnly(op, a, key, <<a1, a2>>)
    BY <2>2 DEF AsksOnly
  <2>11. QED
    BY <1>4, <1>10, <2>7, <2>8, <2>9, <2>10, OpenTwo
<1>17. LevelIn(g) > LevelIn(f) \/ LevelIn(f) > LevelIn(g) \/ LevelIn(f) = LevelIn(g)
  BY <1>13
<1>18. QED
  BY <1>11, <1>14, <1>15, <1>16, <1>17

\* bdduniv does the same and meets.
LEMMA UnivRight ==
  ASSUME NEW a \in BddArgs("bdduniv"), NEW got, Sequence(got), BddAsked("bdduniv", a, got)
  PROVE  PassRight("bdduniv", a, BddLoop("bdduniv", a, got))
<1> DEFINE op == "bdduniv"
<1>1. PICK f \in Booleans, c \in Cubes : a = <<f, c>>
  BY Arguments, OpsAre
<1>2. \A h : BddLoop(op, a, h) = bdduniv_iter(<<f, c>>, h)
  BY <1>1, Bodies
<1>3. \A x, y, r : BddKept(op, <<x, y>>, r) <=> r = ForAll(x, Depends(y))
  BY KeptSets DEF MembersOf
<1>4. /\ \A x \in Booleans, y \in Cubes : <<x, y>> \in BddArgs(op)
      /\ BddAsked(op, a, got)
  BY Arguments, OpsAre
<1> SUFFICES PassRight(op, a, BddLoop(op, a, got))
  OBVIOUS
<1> HIDE DEF op
<1>5. PICK U \in SUBSET Vars : U = Depends(c) /\ Strip(c) = CubeOf(U)
  BY StripIs
<1>6. PICK g : g = CubeOf(U)
  OBVIOUS
<1>7. /\ g \in Booleans /\ Depends(g) = U /\ g \in Cubes /\ bddnot(g) \in Cubes
      /\ {} \notin g /\ (g = False <=> U = {})
      /\ Depends(bddnot(g)) = U
  BY <1>6, CubeFacts, NotFacts
<1>8. \A v \in U : /\ At(g, v, 0) \in Cubes /\ Depends(At(g, v, 0)) = U \ {v}
                   /\ U \ {v} \in SUBSET Vars
  <2> SUFFICES ASSUME NEW v \in U
               PROVE  /\ At(g, v, 0) \in Cubes /\ Depends(At(g, v, 0)) = U \ {v}
                      /\ U \ {v} \in SUBSET Vars
    OBVIOUS
  <2>1. PICK W : W = U \ {v}
    OBVIOUS
  <2>2. W \in SUBSET Vars /\ v \in Vars
    BY <2>1
  <2>3. CubeOf(W) \in Cubes /\ Depends(CubeOf(W)) = W
    BY <2>2, CubeFacts
  <2>4. At(CubeOf(U), v, 0) = CubeOf(U \ {v})
    BY <2>2, CubeFacts
  <2>5. QED
    BY <1>6, <2>1, <2>2, <2>3, <2>4
<1>9. BddKept(op, a, ForAll(f, U)) /\ \A r : BddKept(op, a, r) <=> r = ForAll(f, U)
  BY <1>1, <1>3, <1>5
<1> DEFINE key == {<<f, g>>, <<f, bddnot(g)>>}
<1>10. \A k \in key : \A r : BddKept(op, a, r) => BddKept(op, k, r)
  <2>1. \A r : BddKept(op, <<f, g>>, r) <=> r = ForAll(f, U)
    BY <1>3, <1>7
  <2>2. \A r : BddKept(op, <<f, bddnot(g)>>, r) <=> r = ForAll(f, U)
    BY <1>3, <1>7
  <2>3. QED
    BY <1>9, <2>1, <2>2
<1>11. CASE g = False \/ Constant(f)
  <2>1. BddLoop(op, a, got) = Answer(f)
    BY <1>2, <1>5, <1>6, <1>11 DEF bdduniv_iter
  <2>2. ForAll(f, U) = f
    BY <1>7, <1>11, ForAllFacts
  <2>3. QED
    BY <1>9, <2>1, <2>2, AnswerPass
<1> DEFINE Nodes == ~ (g = False \/ Constant(f))
<1>12. ASSUME Nodes PROVE ~ Constant(f) /\ ~ Constant(g)
  <2>1. {} \in True
    BY DEF True
  <2>2. QED
    BY <1>7, <1>12, <2>1 DEF Constant
<1>13. LevelIn(f) \in Nat /\ LevelIn(g) \in Nat
  BY <1>7, LevelFacts
<1>14. CASE Nodes /\ LevelIn(g) > LevelIn(f)
  <2> DEFINE v == Top(g)
             a1 == <<f, Lo0(g)>>
  <2>1. \A h : BddLoop(op, a, h) = Open(key, <<a1>>, h, h[1])
    BY <1>2, <1>5, <1>6, <1>14 DEF bdduniv_iter
  <2>2. v \in Vars /\ v \in U /\ Lo0(g) = At(g, v, 0) /\ LevelIn(g) = LevelOf(v)
    BY <1>7, <1>12, <1>14, TopFacts
  <2>3. v \notin Depends(f)
    <3>1. LevelIn(f) < LevelOf(v)
      BY <1>13, <1>14, <2>2
    <3>2. QED
      BY <2>2, <3>1, HigherIgnored
  <2> HIDE DEF v
  <2>4. ForAll(f, U \ {v}) = ForAll(f, U)
    BY <2>2, <2>3, ForAllFacts
  <2>5. a1 \in BddArgs(op) /\ \A r : BddKept(op, a1, r) => BddKept(op, a, r)
    <3>1. Lo0(g) \in Cubes /\ Depends(Lo0(g)) = U \ {v}
      BY <1>8, <2>2
    <3>2. QED
      BY <1>3, <1>4, <1>9, <2>4, <3>1
  <2> HIDE DEF a1, key
  <2>6. AsksOnly(op, a, key, <<a1>>)
    BY <2>1 DEF AsksOnly
  <2>7. BddLoop(op, a, got) = Open(key, <<a1>>, got, got[1])
    BY <2>1
  <2>8. QED
    BY <1>4, <1>10, <2>5, <2>6, <2>7, OpenOne
<1>15. CASE Nodes /\ LevelIn(f) > LevelIn(g)
  <2> DEFINE x == Top(f)
             lo == Lo0(f)
             hi == Hi1(f)
             a1 == <<lo, g>>
             a2 == <<hi, g>>
             r == BNode(x, got[1], got[2])
  <2>1. ~ (LevelIn(g) > LevelIn(f))
    BY <1>13, <1>15
  <2>2. \A h : BddLoop(op, a, h) = Open(key, <<a1, a2>>, h, BNode(x, h[1], h[2]))
    BY <1>2, <1>5, <1>6, <1>15, <2>1 DEF bdduniv_iter
  <2>3. /\ x \in Vars /\ Covers(x, f) /\ lo = At(f, x, 0) /\ hi = At(f, x, 1)
        /\ LevelIn(f) = LevelOf(x)
    BY <1>12, <1>15, TopFacts
  <2>4. BddLoop(op, a, got) = Open(key, <<a1, a2>>, got, r)
    BY <2>2
  <2> HIDE DEF x, lo, hi
  <2>5. x \notin U
    <3>1. LevelIn(g) < LevelOf(x)
      BY <1>13, <1>15, <2>3
    <3>2. QED
      BY <1>7, <2>3, <3>1, HigherIgnored
  <2>6. /\ lo \in Booleans /\ hi \in Booleans
        /\ \A w \in Depends(lo) \cup Depends(hi) : var2level[w] < var2level[x]
    BY <2>3, AtFacts, SidesBelow
  <2>7. /\ ForAll(lo, U) \in Booleans /\ Depends(ForAll(lo, U)) \subseteq Depends(lo)
        /\ ForAll(hi, U) \in Booleans /\ Depends(ForAll(hi, U)) \subseteq Depends(hi)
        /\ ForAll(f, U) \in Booleans
    BY <2>6, ForAllFacts
  <2>8. \A s \in True : s \in ForAll(f, U) <=> IF x \in s THEN s \in ForAll(hi, U)
                                                        ELSE s \in ForAll(lo, U)
    BY <2>3, <2>5, ForAllFacts
  <2>9. BNode(x, ForAll(lo, U), ForAll(hi, U)) = ForAll(f, U)
    BY <2>3, <2>6, <2>7, <2>8, BNodeMakes
  <2>10. a1 \in BddArgs(op) /\ a2 \in BddArgs(op)
    BY <1>4, <1>7, <2>6
  <2>11. BddKept(op, a1, got[1]) /\ BddKept(op, a2, got[2]) => BddKept(op, a, r)
    <3>1. ASSUME BddKept(op, a1, got[1]), BddKept(op, a2, got[2]) PROVE BddKept(op, a, r)
      <4>1. got[1] = ForAll(lo, U) /\ got[2] = ForAll(hi, U)
        BY <1>3, <1>7, <3>1
      <4>2. r = ForAll(f, U)
        BY <2>9, <4>1
      <4>3. QED
        BY <1>9, <4>2
    <3>2. QED
      BY <3>1
  <2> HIDE DEF a1, a2, r, key
  <2>12. AsksOnly(op, a, key, <<a1, a2>>)
    BY <2>2 DEF AsksOnly
  <2>13. QED
    BY <1>4, <1>10, <2>4, <2>10, <2>11, <2>12, OpenTwo
<1>16. CASE Nodes /\ LevelIn(f) = LevelIn(g)
  <2> DEFINE v == Top(g)
             a1 == <<Lo0(f), Lo0(g)>>
             a2 == <<Hi1(f), Lo0(g)>>
             r == got[1] \cap got[2]
  <2>1. ~ (LevelIn(g) > LevelIn(f)) /\ ~ (LevelIn(f) > LevelIn(g))
    BY <1>13, <1>16
  <2>2. \A h : BddLoop(op, a, h) = Open(key, <<a1, a2>>, h, h[1] \cap h[2])
    BY <1>2, <1>5, <1>6, <1>16, <2>1 DEF bdduniv_iter
  <2>3. v \in Vars /\ v \in U /\ Lo0(g) = At(g, v, 0)
    BY <1>7, <1>12, <1>16, TopFacts
  <2>4. Lo0(f) = At(f, v, 0) /\ Hi1(f) = At(f, v, 1)
    BY <1>16 DEF Lo0, Hi1, Top
  <2> HIDE DEF v
  <2>5. /\ Lo0(f) \in Booleans /\ Hi1(f) \in Booleans
        /\ Lo0(g) \in Cubes /\ Depends(Lo0(g)) = U \ {v}
    BY <1>8, <2>3, <2>4, AtFacts
  <2>6. ForAll(f, U) = ForAll(Lo0(f), U \ {v}) \cap ForAll(Hi1(f), U \ {v})
    BY <2>3, <2>4, ForAllFacts
  <2>7. a1 \in BddArgs(op) /\ a2 \in BddArgs(op)
    BY <1>4, <2>5
  <2>8. BddKept(op, a1, got[1]) /\ BddKept(op, a2, got[2]) => BddKept(op, a, r)
    <3>1. ASSUME BddKept(op, a1, got[1]), BddKept(op, a2, got[2]) PROVE BddKept(op, a, r)
      <4>1. got[1] = ForAll(Lo0(f), U \ {v}) /\ got[2] = ForAll(Hi1(f), U \ {v})
        BY <1>3, <2>5, <3>1
      <4>2. QED
        BY <1>9, <2>6, <4>1
    <3>2. QED
      BY <3>1
  <2>9. BddLoop(op, a, got) = Open(key, <<a1, a2>>, got, r)
    BY <2>2
  <2> HIDE DEF a1, a2, r, key
  <2>10. AsksOnly(op, a, key, <<a1, a2>>)
    BY <2>2 DEF AsksOnly
  <2>11. QED
    BY <1>4, <1>10, <2>7, <2>8, <2>9, <2>10, OpenTwo
<1>17. LevelIn(g) > LevelIn(f) \/ LevelIn(f) > LevelIn(g) \/ LevelIn(f) = LevelIn(g)
  BY <1>13
<1>18. QED
  BY <1>11, <1>14, <1>15, <1>16, <1>17

\* Levels and variables correspond to each other.
LEMMA Orders ==
  /\ Cardinality(Vars) \in Nat /\ Vars = 1..Cardinality(Vars)
  /\ \A v \in Vars : LevelOf(v) \in Vars /\ VarOf(LevelOf(v)) = v
  /\ \A v, w \in Vars : LevelOf(v) = LevelOf(w) => v = w
  /\ \A n \in Vars : VarOf(n) \in Vars /\ LevelOf(VarOf(n)) = n
<1>1. Cardinality(Vars) \in Nat /\ Vars = 1..Cardinality(Vars)
  BY FamilyAssumption, FS_CardinalityType
<1>2. \A v \in Vars : LevelOf(v) = var2level[v] /\ LevelOf(v) \in Vars
  BY FamilyAssumption DEF LevelOf, Vars
<1>3. \A v, w \in Vars : LevelOf(v) = LevelOf(w) => v = w
  BY <1>2, FamilyAssumption
<1>4. \A v \in Vars : VarOf(LevelOf(v)) = v
  BY <1>2, <1>3 DEF VarOf, Vars
<1>5. var2level \in Injection(Vars, Vars)
  BY FamilyAssumption DEF Injection, IsInjective
<1>6. var2level \in Surjection(Vars, Vars)
  BY <1>5, FamilyAssumption, FS_Injection
<1>7. \A n \in Vars : VarOf(n) \in Vars /\ LevelOf(VarOf(n)) = n
  BY <1>2, <1>6 DEF VarOf, Vars, Surjection
<1>8. QED
  BY <1>1, <1>2, <1>3, <1>4, <1>7

\* An assignment before its variables moved up by k levels.
Back(s, k) == {VarOf(LevelOf(v) - k) : v \in {v \in s : LevelOf(v) - k \in Vars}}

LEMMA BackIs ==
  ASSUME NEW s \in True, NEW k \in Int
  PROVE  /\ Back(s, k) \in True
         /\ \A x \in Vars : x \in Back(s, k) <=> \E y \in s : LevelOf(y) = LevelOf(x) + k
<1>1. /\ \A v \in Vars : LevelOf(v) \in Int
      /\ \A y \in s : y \in Vars
  BY Orders DEF True
<1>2. Back(s, k) \in True
  BY <1>1, Orders DEF Back, True
<1>3. ASSUME NEW x \in Vars, x \in Back(s, k) PROVE \E y \in s : LevelOf(y) = LevelOf(x) + k
  <2>1. PICK y \in s : LevelOf(y) - k \in Vars /\ x = VarOf(LevelOf(y) - k)
    BY <1>3 DEF Back
  <2>2. LevelOf(x) = LevelOf(y) - k
    BY <2>1, Orders
  <2>3. LevelOf(y) = LevelOf(x) + k
    BY <1>1, <2>2
  <2>4. QED
    BY <2>3
<1>4. ASSUME NEW x \in Vars, NEW y \in s, LevelOf(y) = LevelOf(x) + k PROVE x \in Back(s, k)
  <2>1. LevelOf(y) - k = LevelOf(x)
    BY <1>1, <1>4
  <2>2. LevelOf(y) - k \in Vars /\ VarOf(LevelOf(y) - k) = x
    BY <2>1, Orders
  <2>3. QED
    BY <2>2 DEF Back
<1>5. QED
  BY <1>2, <1>3, <1>4

LEMMA MovedIs ==
  ASSUME NEW f \in Booleans, NEW k \in Int
  PROVE  /\ Moved(f, k) \in Booleans
         /\ \A s \in True : s \in Moved(f, k) <=> Back(s, k) \in f
BY DEF Moved, Back, Booleans

\* Negation, constants and distance 0.
LEMMA MovedFacts ==
  ASSUME NEW f \in Booleans, NEW k \in Int
  PROVE  /\ Moved(bddnot(f), k) = bddnot(Moved(f, k))
         /\ Constant(f) => Moved(f, k) = f
         /\ Moved(f, 0) = f
<1>1. /\ Moved(f, k) \in Booleans
      /\ \A s \in True : s \in Moved(f, k) <=> Back(s, k) \in f
  BY MovedIs
<1>2. \A s \in True : Back(s, k) \in True
  BY BackIs
<1>3. Moved(bddnot(f), k) = bddnot(Moved(f, k))
  <2>1. bddnot(f) \in Booleans /\ \A s \in True : s \in bddnot(f) <=> s \notin f
    BY NotFacts
  <2>2. /\ bddnot(Moved(f, k)) \in Booleans
        /\ \A s \in True : s \in bddnot(Moved(f, k)) <=> s \notin Moved(f, k)
    BY <1>1, NotFacts
  <2>3. /\ Moved(bddnot(f), k) \in Booleans
        /\ \A s \in True : s \in Moved(bddnot(f), k) <=> Back(s, k) \in bddnot(f)
    BY <2>1, MovedIs
  <2>4. \A s \in True : s \in Moved(bddnot(f), k) <=> s \in bddnot(Moved(f, k))
    BY <1>1, <1>2, <2>1, <2>2, <2>3
  <2>5. QED
    BY <2>2, <2>3, <2>4 DEF Booleans
<1>4. ASSUME Constant(f) PROVE Moved(f, k) = f
  <2>1. f = {} \/ f = True
    BY <1>4 DEF Constant, False
  <2>2. \A s \in True : s \in Moved(f, k) <=> s \in f
    BY <1>1, <1>2, <2>1
  <2>3. QED
    BY <1>1, <2>2 DEF Booleans
<1>5. Moved(f, 0) = f
  <2>1. ASSUME NEW s \in True PROVE Back(s, 0) = s
    <3>1. /\ Back(s, 0) \in True
          /\ \A x \in Vars : x \in Back(s, 0) <=> \E y \in s : LevelOf(y) = LevelOf(x) + 0
      BY BackIs
    <3>2. \A x \in Vars : LevelOf(x) + 0 = LevelOf(x)
      BY Orders
    <3>3. \A y \in s : y \in Vars
      BY DEF True
    <3>4. \A x \in Vars : x \in Back(s, 0) <=> x \in s
      BY <3>1, <3>2, <3>3, Orders
    <3>5. QED
      BY <3>1, <3>3, <3>4 DEF True
  <2>2. /\ Moved(f, 0) \in Booleans
        /\ \A s \in True : s \in Moved(f, 0) <=> Back(s, 0) \in f
    BY MovedIs
  <2>3. \A s \in True : s \in Moved(f, 0) <=> s \in f
    BY <2>1, <2>2
  <2>4. QED
    BY <2>2, <2>3 DEF Booleans
<1>6. QED
  BY <1>3, <1>4, <1>5

\* What a moved function depends on has moved.
LEMMA MovedDepends ==
  ASSUME NEW f \in Booleans, NEW k \in Int, NEW w \in Depends(Moved(f, k))
  PROVE  w \in Vars /\ \E u \in Depends(f) : LevelOf(w) = LevelOf(u) + k
<1>1. w \in Vars
  BY DEF Depends
<1>2. /\ Moved(f, k) \in Booleans
      /\ \A s \in True : s \in Moved(f, k) <=> Back(s, k) \in f
  BY MovedIs
<1> SUFFICES ASSUME \A u \in Depends(f) : LevelOf(w) # LevelOf(u) + k
             PROVE  w \notin Depends(Moved(f, k))
  BY <1>1
<1>3. ASSUME NEW s \in True, w \notin s
      PROVE  s \in Moved(f, k) <=> s \cup {w} \in Moved(f, k)
  <2>1. PICK t : t = s \cup {w}
    OBVIOUS
  <2>2. t \in True
    BY <1>1, <2>1 DEF True
  <2>3. /\ Back(s, k) \in True
        /\ \A x \in Vars : x \in Back(s, k) <=> \E y \in s : LevelOf(y) = LevelOf(x) + k
    BY BackIs
  <2>4. /\ Back(t, k) \in True
        /\ \A x \in Vars : x \in Back(t, k) <=> \E y \in t : LevelOf(y) = LevelOf(x) + k
    BY <2>2, BackIs
  <2>5. \A x \in Vars : x \in Back(t, k) <=> x \in Back(s, k) \/ LevelOf(w) = LevelOf(x) + k
    BY <2>1, <2>3, <2>4
  <2>6. Back(s, k) \in f <=> Back(t, k) \in f
    <3>1. CASE \E u \in Vars : LevelOf(w) = LevelOf(u) + k
      <4>1. PICK u \in Vars : LevelOf(w) = LevelOf(u) + k
        BY <3>1
      <4>2. \A x \in Vars : LevelOf(w) = LevelOf(x) + k <=> x = u
        <5>1. \A x \in Vars : LevelOf(x) \in Int
          BY Orders
        <5>2. \A m, n \in Int : m + k = n + k => m = n
          OBVIOUS
        <5>3. \A x \in Vars : LevelOf(x) + k = LevelOf(u) + k => LevelOf(x) = LevelOf(u)
          BY <4>1, <5>1, <5>2
        <5>4. \A x \in Vars : LevelOf(x) = LevelOf(u) => x = u
          BY <4>1, Orders
        <5>5. QED
          BY <4>1, <5>3, <5>4
      <4>3. PICK b, c : b = Back(s, k) /\ c = Back(t, k)
        OBVIOUS
      <4>4. /\ b \in True /\ c \in True
            /\ \A x \in Vars : x \in c <=> x \in b \/ x = u
        BY <2>3, <2>4, <2>5, <4>2, <4>3
      <4>5. c = b \cup {u}
        BY <4>1, <4>4 DEF True
      <4>6. u \notin Depends(f)
        BY <4>1
      <4>7. b \cup {u} \in f <=> b \in f
        BY <4>1, <4>4, <4>6, Ignored
      <4>8. QED
        BY <4>3, <4>5, <4>7
    <3>2. CASE \A u \in Vars : LevelOf(w) # LevelOf(u) + k
      <4>1. Back(t, k) = Back(s, k)
        BY <2>3, <2>4, <2>5, <3>2 DEF True
      <4>2. QED
        BY <4>1
    <3>3. QED
      BY <3>1, <3>2
  <2>7. QED
    BY <1>2, <2>1, <2>2, <2>6
<1>4. QED
  BY <1>1, <1>2, <1>3, NotDepends

\* A moved function is the node on the moved top variable.
LEMMA MovedNode ==
  ASSUME NEW f \in Booleans, ~ Constant(f), NEW k \in Int, NEW y \in Vars,
         LevelOf(y) = LevelOf(Top(f)) + k
  PROVE  BNode(y, Moved(Lo0(f), k), Moved(Hi1(f), k)) = Moved(f, k)
<1> DEFINE x == Top(f)
           lo == Moved(Lo0(f), k)
           hi == Moved(Hi1(f), k)
           r == Moved(f, k)
<1>1. /\ x \in Vars /\ Covers(x, f) /\ Lo0(f) = At(f, x, 0) /\ Hi1(f) = At(f, x, 1)
      /\ LevelOf(y) = LevelOf(x) + k
  BY TopFacts
<1>2. Lo0(f) \in Booleans /\ Hi1(f) \in Booleans
  BY <1>1, AtFacts
<1>3. /\ lo \in Booleans /\ \A s \in True : s \in lo <=> Back(s, k) \in Lo0(f)
      /\ hi \in Booleans /\ \A s \in True : s \in hi <=> Back(s, k) \in Hi1(f)
      /\ r \in Booleans /\ \A s \in True : s \in r <=> Back(s, k) \in f
  BY <1>2, MovedIs
<1>4. \A u \in Depends(Lo0(f)) \cup Depends(Hi1(f)) : u \in Vars /\ var2level[u] < var2level[x]
  BY <1>1, SidesBelow
<1>5. /\ \A w \in Depends(lo) : w \in Vars /\ \E u \in Depends(Lo0(f)) : LevelOf(w) = LevelOf(u) + k
      /\ \A w \in Depends(hi) : w \in Vars /\ \E u \in Depends(Hi1(f)) : LevelOf(w) = LevelOf(u) + k
  BY <1>2, MovedDepends
<1> HIDE DEF x, lo, hi, r
<1>6. ASSUME NEW w \in Depends(lo) \cup Depends(hi) PROVE var2level[w] < var2level[y]
  <2>1. PICK u \in Depends(Lo0(f)) \cup Depends(Hi1(f)) : w \in Vars /\ LevelOf(w) = LevelOf(u) + k
    BY <1>5
  <2>2. u \in Vars /\ var2level[u] < var2level[x]
    BY <1>4, <2>1
  <2>3. /\ LevelOf(w) = var2level[w] /\ LevelOf(u) = var2level[u] /\ LevelOf(x) = var2level[x]
        /\ LevelOf(y) = var2level[y]
        /\ var2level[w] \in Nat /\ var2level[u] \in Nat /\ var2level[x] \in Nat
    BY <1>1, <2>1, <2>2, VarsFacts
  <2>4. QED
    BY <1>1, <2>1, <2>2, <2>3
<1>7. ASSUME NEW s \in True PROVE s \in r <=> IF y \in s THEN s \in hi ELSE s \in lo
  <2>1. PICK t : t = Back(s, k)
    OBVIOUS
  <2>2. t \in True /\ (x \in t <=> \E z \in s : LevelOf(z) = LevelOf(x) + k)
    BY <1>1, <2>1, BackIs
  <2>3. \A z \in s : LevelOf(z) = LevelOf(x) + k <=> z = y
    BY <1>1, Orders DEF True
  <2>4. x \in t <=> y \in s
    BY <2>2, <2>3
  <2>5. t \in f <=> IF x \in t THEN t \in Hi1(f) ELSE t \in Lo0(f)
    BY <1>1, <2>2, AtFacts
  <2>6. QED
    BY <1>3, <2>1, <2>4, <2>5
<1>8. BNode(y, lo, hi) = r
  BY <1>3, <1>6, <1>7, BNodeMakes
<1>9. QED
  BY <1>8 DEF lo, hi, r

\* The sides of a function lie below its level.
LEMMA SidesLower ==
  ASSUME NEW f \in Booleans, ~ Constant(f)
  PROVE  /\ Lo0(f) \in Booleans /\ LevelIn(Lo0(f)) \in Nat /\ LevelIn(Lo0(f)) < LevelIn(f)
         /\ Hi1(f) \in Booleans /\ LevelIn(Hi1(f)) \in Nat /\ LevelIn(Hi1(f)) < LevelIn(f)
         /\ LevelIn(f) \in Nat
<1>1. /\ Top(f) \in Vars /\ Covers(Top(f), f) /\ LevelIn(f) = LevelOf(Top(f))
      /\ Lo0(f) = At(f, Top(f), 0) /\ Hi1(f) = At(f, Top(f), 1)
  BY TopFacts
<1>2. Lo0(f) \in Booleans /\ Hi1(f) \in Booleans
  BY <1>1, AtFacts
<1>3. /\ \A w \in Depends(Lo0(f)) : var2level[w] < var2level[Top(f)]
      /\ \A w \in Depends(Hi1(f)) : var2level[w] < var2level[Top(f)]
  BY <1>1, SidesBelow
<1>4. LevelIn(Lo0(f)) < LevelIn(f) /\ LevelIn(Hi1(f)) < LevelIn(f)
  BY <1>1, <1>2, <1>3, BelowFacts
<1>5. QED
  BY <1>2, <1>4, LevelFacts

LEMMA ShiftArguments ==
  /\ BddArgs("bddlshiftb") = {a \in Booleans \X Nat : LevelIn(a[1]) + a[2] <= Cardinality(Vars)}
  /\ BddArgs("bddrshiftb") = Booleans \X Nat
BY Arguments, OpsAre DEF BddFits

\* bddlshiftb moves the function without complement bit and puts the bit back.
LEMMA LShiftRight ==
  ASSUME NEW a \in BddArgs("bddlshiftb"), NEW got, Sequence(got), BddAsked("bddlshiftb", a, got)
  PROVE  PassRight("bddlshiftb", a, BddLoop("bddlshiftb", a, got))
<1> DEFINE op == "bddlshiftb"
<1>1. PICK f \in Booleans, n \in Nat : a = <<f, n>> /\ LevelIn(f) + n <= Cardinality(Vars)
  BY ShiftArguments
<1>2. \A h : BddLoop(op, a, h) = lshiftb_iter(<<f, n>>, h)
  BY <1>1, Bodies
<1>3. \A x, k, r : BddKept(op, <<x, k>>, r) <=> r = Moved(x, k)
  BY KeptShifts
<1>4. /\ \A x \in Booleans : LevelIn(x) + n <= Cardinality(Vars) => <<x, n>> \in BddArgs(op)
      /\ BddAsked(op, a, got)
  BY ShiftArguments
<1> SUFFICES PassRight(op, a, BddLoop(op, a, got))
  OBVIOUS
<1> HIDE DEF op
<1>5. n \in Int /\ Cardinality(Vars) \in Nat
  BY Orders
<1>6. CASE Constant(f) \/ n = 0
  <2>1. BddLoop(op, a, got) = Answer(f)
    BY <1>2, <1>6 DEF lshiftb_iter
  <2>2. Moved(f, n) = f
    BY <1>5, <1>6, MovedFacts
  <2>3. BddKept(op, a, f)
    BY <1>1, <1>3, <2>2
  <2>4. QED
    BY <2>1, <2>3, AnswerPass
<1>7. CASE ~ (Constant(f) \/ n = 0) /\ Comp(f)
  <2> DEFINE a1 == <<bddnot(f), n>>
  <2>1. \A h : BddLoop(op, a, h) = Relay(<<a1>>, h, bddnot(h[1]))
    BY <1>2, <1>7 DEF lshiftb_iter
  <2>2. AsksOnly(op, a, {}, <<a1>>)
    BY <2>1 DEF AsksOnly
  <2>3. a1 \in BddArgs(op)
    BY <1>1, <1>4, NotFacts
  <2>4. bddnot(Moved(bddnot(f), n)) = Moved(f, n)
    <3>1. Moved(bddnot(f), n) = bddnot(Moved(f, n))
      BY <1>5, MovedFacts
    <3>2. Moved(f, n) \in Booleans
      BY <1>5, MovedIs
    <3>3. QED
      BY <3>1, <3>2, NotFacts
  <2>5. BddKept(op, a1, got[1]) => BddKept(op, a, bddnot(got[1]))
    BY <1>1, <1>3, <2>4
  <2>6. BddLoop(op, a, got) = Relay(<<a1>>, got, bddnot(got[1]))
    BY <2>1
  <2> HIDE DEF a1
  <2>7. QED
    BY <1>4, <2>2, <2>3, <2>5, <2>6, RelayPass
<1>8. CASE ~ (Constant(f) \/ n = 0) /\ ~ Comp(f)
  <2> DEFINE y == VarOf(LevelIn(f) + n)
             a1 == <<Lo0(f), n>>
             a2 == <<Hi1(f), n>>
             r == BNode(y, got[1], got[2])
  <2>1. \A h : BddLoop(op, a, h) = Open({a}, <<a1, a2>>, h, BNode(y, h[1], h[2]))
    BY <1>2, <1>1, <1>8 DEF lshiftb_iter
  <2>2. BddLoop(op, a, got) = Open({a}, <<a1, a2>>, got, r)
    BY <2>1
  <2>3. /\ Lo0(f) \in Booleans /\ LevelIn(Lo0(f)) \in Nat /\ LevelIn(Lo0(f)) < LevelIn(f)
        /\ Hi1(f) \in Booleans /\ LevelIn(Hi1(f)) \in Nat /\ LevelIn(Hi1(f)) < LevelIn(f)
        /\ LevelIn(f) \in Nat
    BY <1>8, SidesLower
  <2>4. a1 \in BddArgs(op) /\ a2 \in BddArgs(op)
    <3>1. /\ LevelIn(Lo0(f)) + n <= Cardinality(Vars)
          /\ LevelIn(Hi1(f)) + n <= Cardinality(Vars)
      BY <1>1, <1>5, <2>3
    <3>2. QED
      BY <1>4, <2>3, <3>1
  <2>5. y \in Vars /\ LevelOf(y) = LevelOf(Top(f)) + n
    <3>1. LevelIn(f) + n \in 1..Cardinality(Vars)
      <4>1. LevelIn(f) > 0
        BY <1>8, LevelFacts
      <4>2. QED
        BY <1>1, <1>5, <2>3, <4>1
    <3>2. LevelIn(f) + n \in Vars
      BY <3>1, Orders
    <3>3. LevelIn(f) = LevelOf(Top(f))
      BY <1>8, TopFacts
    <3>4. QED
      BY <3>2, <3>3, Orders
  <2>6. BNode(y, Moved(Lo0(f), n), Moved(Hi1(f), n)) = Moved(f, n)
    BY <1>5, <1>8, <2>5, MovedNode
  <2> HIDE DEF y
  <2>7. BddKept(op, a1, got[1]) /\ BddKept(op, a2, got[2]) => BddKept(op, a, r)
    BY <1>1, <1>3, <2>6
  <2> HIDE DEF a1, a2, r
  <2>8. AsksOnly(op, a, {a}, <<a1, a2>>)
    BY <2>1 DEF AsksOnly
  <2>9. \A k \in {a} : \A q : BddKept(op, a, q) => BddKept(op, k, q)
    OBVIOUS
  <2>10. QED
    BY <1>4, <2>2, <2>4, <2>7, <2>8, <2>9, OpenTwo
<1>9. QED
  BY <1>6, <1>7, <1>8

\* What bddrshiftb promises: a throw when a variable would fall off the order.
Falls(f, n) == \E v \in Depends(f) : LevelOf(v) <= n

LEMMA RShiftPromise ==
  ASSUME NEW f \in Booleans, NEW n \in Nat, NEW r
  PROVE  /\ BddKept("bddrshiftb", <<f, n>>, r) <=> r = IF Falls(f, n) THEN Thrown ELSE Moved(f, -n)
         /\ BddKept("bddrshiftb", <<f, n>>, Thrown) <=> Falls(f, n)
         /\ Moved(f, -n) \in Booleans /\ bddnot(Moved(f, -n)) # Thrown
         /\ Moved(f, -n) # Thrown
<1>1. -n \in Int
  OBVIOUS
<1>2. Moved(f, -n) \in Booleans
  BY <1>1, MovedIs
<1>3. Moved(f, -n) # Thrown /\ bddnot(Moved(f, -n)) # Thrown
  BY <1>2, NotFacts
<1>4. \A q : BddKept("bddrshiftb", <<f, n>>, q) <=>
               q = IF Falls(f, n) THEN Thrown ELSE Moved(f, -n)
  BY KeptShifts DEF Falls
<1>5. QED
  BY <1>2, <1>3, <1>4

\* bddrshiftb answers with a throw as soon as a part of the function falls off,
\* and else moves the function down.
LEMMA RShiftRight ==
  ASSUME NEW a \in BddArgs("bddrshiftb"), NEW got, Sequence(got), BddAsked("bddrshiftb", a, got)
  PROVE  PassRight("bddrshiftb", a, BddLoop("bddrshiftb", a, got))
<1> DEFINE op == "bddrshiftb"
<1>1. PICK f \in Booleans, n \in Nat : a = <<f, n>>
  BY ShiftArguments
<1>2. \A h : BddLoop(op, a, h) = rshiftb_iter(<<f, n>>, h)
  BY <1>1, Bodies
<1>3. \A x \in Booleans : \A r : /\ BddKept(op, <<x, n>>, r) <=>
                                      r = IF Falls(x, n) THEN Thrown ELSE Moved(x, -n)
                                 /\ BddKept(op, <<x, n>>, Thrown) <=> Falls(x, n)
  BY RShiftPromise
<1>4. /\ \A x \in Booleans : <<x, n>> \in BddArgs(op)
      /\ BddAsked(op, a, got)
  BY ShiftArguments
<1> SUFFICES PassRight(op, a, BddLoop(op, a, got))
  OBVIOUS
<1> HIDE DEF op
<1>5. -n \in Int /\ LevelIn(f) \in Nat
  BY LevelFacts
<1>6. CASE Constant(f) \/ n = 0
  <2>1. BddLoop(op, a, got) = Answer(f)
    BY <1>2, <1>6 DEF rshiftb_iter
  <2>2. Moved(f, -n) = f
    <3>1. CASE Constant(f)
      BY <1>5, <3>1, MovedFacts
    <3>2. CASE n = 0
      <4>1. \A k \in Int : -k = 0 <=> k = 0
        OBVIOUS
      <4>2. Moved(f, 0) = f
        BY <1>5, MovedFacts
      <4>3. PICK m : m = -n /\ m = 0
        BY <3>2, <4>1
      <4>4. QED
        BY <4>2, <4>3
    <3>3. QED
      BY <1>6, <3>1, <3>2
  <2>3. ~ Falls(f, n)
    <3>1. CASE Constant(f)
      BY <3>1, ConstantFacts DEF Falls
    <3>2. CASE n = 0
      <4>1. \A v \in Depends(f) : ~ (LevelOf(v) <= 0)
        BY VarsFacts DEF Depends
      <4>2. QED
        BY <3>2, <4>1 DEF Falls
    <3>3. QED
      BY <1>6, <3>1, <3>2
  <2>4. BddKept(op, a, f)
    BY <1>1, <1>3, <2>2, <2>3
  <2>5. QED
    BY <2>1, <2>4, AnswerPass
<1> DEFINE Moves == ~ (Constant(f) \/ n = 0)
           stops == LevelIn(f) <= n \/ Thrown \in ToSet(got)
           b1 == <<bddnot(f), n>>
           a1 == <<Lo0(f), n>>
           a2 == <<Hi1(f), n>>
           y == VarOf(LevelIn(f) - n)
<1>7. ASSUME Moves
      PROVE  /\ Top(f) \in Vars /\ Top(f) \in Depends(f) /\ LevelIn(f) = LevelOf(Top(f))
             /\ Lo0(f) = At(f, Top(f), 0) /\ Hi1(f) = At(f, Top(f), 1)
             /\ Lo0(f) \in Booleans /\ Hi1(f) \in Booleans
             /\ bddnot(f) \in Booleans
  BY <1>7, TopFacts, SidesLower, NotFacts
<1>8. ASSUME Moves, Comp(f)
      PROVE  /\ AsksOnly(op, a, {}, <<b1>>)
             /\ ~ stops => BddLoop(op, a, got) = Relay(<<b1>>, got, bddnot(got[1]))
  <2>1. \A h : \/ BddLoop(op, a, h) = Answer(Thrown)
               \/ BddLoop(op, a, h) = Relay(<<b1>>, h, bddnot(h[1]))
    BY <1>1, <1>2, <1>8 DEF rshiftb_iter
  <2>2. ~ stops => BddLoop(op, a, got) = Relay(<<b1>>, got, bddnot(got[1]))
    BY <1>1, <1>2, <1>8 DEF rshiftb_iter
  <2> HIDE DEF b1
  <2>3. Answer(Thrown).kind = "answer"
    BY DEF Answer
  <2>4. AsksOnly(op, a, {}, <<b1>>)
    BY <2>1, <2>3 DEF AsksOnly
  <2>5. QED
    BY <2>2, <2>4
<1>9. ASSUME Moves, ~ Comp(f)
      PROVE  /\ AsksOnly(op, a, {a}, <<a1, a2>>)
             /\ ~ stops => BddLoop(op, a, got) = Open({a}, <<a1, a2>>, got, BNode(y, got[1], got[2]))
  <2>1. \A h : \/ BddLoop(op, a, h) = Answer(Thrown)
               \/ BddLoop(op, a, h) = Open({a}, <<a1, a2>>, h, BNode(y, h[1], h[2]))
    BY <1>1, <1>2, <1>9 DEF rshiftb_iter
  <2>2. ~ stops => BddLoop(op, a, got) = Open({a}, <<a1, a2>>, got, BNode(y, got[1], got[2]))
    BY <1>1, <1>2, <1>9 DEF rshiftb_iter
  <2> HIDE DEF a1, a2, y
  <2>3. Answer(Thrown).kind = "answer"
    BY DEF Answer
  <2>4. AsksOnly(op, a, {a}, <<a1, a2>>)
    BY <2>1, <2>3 DEF AsksOnly
  <2>5. QED
    BY <2>2, <2>4
<1>10. PICK S : got \in Seq(S)
  BY DEF Sequence
<1>11. Len(got) \in Nat /\ ToSet(got) = {got[j] : j \in 1..Len(got)}
  BY <1>10 DEF ToSet
<1>12. CASE Moves /\ stops
  <2>1. BddLoop(op, a, got) = Answer(Thrown)
    BY <1>1, <1>2, <1>12 DEF rshiftb_iter
  <2>2. Falls(f, n)
    <3>1. CASE LevelIn(f) <= n
      BY <1>7, <1>12, <3>1 DEF Falls
    <3>2. CASE Thrown \in ToSet(got) /\ Comp(f)
      <4>1. AsksOnly(op, a, {}, <<b1>>)
        BY <1>8, <1>12, <3>2
      <4>2. PICK subs : subs = <<b1>>
        OBVIOUS
      <4>3. Len(subs) \in Nat /\ Len(subs) = 1 /\ subs[1] = b1
        BY <4>2
      <4>4. Len(got) <= Len(subs) /\ \A j \in 1..Len(got) : BddKept(op, subs[j], got[j])
        BY <1>4, <4>1, <4>2, <4>3, Prompts
      <4>5. PICK j \in 1..Len(got) : got[j] = Thrown
        BY <1>11, <3>2
      <4>6. j = 1
        BY <1>11, <4>3, <4>4, <4>5
      <4>7. BddKept(op, b1, Thrown)
        BY <4>3, <4>4, <4>5, <4>6
      <4>8. Falls(bddnot(f), n)
        BY <1>3, <1>7, <1>12, <4>7
      <4>9. QED
        BY <4>8, NotFacts DEF Falls
    <3>3. CASE Thrown \in ToSet(got) /\ ~ Comp(f)
      <4>1. AsksOnly(op, a, {a}, <<a1, a2>>)
        BY <1>9, <1>12, <3>3
      <4>2. PICK subs : subs = <<a1, a2>>
        OBVIOUS
      <4>3. Len(subs) \in Nat /\ Len(subs) = 2 /\ subs[1] = a1 /\ subs[2] = a2
        BY <4>2
      <4>4. Len(got) <= Len(subs) /\ \A j \in 1..Len(got) : BddKept(op, subs[j], got[j])
        BY <1>4, <4>1, <4>2, <4>3, Prompts
      <4>5. PICK j \in 1..Len(got) : got[j] = Thrown
        BY <1>11, <3>3
      <4>6. j = 1 \/ j = 2
        BY <1>11, <4>3, <4>4, <4>5
      <4>7. BddKept(op, a1, Thrown) \/ BddKept(op, a2, Thrown)
        BY <4>3, <4>4, <4>5, <4>6
      <4>8. Falls(Lo0(f), n) \/ Falls(Hi1(f), n)
        BY <1>3, <1>7, <1>12, <4>7
      <4>9. /\ Depends(At(f, Top(f), 0)) \subseteq Depends(f)
            /\ Depends(At(f, Top(f), 1)) \subseteq Depends(f)
        BY <1>7, <1>12, AtDepends
      <4>10. Depends(Lo0(f)) \subseteq Depends(f) /\ Depends(Hi1(f)) \subseteq Depends(f)
        BY <1>7, <1>12, <4>9
      <4>11. QED
        BY <4>8, <4>10 DEF Falls
    <3>4. QED
      BY <1>12, <3>1, <3>2, <3>3
  <2>3. BddKept(op, a, Thrown)
    BY <1>1, <1>3, <2>2
  <2>4. QED
    BY <2>1, <2>3, AnswerPass
<1>13. CASE Moves /\ ~ stops /\ Comp(f)
  <2>1. /\ AsksOnly(op, a, {}, <<b1>>)
        /\ BddLoop(op, a, got) = Relay(<<b1>>, got, bddnot(got[1]))
    BY <1>8, <1>13
  <2>2. bddnot(f) \in Booleans /\ b1 \in BddArgs(op)
    BY <1>4, <1>7, <1>13
  <2>3. Falls(bddnot(f), n) <=> Falls(f, n)
    BY NotFacts DEF Falls
  <2>4. bddnot(Moved(bddnot(f), -n)) = Moved(f, -n)
    <3>1. Moved(bddnot(f), -n) = bddnot(Moved(f, -n))
      BY <1>5, MovedFacts
    <3>2. Moved(f, -n) \in Booleans
      BY <1>5, MovedIs
    <3>3. QED
      BY <3>1, <3>2, NotFacts
  <2>5. bddnot(Thrown) = Thrown
    BY DEF bddnot
  <2>6. BddKept(op, b1, got[1]) => BddKept(op, a, bddnot(got[1]))
    BY <1>1, <1>3, <2>2, <2>3, <2>4, <2>5
  <2> HIDE DEF b1
  <2>7. QED
    BY <1>4, <2>1, <2>2, <2>6, RelayPass
<1>14. CASE Moves /\ ~ stops /\ ~ Comp(f)
  <2> DEFINE r == BNode(y, got[1], got[2])
  <2>1. /\ AsksOnly(op, a, {a}, <<a1, a2>>)
        /\ BddLoop(op, a, got) = Open({a}, <<a1, a2>>, got, r)
    BY <1>9, <1>14
  <2>2. /\ Lo0(f) \in Booleans /\ Hi1(f) \in Booleans
        /\ a1 \in BddArgs(op) /\ a2 \in BddArgs(op)
    BY <1>4, <1>7, <1>14
  <2>3. y \in Vars /\ LevelOf(y) = LevelOf(Top(f)) + (-n)
    <3>1. LevelIn(f) - n > 0 /\ LevelIn(f) - n <= LevelIn(f) /\ LevelIn(f) - n \in Nat
      BY <1>5, <1>14
    <3>2. LevelIn(f) \in Vars
      BY <1>7, <1>14, Orders
    <3>3. LevelIn(f) - n \in Vars
      BY <3>1, <3>2, Orders
    <3>4. LevelOf(y) = LevelIn(f) - n /\ y \in Vars
      BY <3>3, Orders
    <3>5. LevelIn(f) - n = LevelIn(f) + (-n)
      BY <1>5
    <3>6. QED
      BY <1>7, <1>14, <3>4, <3>5
  <2>4. BNode(y, Moved(Lo0(f), -n), Moved(Hi1(f), -n)) = Moved(f, -n)
    BY <1>5, <1>14, <2>3, MovedNode
  <2>5. ASSUME ~ Falls(Lo0(f), n), ~ Falls(Hi1(f), n) PROVE ~ Falls(f, n)
    <3>1. Depends(f) \subseteq {Top(f)} \cup Depends(Lo0(f)) \cup Depends(Hi1(f))
      BY <1>7, <1>14, DependsOnSides
    <3>2. ~ (LevelOf(Top(f)) <= n)
      BY <1>7, <1>14
    <3>3. QED
      BY <2>5, <3>1, <3>2 DEF Falls
  <2> HIDE DEF y
  <2>6. ASSUME Len(got) = 2, BddKept(op, a1, got[1]), BddKept(op, a2, got[2])
        PROVE  BddKept(op, a, r)
    <3>1. 1 \in 1..Len(got) /\ 2 \in 1..Len(got)
      BY <2>6
    <3>2. got[1] # Thrown /\ got[2] # Thrown
      BY <1>11, <1>14, <3>1
    <3>3. ~ Falls(Lo0(f), n) /\ got[1] = Moved(Lo0(f), -n)
      BY <1>3, <2>2, <2>6, <3>2
    <3>4. ~ Falls(Hi1(f), n) /\ got[2] = Moved(Hi1(f), -n)
      BY <1>3, <2>2, <2>6, <3>2
    <3>5. ~ Falls(f, n) /\ r = Moved(f, -n)
      BY <2>4, <2>5, <3>3, <3>4
    <3>6. QED
      BY <1>1, <1>3, <3>5
  <2> HIDE DEF a1, a2, r
  <2>7. \A k \in {a} : \A q : BddKept(op, a, q) => BddKept(op, k, q)
    OBVIOUS
  <2>8. QED
    BY <1>4, <2>1, <2>2, <2>6, <2>7, OpenTwo
<1>15. QED
  BY <1>6, <1>12, <1>13, <1>14

\* Every body is right for one pass.
LEMMA BodyRight ==
  ASSUME NEW op \in BddLoopOps, NEW a \in BddArgs(op), NEW got, Sequence(got),
         BddAsked(op, a, got)
  PROVE  PassRight(op, a, BddLoop(op, a, got))
<1>1. CASE op = "bddite"
  BY <1>1, IteRight
<1>2. CASE op = "bddat0"
  BY <1>2, At0Right
<1>3. CASE op = "bddat1"
  BY <1>3, At1Right
<1>4. CASE op = "bddsmooth"
  BY <1>4, SmoothRight
<1>5. CASE op = "bddimply"
  BY <1>5, ImplyRight
<1>6. CASE op = "bddcofactor"
  BY <1>6, CofactorRight
<1>7. CASE op = "bddexist"
  BY <1>7, ExistRight
<1>8. CASE op = "bdduniv"
  BY <1>8, UnivRight
<1>9. CASE op = "bddspread"
  BY <1>9, SpreadRight
<1>10. CASE op = "bddlshiftb"
  BY <1>10, LShiftRight
<1>11. CASE op = "bddrshiftb"
  BY <1>11, RShiftRight
<1>12. QED
  BY <1>1, <1>2, <1>3, <1>4, <1>5, <1>6, <1>7, <1>8, <1>9, <1>10, <1>11, OpsAre

\* A frame that gets the promise it asked for still has only right results.
LEMMA AskedMore ==
  ASSUME NEW op, NEW a, NEW S, NEW got \in Seq(S), BddAsked(op, a, got), NEW v,
         NEW does, does = BddLoop(op, a, got), does.kind = "ask",
         BddKept(op, does.sub, v)
  PROVE  /\ \E T : Append(got, v) \in Seq(T)
         /\ BddAsked(op, a, Append(got, v))
<1> DEFINE more == Append(got, v)
           T == S \cup {v}
<1>1. /\ more \in Seq(T) /\ Len(more) = Len(got) + 1 /\ Len(got) \in Nat
      /\ more[Len(got) + 1] = v /\ \A i \in 1..Len(got) : more[i] = got[i]
  <2>1. got \in Seq(T) /\ v \in T
    BY SMT
  <2>2. QED
    BY <2>1, SMT
<1>2. \A j \in 1..Len(got) : SubSeq(more, 1, j - 1) = SubSeq(got, 1, j - 1)
  BY <1>1, SMT
<1>3. SubSeq(more, 1, Len(got)) = got
  BY <1>1, SMT
<1>4. ASSUME NEW j \in 1..Len(more)
      PROVE  \E d \in {BddLoop(op, a, SubSeq(more, 1, j - 1))} :
               d.kind = "ask" /\ BddKept(op, d.sub, more[j])
  <2>1. CASE j = Len(got) + 1
    <3>1. j - 1 = Len(got)
      BY <1>1, <2>1
    <3>2. SubSeq(more, 1, j - 1) = got
      BY <1>3, <3>1
    <3>3. more[j] = v
      BY <1>1, <2>1
    <3>4. QED
      BY <3>2, <3>3
  <2>2. CASE j \in 1..Len(got)
    <3>1. PICK d \in {BddLoop(op, a, SubSeq(got, 1, j - 1))} :
            d.kind = "ask" /\ BddKept(op, d.sub, got[j])
      BY <2>2 DEF BddAsked
    <3>2. more[j] = got[j] /\ SubSeq(more, 1, j - 1) = SubSeq(got, 1, j - 1)
      BY <1>1, <1>2, <2>2
    <3>3. QED
      BY <3>1, <3>2
  <2>3. j = Len(got) + 1 \/ j \in 1..Len(got)
    BY <1>1
  <2>4. QED
    BY <2>1, <2>2, <2>3
<1>5. BddAsked(op, a, more)
  BY <1>4 DEF BddAsked
<1>6. QED
  BY <1>1, <1>5

-----------------------------------------------------------------------------
\* What is popped goes to the frame below, which asked for it.
LEMMA GotMore ==
  ASSUME NEW fr, fr = [op |-> fr.op, args |-> fr.args, got |-> fr.got], NEW v
  PROVE  [fr EXCEPT !.got = Append(@, v)] =
           [op |-> fr.op, args |-> fr.args, got |-> Append(fr.got, v)]
<1>1. PICK o, r, h : fr = [op |-> o, args |-> r, got |-> h]
  OBVIOUS
<1>2. fr.op = o /\ fr.args = r /\ fr.got = h
  BY <1>1
<1>3. PICK w : w = Append(fr.got, v)
  OBVIOUS
<1>4. [[op |-> o, args |-> r, got |-> h] EXCEPT !.got = w] =
        [op |-> o, args |-> r, got |-> w]
  OBVIOUS
<1>5. [fr EXCEPT !.got = w] = [op |-> o, args |-> r, got |-> w]
  BY <1>1, <1>4
<1>6. QED
  BY <1>2, <1>3, <1>5

\* A sequence with elements is not the empty one.
LEMMA NotEmpty == ASSUME NEW S, NEW t \in Seq(S), Len(t) > 0 PROVE t # <<>>
<1>1. Len(<<>>) = 0 /\ ~ (0 > 0)
  OBVIOUS
<1>2. QED
  BY <1>1

\* The stack s after its top was popped with v.
Popped(s, v) ==
  IF Len(s) = 1 THEN <<>>
  ELSE Append(Front(Front(s)), [s[Len(s) - 1] EXCEPT !.got = Append(@, v)])

\* The stack that is left after a pop with the promise is right.
LEMMA PopKeeps ==
  ASSUME NEW c, NEW s, StackFor(c, s), s # <<>>, NEW n, n = Len(s), NEW fr,
         fr = s[n], NEW v, BddKept(fr.op, fr.args, v),
         NEW t, t = Popped(s, v)
  PROVE  /\ StackFor(c, t)
         /\ t = <<>> => BddKept(c.op, c.args, v)
<1>1. PICK S : s \in Seq(S)
  BY DEF StackFor
<1>2. n \in Nat /\ n > 0 /\ \A i \in 1..n : s[i] \in S
  BY <1>1, SMT
<1>a. n \in Nat /\ n > 0
  BY <1>2
<1>b. \A i \in 1..n :
        /\ IsFrame(s[i], c.op)
        /\ BddAsked(s[i].op, s[i].args, s[i].got)
        /\ i = 1 => s[i].args = c.args
        /\ i > 1 => Links(s[i - 1], s[i])
  BY DEF StackFor
<1>3. CASE n = 1
  <2>1. t = <<>>
    BY <1>3 DEF Popped
  <2>2. fr.op = c.op /\ fr.args = c.args
    BY <1>a, <1>b, <1>3 DEF IsFrame
  <2>3. t \in Seq({}) /\ Len(t) = 0
    BY <2>1
  <2>4. \A i \in 1..Len(t) : FALSE
    BY <2>3
  <2>5. StackFor(c, t)
    BY <2>3, <2>4 DEF StackFor
  <2>6. QED
    BY <2>2, <2>5
<1>4. CASE n # 1
  <2> DEFINE low == s[n - 1]
             new == [low EXCEPT !.got = Append(@, v)]
             T == S \cup {new}
  <2>1. n - 1 \in 1..n /\ n - 2 \in Nat /\ n \in 1..n
    BY <1>a, <1>4
  <2>2. /\ Front(s) \in Seq(S) /\ Len(Front(s)) = n - 1
        /\ \A i \in 1..(n - 1) : Front(s)[i] = s[i]
    BY <1>1, <1>a, <2>1, SMT DEF Front
  <2>4. /\ Front(Front(s)) \in Seq(S) /\ Len(Front(Front(s))) = n - 2
        /\ \A i \in 1..(n - 2) : Front(Front(s))[i] = s[i]
    <3>1. /\ Front(Front(s)) \in Seq(S) /\ Len(Front(Front(s))) = n - 2
          /\ \A i \in 1..(n - 2) : Front(Front(s))[i] = Front(s)[i]
      BY <2>1, <2>2, SMT DEF Front
    <3>2. QED
      BY <2>1, <2>2, <3>1
  <2>5. t = Append(Front(Front(s)), new)
    BY <1>4 DEF Popped
  <2>6. Front(Front(s)) \in Seq(T) /\ new \in T /\ Len(Front(Front(s))) = n - 2
    BY <2>1, <2>4, SMT
  <2> HIDE DEF new, T
  <2>7. /\ t \in Seq(T) /\ Len(t) = n - 1 /\ t[n - 1] = new
        /\ \A i \in 1..(n - 2) : t[i] = s[i]
    BY <2>1, <2>4, <2>5, <2>6, SMT
  <2>8. /\ IsFrame(low, c.op) /\ BddAsked(low.op, low.args, low.got)
        /\ n - 1 = 1 => low.args = c.args
        /\ n - 1 > 1 => Links(s[n - 2], low)
    <3>1. (n - 1) - 1 = n - 2
      BY <2>1
    <3>2. QED
      BY <1>b, <2>1, <3>1
  <2>9. Links(low, fr) /\ IsFrame(fr, c.op)
    <3>1. n > 1
      BY <1>a, <1>4
    <3>2. QED
      BY <1>b, <2>1, <3>1
  <2> HIDE DEF low
  <2>10. PICK does : /\ does = BddLoop(low.op, low.args, low.got)
                     /\ does.kind = "ask" /\ fr.args = does.sub
    BY <2>9 DEF Links
  <2>11. PICK G : low.got \in Seq(G)
    BY <2>8 DEF IsFrame
  <2>12. BddKept(low.op, does.sub, v)
    BY <2>8, <2>9, <2>10 DEF IsFrame
  <2>13. /\ \E U : Append(low.got, v) \in Seq(U)
         /\ BddAsked(low.op, low.args, Append(low.got, v))
    <3>1. BddAsked(low.op, low.args, low.got)
      BY <2>8
    <3>2. QED
      BY <2>10, <2>11, <2>12, <3>1, AskedMore
  <2>14. new = [op |-> low.op, args |-> low.args, got |-> Append(low.got, v)]
    BY <2>8, GotMore DEF new, IsFrame
  <2>15. IsFrame(new, c.op) /\ BddAsked(new.op, new.args, new.got)
    BY <2>8, <2>13, <2>14 DEF IsFrame
  <2>16. ASSUME NEW i \in 1..Len(t)
         PROVE  /\ IsFrame(t[i], c.op)
                /\ BddAsked(t[i].op, t[i].args, t[i].got)
                /\ i = 1 => t[i].args = c.args
                /\ i > 1 => Links(t[i - 1], t[i])
    <3>1. CASE i = n - 1
      <4>1. t[i] = new /\ new.args = low.args
        BY <2>7, <2>14, <3>1
      <4>2. ASSUME i > 1 PROVE Links(t[i - 1], t[i])
        <5>1. i - 1 \in 1..(n - 2)
          BY <2>1, <3>1, <4>2
        <5>2. t[i - 1] = s[n - 2]
          BY <2>7, <3>1, <5>1
        <5>3. Links(s[n - 2], low)
          BY <2>8, <3>1, <4>2
        <5>4. Links(s[n - 2], new)
          BY <4>1, <5>3 DEF Links
        <5>5. QED
          BY <4>1, <5>2, <5>4
      <4>3. QED
        BY <2>8, <2>15, <3>1, <4>1, <4>2
    <3>2. CASE i # n - 1
      <4>1. i \in 1..(n - 2) /\ i \in 1..n /\ i - 1 \in 1..(n - 2) \cup {0}
        BY <2>1, <2>7, <3>2
      <4>2. t[i] = s[i]
        BY <2>7, <4>1
      <4>3. ASSUME i > 1 PROVE t[i - 1] = s[i - 1]
        <5>1. i - 1 \in 1..(n - 2)
          BY <4>1, <4>3
        <5>2. QED
          BY <2>7, <5>1
      <4>4. QED
        BY <1>b, <4>1, <4>2, <4>3
    <3>3. QED
      BY <3>1, <3>2
  <2>17. StackFor(c, t)
    BY <2>7, <2>16 DEF StackFor
  <2>18. t # <<>>
    <3>1. Len(t) > 0
      BY <2>1, <2>7
    <3>2. QED
      BY <2>7, <3>1, NotEmpty
  <2>19. QED
    BY <2>17, <2>18
<1>5. QED
  BY <1>3, <1>4

\* A frame that is pushed works on what its maker asks for.
LEMMA PushKeeps ==
  ASSUME NEW c, NEW s, StackFor(c, s), s # <<>>, NEW n, n = Len(s), NEW fr,
         fr = s[n], NEW does, does = BddLoop(fr.op, fr.args, fr.got),
         does.kind = "ask", does.sub \in BddArgs(fr.op),
         NEW new, new = [op |-> fr.op, args |-> does.sub, got |-> <<>>]
  PROVE  StackFor(c, Append(s, new))
<1>1. PICK S : s \in Seq(S)
  BY DEF StackFor
<1> DEFINE T == S \cup {new}
           t == Append(s, new)
<1>2. n \in Nat /\ n > 0 /\ s \in Seq(T) /\ new \in T
  BY <1>1, SMT
<1> HIDE DEF T
<1>3. /\ t \in Seq(T) /\ Len(t) = n + 1 /\ t[n + 1] = new
      /\ \A i \in 1..n : t[i] = s[i]
  BY <1>2, SMT
<1> HIDE DEF t
<1>4. IsFrame(fr, c.op)
  BY <1>2 DEF StackFor
<1>5. /\ <<>> \in Seq({}) /\ \A i \in 1..Len(<<>>) : FALSE
  OBVIOUS
<1>6. IsFrame(new, c.op) /\ BddAsked(new.op, new.args, new.got)
  BY <1>4, <1>5 DEF IsFrame, BddAsked
<1>7. Links(fr, new)
  BY DEF Links
<1>8. ASSUME NEW i \in 1..Len(t)
      PROVE  /\ IsFrame(t[i], c.op)
             /\ BddAsked(t[i].op, t[i].args, t[i].got)
             /\ i = 1 => t[i].args = c.args
             /\ i > 1 => Links(t[i - 1], t[i])
  <2>1. CASE i = n + 1
    <3>1. t[i] = new /\ i # 1 /\ n \in 1..n /\ i - 1 = n
      BY <1>2, <1>3, <2>1
    <3>2. t[i - 1] = fr
      BY <1>3, <3>1
    <3>3. QED
      BY <1>6, <1>7, <3>1, <3>2
  <2>2. CASE i # n + 1
    <3>1. i \in 1..n /\ (i > 1 => i - 1 \in 1..n)
      BY <1>2, <1>3, <2>2
    <3>2. t[i] = s[i] /\ (i > 1 => t[i - 1] = s[i - 1])
      BY <1>3, <3>1
    <3>3. QED
      BY <3>1, <3>2 DEF StackFor
  <2>3. QED
    BY <2>1, <2>2
<1>9. StackFor(c, t)
  BY <1>3, <1>8 DEF StackFor
<1>10. QED
  BY <1>9 DEF t

\* The invariant holds at first,
LEMMA LoopInitially == BddRun!FramesInit => LoopInv
BY DEF BddRun!FramesInit, LoopInv, BddRun!Idle

\* and every step keeps it: the call,
LEMMA CallKeeps == ASSUME LoopInv, BddCall PROVE LoopInv'
<1>0. PICK op \in BddLoopOps :
        \E a \in BddArgs(op) : BddRun!Begin([op |-> op, args |-> a])
  BY DEF BddCall
<1>1. PICK a \in BddArgs(op) : BddRun!Begin([op |-> op, args |-> a])
  BY <1>0
<1>2. BddRun!Idle /\ memo = BddRun!NoMemo /\ memo' = memo
  BY <1>1 DEF BddRun!Begin, LoopInv
<1> DEFINE fr == [op |-> op, args |-> a, got |-> <<>>]
<1>3. /\ call' = [op |-> op, args |-> a] /\ stack' = <<fr>>
  BY <1>1 DEF BddRun!Begin, BddRun!Push
<1>4. /\ <<>> \in Seq({}) /\ \A i \in 1..Len(<<>>) : FALSE
  OBVIOUS
<1>5. IsFrame(fr, op) /\ BddAsked(op, a, <<>>)
  BY <1>4 DEF IsFrame, BddAsked
<1>6. StackFor([op |-> op, args |-> a], <<fr>>)
  <2>1. <<fr>> \in Seq({fr}) /\ Len(<<fr>>) = 1 /\ <<fr>>[1] = fr
    OBVIOUS
  <2>2. \A i \in 1..1 : i = 1
    OBVIOUS
  <2> HIDE DEF fr
  <2>3. fr.op = op /\ fr.args = a /\ fr.got = <<>>
    BY DEF fr
  <2>4. PICK s : s = <<fr>>
    OBVIOUS
  <2>5. PICK c : c = [op |-> op, args |-> a]
    OBVIOUS
  <2>6. c.op = op /\ c.args = a /\ s \in Seq({fr}) /\ Len(s) = 1 /\ s[1] = fr
    BY <2>1, <2>4, <2>5
  <2>7. ASSUME NEW i \in 1..Len(s)
        PROVE  /\ IsFrame(s[i], c.op)
               /\ BddAsked(s[i].op, s[i].args, s[i].got)
               /\ i = 1 => s[i].args = c.args
               /\ ~ (i > 1)
    BY <1>5, <2>3, <2>6
  <2>8. StackFor(c, s)
    BY <2>6, <2>7 DEF StackFor
  <2>9. QED
    BY <2>4, <2>5, <2>8
<1>7. call' # BddRun!NoCall /\ stack' # <<>>
  <2>1. op # "none"
    BY DEF BddLoopOps, ByVariable, ByFunction, BySet, ByNumber
  <2>2. call'.op # BddRun!NoCall.op
    BY <1>3, <2>1 DEF BddRun!NoCall
  <2>3. stack' # <<>>
    BY <1>3
  <2>4. QED
    BY <2>2, <2>3
<1>8. DOMAIN memo = {}
  BY <1>2 DEF BddRun!NoMemo
<1>9. BddEntriesRight'
  BY <1>2, <1>8 DEF BddEntriesRight
<1>10. QED
  BY <1>3, <1>6, <1>7, <1>9 DEF LoopInv, BddRun!Idle

\* the return,
LEMMA ReturnKeeps == ASSUME LoopInv, BddRun!Return PROVE LoopInv'
BY DEF BddRun!Return, BddRun!Finished, LoopInv, BddRun!Idle

\* and a pass of the loop, which answers from the cache, keeps or asks.
LEMMA StepKeeps == ASSUME LoopInv, BddRun!Step(BddLoop) PROVE LoopInv'
<1> DEFINE n == Len(stack)
<1>1. stack # <<>> /\ ~ BddRun!Idle /\ call' = call
  BY DEF BddRun!Step, LoopInv
<1>2. /\ call.op \in BddLoopOps /\ call.args \in BddArgs(call.op)
      /\ StackFor(call, stack) /\ BddEntriesRight
  BY <1>1 DEF LoopInv
<1>3. PICK top, does :
        /\ top = Last(stack) /\ does = BddLoop(top.op, top.args, top.got)
        /\ \/ /\ BddRun!Known(top.op, top.args) # {}
              /\ BddRun!Pop(memo[CHOOSE e \in BddRun!Known(top.op, top.args) : TRUE])
              /\ memo' = memo
           \/ does.kind = "answer" /\ BddRun!Pop(does.value) /\ memo' = memo
           \/ /\ does.kind = "keep" /\ BddRun!Pop(does.value)
              /\ memo' = BddRun!Entered([op |-> top.op, key |-> does.key], does.value)
           \/ /\ does.kind = "ask" /\ UNCHANGED <<result, memo>>
              /\ stack' = Append(stack, BddRun!Push([op |-> top.op, args |-> does.sub]))
  <2>1. \E top \in {Last(stack)} :
          \E does \in {BddLoop(top.op, top.args, top.got)} :
            \/ /\ BddRun!Known(top.op, top.args) # {}
               /\ BddRun!Pop(memo[CHOOSE e \in BddRun!Known(top.op, top.args) : TRUE])
               /\ memo' = memo
            \/ does.kind = "answer" /\ BddRun!Pop(does.value) /\ memo' = memo
            \/ /\ does.kind = "keep" /\ BddRun!Pop(does.value)
               /\ memo' = BddRun!Entered([op |-> top.op, key |-> does.key], does.value)
            \/ /\ does.kind = "ask" /\ UNCHANGED <<result, memo>>
               /\ stack' = Append(stack, BddRun!Push([op |-> top.op, args |-> does.sub]))
    BY Zenon DEF BddRun!Step, BddRun!Pass, BddRun!Last, Last
  <2>2. QED
    BY <2>1, Zenon
<1>4. top = stack[n]
  BY <1>3 DEF Last
<1>5. PICK S : stack \in Seq(S)
  BY <1>2 DEF StackFor
<1>6. n \in 1..Len(stack)
  BY <1>1, <1>5, SMT
<1> HIDE DEF n
<1>7. IsFrame(top, call.op) /\ BddAsked(top.op, top.args, top.got)
  BY <1>2, <1>4, <1>6 DEF StackFor
<1>8. PICK G : top.got \in Seq(G)
  BY <1>7 DEF IsFrame
<1>9. top.op = call.op /\ top.op \in BddLoopOps /\ top.args \in BddArgs(top.op)
  BY <1>2, <1>7 DEF IsFrame
<1>10. PassRight(top.op, top.args, does)
  <2>1. Sequence(top.got)
    BY <1>8 DEF Sequence
  <2>2. does = BddLoop(top.op, top.args, top.got)
    BY <1>3
  <2>3. QED
    BY <1>7, <1>9, <2>1, <2>2, BodyRight
<1>11. ASSUME NEW v, BddKept(top.op, top.args, v), BddRun!Pop(v)
       PROVE  /\ StackFor(call, stack')
              /\ stack' = <<>> => BddKept(call.op, call.args, result')
  <2>1. result' = v /\ stack' = Popped(stack, v)
    BY <1>11 DEF BddRun!Pop, BddRun!Front, Front, Popped
  <2>2. PICK c, s, t : c = call /\ s = stack /\ t = stack'
    OBVIOUS
  <2>3. /\ StackFor(c, s) /\ s # <<>> /\ n = Len(s) /\ top = s[n]
        /\ t = Popped(s, v)
    BY <1>1, <1>2, <1>4, <2>1, <2>2 DEF n
  <2>4. StackFor(c, t) /\ (t = <<>> => BddKept(c.op, c.args, v))
    BY <1>11, <2>3, PopKeeps
  <2>5. QED
    BY <2>1, <2>2, <2>4
<1>12. CASE /\ BddRun!Known(top.op, top.args) # {}
            /\ BddRun!Pop(memo[CHOOSE e \in BddRun!Known(top.op, top.args) : TRUE])
            /\ memo' = memo
  <2>1. PICK e : /\ e = (CHOOSE k \in BddRun!Known(top.op, top.args) : TRUE)
                 /\ e \in BddRun!Known(top.op, top.args)
    BY <1>12
  <2>2. e \in DOMAIN memo /\ e.op = top.op /\ top.args \in e.key
    BY <2>1 DEF BddRun!Known
  <2>3. BddKept(top.op, top.args, memo[e])
    BY <1>2, <2>2 DEF BddEntriesRight
  <2>4. BddRun!Pop(memo[e])
    BY <1>12, <2>1
  <2>5. BddEntriesRight'
    BY <1>2, <1>12 DEF BddEntriesRight
  <2>6. QED
    BY <1>1, <1>2, <1>11, <2>3, <2>4, <2>5 DEF LoopInv, BddRun!Idle
<1>13. CASE does.kind = "answer" /\ BddRun!Pop(does.value) /\ memo' = memo
  <2>1. BddKept(top.op, top.args, does.value)
    BY <1>10, <1>13 DEF PassRight
  <2>2. BddEntriesRight'
    BY <1>2, <1>13 DEF BddEntriesRight
  <2>3. QED
    BY <1>1, <1>2, <1>11, <1>13, <2>1, <2>2 DEF LoopInv, BddRun!Idle
<1>14. CASE /\ does.kind = "keep" /\ BddRun!Pop(does.value)
            /\ memo' = BddRun!Entered([op |-> top.op, key |-> does.key], does.value)
  <2> DEFINE entry == [op |-> top.op, key |-> does.key]
  <2>1. /\ BddKept(top.op, top.args, does.value)
        /\ \A k \in does.key : BddKept(top.op, k, does.value)
    BY <1>10, <1>14 DEF PassRight
  <2>2. /\ DOMAIN memo' = {entry} \cup DOMAIN memo
        /\ \A e \in DOMAIN memo' :
             memo'[e] = IF e = entry THEN does.value ELSE memo[e]
    BY <1>14 DEF BddRun!Entered
  <2>3. entry.op = top.op /\ entry.key = does.key
    OBVIOUS
  <2> HIDE DEF entry
  <2>4. BddEntriesRight'
    BY <1>2, <2>1, <2>2, <2>3 DEF BddEntriesRight
  <2>5. QED
    BY <1>1, <1>2, <1>11, <1>14, <2>1, <2>4 DEF LoopInv, BddRun!Idle
<1>15. CASE /\ does.kind = "ask" /\ UNCHANGED <<result, memo>>
            /\ stack' = Append(stack, BddRun!Push([op |-> top.op, args |-> does.sub]))
  <2>1. does.sub \in BddArgs(top.op)
    BY <1>10, <1>15 DEF PassRight
  <2>2. BddRun!Push([op |-> top.op, args |-> does.sub]) =
          [op |-> top.op, args |-> does.sub, got |-> <<>>]
    BY DEF BddRun!Push
  <2>3. n = Len(stack)
    BY DEF n
  <2>4. StackFor(call, stack')
    BY <1>1, <1>2, <1>3, <1>4, <1>15, <2>1, <2>2, <2>3, PushKeeps
  <2>5. stack' # <<>>
    BY <1>5, <1>15, SMT
  <2>6. BddEntriesRight'
    BY <1>2, <1>15 DEF BddEntriesRight
  <2>7. QED
    BY <1>1, <1>2, <2>4, <2>5, <2>6 DEF LoopInv, BddRun!Idle
<1>16. QED
  BY <1>3, <1>12, <1>13, <1>14, <1>15

(***************************************************************************)
(* In every call of an iterative BDD loop each frame works on what the one *)
(* below it asked for and holds right results of those it asked for        *)
(* itself, and the cache never holds a wrong entry.                        *)
(***************************************************************************)
THEOREM BddLoopInvariance == BddSpec => []LoopInv
<1>1. ASSUME LoopInv, [BddNext]_loopVars PROVE LoopInv'
  <2>1. CASE BddCall
    BY <1>1, <2>1, CallKeeps
  <2>2. CASE BddRun!Step(BddLoop)
    BY <1>1, <2>2, StepKeeps
  <2>3. CASE BddRun!Return
    BY <1>1, <2>3, ReturnKeeps
  <2>4. CASE UNCHANGED loopVars
    BY <1>1, <2>4 DEF loopVars, LoopInv, BddRun!Idle, BddEntriesRight
  <2>5. QED
    BY <1>1, <2>1, <2>2, <2>3, <2>4 DEF BddNext
<1>2. QED
  BY LoopInitially, <1>1, PTL DEF BddSpec

\* The invariant gives the property.
LEMMA InvGivesRight == LoopInv => BddLoopsRight
<1> SUFFICES ASSUME LoopInv, call.op \in BddLoopOps PROVE BddLoopsRight
  BY DEF BddLoopsRight
<1>1. ~ BddRun!Idle
  BY DEF BddRun!Idle, BddRun!NoCall, BddLoopOps, ByVariable, ByFunction, BySet, ByNumber
<1>2. BddStackRight
  BY <1>1 DEF LoopInv, StackFor, BddStackRight, IsFrame, Links
<1>3. QED
  BY <1>1, <1>2 DEF LoopInv, BddLoopsRight

(***************************************************************************)
(* The iterative forms of the 11 operations end with what the operation    *)
(* promises, and leave only right entries in the cache, for any number of  *)
(* variables and any order of them.                                        *)
(***************************************************************************)
THEOREM BddLoopsAlwaysRight == BddSpec => []BddLoopsRight
BY BddLoopInvariance, InvGivesRight, PTL
=============================================================================
