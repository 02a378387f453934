----------------------------- MODULE Operations -----------------------------
(***************************************************************************)
(* A program that calls any operation of the library, one after the other, *)
(* in iterative mode: those of families, permutations and sequences        *)
(* (ZddAlgebra), of functions and conversions (BddAlgebra), and the        *)
(* questions asked of them (Queries).  All use one loop and one cache.     *)
(***************************************************************************)
EXTENDS ZddIterative, BddIterative, Counting

CONSTANTS Called,             \* the operations the program calls
          Firsts,             \* families, and functions, passed as first operand
          Seconds,            \* families passed as second operand
          Operands,           \* functions passed as second operand
          Few,                \* families passed where few are enough
          Sizes,              \* values passed as shift or size
          PermLevels, PermSize, Tables,    \* variables and tables of permutations
          Divisors, PairWeights,           \* and what is passed with them
          SeqFirsts, SeqSeconds,           \* sets of sequences
          Renamings, BddTrees, ZddTrees,   \* what BddAlgebra is called with
          WeightMax, WeightVectors, Maps, FewMaps, Bounds, Lists, Chains,
          Values              \* and what Queries is

Z == INSTANCE ZddAlgebra
B == INSTANCE BddAlgebra WITH Functions <- Firsts
U == INSTANCE Queries WITH Families <- Firsts

ASSUME TablesAssumption == Tables = Z!P!TablesAfter(PermSize)

InFrames == Z!InFrames \cup B!InFrames \cup U!InFrames
Wholes == Z!Composed \cup B!Composed \cup U!Wholes
EveryOperation == InFrames \cup Wholes

FrameOf(op, a, got) ==
  CASE op \in Z!InFrames -> Z!FrameOf(op, a, got)
    [] op \in B!InFrames -> B!FrameOf(op, a, got)
    [] op \in U!InFrames -> U!FrameOf(op, a, got)

CallsOf(op) ==
  CASE op \in Z!InFrames \cup Z!Composed -> Z!CallsOf(op)
    [] op \in B!InFrames \cup B!Composed -> B!CallsOf(op)
    [] op \in U!InFrames \cup U!Wholes -> U!CallsOf(op)

Composition(op, a) ==
  CASE op \in Z!Composed -> Z!Composition(op, a)
    [] op \in B!Composed -> B!Recursive(op, a)
    [] op \in U!Wholes -> U!Composed(op, a)

Run == INSTANCE Frames

-----------------------------------------------------------------------------
Init == Run!FramesInit

\* An operation with frames of its own, and one made of other operations.
Operate == Run!Idle /\ \E op \in InFrames \cap Called : \E c \in CallsOf(op) : Run!Begin(c)

Compose == Run!Idle /\ \E op \in Wholes \cap Called : \E c \in CallsOf(op) :
             Run!Whole(c, Composition(op, c.args))

Next == Operate \/ Compose \/ Run!Step(FrameOf) \/ Run!Return

Spec == Init /\ [][Next]_loopVars

-----------------------------------------------------------------------------
\* Families, sets of permutations and sets of sequences: an operation ends
\* with what it promises of the members, and the documented exceptions are
\* what RemovedBelow, QuotientIsIntersection and RemainderIdentity show.
FamiliesRight == Z!ResultRight

\* The recursive form of an operation on families gives what the iterative
\* one gave, for every order of the operands.
FamilyFormsAgree == Z!FormsAgree

\* An entry of the cache of an operation on families answers only calls it is
\* true of: of both orders of the operands when the key is a sorted pair.
FamilyMemoRight == Z!MemoRight

\* Functions and conversions: an operation ends with what it promises of the
\* assignments, for operands and variable sets of either sign, or refuses.
FunctionsRight == B!ResultRight

\* The recursive form of an operation on functions gives what the iterative
\* one gave, where the operation is free to choose too.
FunctionFormsAgree == B!FormsAgree

\* An entry of the cache or memo of an operation on functions is true of both
\* orders of sorted operands, of the variable set before and after it was
\* shortened, and of an edge whose complement bit was taken off.
FunctionMemoRight == B!MemoRight

\* A query of a family or a function returns what it promises of the members
\* or satisfying assignments: counts that stop at the limit, ranks,
\* selections, bounds on weights, the lightest and heaviest; or refuses.
AnswersRight == U!AnswersRight

\* A sample has every member with exactly its share of the weight, and no
\* other set; the random iterator may yield every order of the members.
LawsRight == U!LawsRight

\* An iterator yields every member once, in its order, whichever of several
\* candidates of one weight the queue has at its head.
OrdersRight == U!OrdersRight

\* An operation on diagrams with values is what it is on the values,
\* whichever variables its operands have.
ValuesRight == U!ValuesRight

\* With any of the entries of set_zskip lost, zlev finds the node that a walk
\* along the lo edges finds.
ShortcutsRight == U!ShortcutsRight

\* The recursive form of a query gives what the iterative one gave.
AnswersAgree == U!AnswersAgree

\* An entry of the cache or memo of a query is true of both signs of the node
\* it is kept under, of a BDD and its negation, and of every bound in the
\* interval kept with a family of bounded weight.
AnswerMemoRight == U!AnswerMemoRight

\* A set of sequences is made again from a divisor, the left quotient and the
\* left remainder (test_seqbdd.cpp: "f == p * (f / p) + (f % p)").
RemainderIdentity == Z!RemainderIdentity

\* The left quotient by several sequences is the intersection of the
\* quotients by each (ops_seqbdd.rst).
QuotientIsIntersection == Z!QuotientIsIntersection

\* RotPiDD::remove_max(k) leaves permutations of the elements below k
\* (rotpidd.rst).
RemovedBelow == Z!RemovedBelow
=============================================================================
