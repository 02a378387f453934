------------------------------- MODULE MCApply -------------------------------
(***************************************************************************)
(* Apply on three variables.  In an initial table the objects refer to two *)
(* nodes of the upper variable, each over a node of the middle variable of *)
(* its own, or to one of those; slot 1 holds the node of the lowest        *)
(* variable.  A call makes up to three nodes, more than there may be room  *)
(* for.                                                                    *)
(***************************************************************************)
EXTENDS Apply, TLC

CONSTANTS h1, h2,
          StartKinds    \* the classes tried

Slot(n) == [node |-> n, comp |-> 0]

Node(v, lo, hi) == [var |-> v, lo |-> lo, hi |-> hi, red |-> TRUE]

Middle == {Node(2, False, Not(Slot(1))), Node(2, Slot(1), Not(Slot(1)))}

MCInit ==
  /\ varcount = 3
  /\ var2level = <<1, 2, 3>>
  /\ level2var = <<1, 2, 3>>
  /\ kind \in StartKinds
  /\ used = 5
  /\ \E m2, m3 \in Middle, hi5 \in {Slot(1), Not(Slot(2))} :
       /\ m2 # m3
       /\ nodes = [n \in Slots |->
                     CASE n = 1 -> Node(1, False, True)
                       [] n = 2 -> m2
                       [] n = 3 -> m3
                       [] n = 4 -> Node(3, Slot(2), Slot(3))
                       [] n = 5 -> Node(3, Slot(3), hi5)
                       [] OTHER -> Junk]
  /\ count = NodeMax
  /\ free = {}
  /\ table = 1..used
  /\ root \in {[h \in Handles |-> IF h = h1 THEN e[1] ELSE e[2]] :
                 e \in {<<Slot(4), Slot(5)>>, <<Slot(4), Not(Slot(5))>>,
                        <<Slot(2), Not(Slot(2))>>}}
  /\ CallInit

MCSpec == MCInit /\ [][Next]_vars /\ Fairness
=============================================================================
