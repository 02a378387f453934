------------------------------- MODULE Bounds -------------------------------
(***************************************************************************)
(* The arithmetic of long long that the cost bounds are computed in, and   *)
(* the answer of a bounded descent (zdd_adv_weight.cpp).                   *)
(***************************************************************************)
EXTENDS Family

CONSTANT WeightMax     \* LLONG_MAX; LLONG_MIN is one further from zero

ASSUME WeightMaxAssumption == WeightMax \in Nat \ {0}

WeightMin == -WeightMax - 1
Weights == WeightMin..WeightMax

-----------------------------------------------------------------------------
\* Sums that stay at the ends of long long.

costbound_safe_add(a, b) ==
  IF WeightMin \in {a, b} THEN WeightMin
  ELSE IF WeightMax \in {a, b} THEN WeightMax
  ELSE IF a + b > WeightMax THEN WeightMax
  ELSE IF a + b < WeightMin THEN WeightMin
  ELSE a + b

costbound_safe_sub(a, b) ==
  IF a \in {WeightMin, WeightMax} THEN a
  ELSE IF b = WeightMin THEN WeightMax
  ELSE IF b = WeightMax THEN WeightMin
  ELSE IF a - b < WeightMin THEN WeightMin
  ELSE IF a - b > WeightMax THEN WeightMax
  ELSE a - b

-----------------------------------------------------------------------------
\* A family h and the interval [aw, rb) of the bounds it is the answer for.
Bounded(h, aw, rb) == [h |-> h, aw |-> aw, rb |-> rb]
=============================================================================
