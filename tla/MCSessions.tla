------------------------------ MODULE MCSessions -----------------------------
(***************************************************************************)
(* Two variables, few slots: operations overflow, are retried after a      *)
(* collection, and reuse the slots of what was collected.                  *)
(***************************************************************************)
EXTENDS Sessions

MCOrder == <<1, 2>>
MCSlots == 1..3
MCWeight == <<1, 2>>
MCCalls == [p \in Programs |-> IF p = "values" THEN 5 ELSE 8]
MCSymmetry == Permutations(Objects)
=============================================================================
