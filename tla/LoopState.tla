----------------------------- MODULE LoopState ------------------------------
(***************************************************************************)
(* The state of a program that calls iterative operations: the call it is  *)
(* in, the explicit stack of the loop, the result of the frame popped last *)
(* and the cache or memo.  Every module that looks at a call has this one. *)
(***************************************************************************)
VARIABLES call, stack, result, memo

loopVars == <<call, stack, result, memo>>
=============================================================================
