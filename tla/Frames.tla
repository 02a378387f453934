------------------------------- MODULE Frames -------------------------------
(***************************************************************************)
(* The loop of the iterative algorithms: an explicit stack of frames, the  *)
(* result of the frame popped last, and the cache or memo of the call.     *)
(* Frame(op, a, got) is the body of the loop of operation op (see Family); *)
(* the same stack serves an operation that calls another.                  *)
(***************************************************************************)
EXTENDS Integers, Sequences, SequencesExt, LoopState

NoCall == [op |-> "none", args |-> <<>>]
NoResult == [none |-> TRUE]
NoMemo == [k \in {} |-> NoResult]

Idle == call = NoCall
Finished == ~Idle /\ stack = <<>>

FramesInit ==
  call = NoCall /\ stack = <<>> /\ result = NoResult /\ memo = NoMemo

Push(c) == [op |-> c.op, args |-> c.args, got |-> <<>>]

Begin(c) ==
  /\ Idle
  /\ call' = c
  /\ stack' = <<Push(c)>>
  /\ UNCHANGED <<result, memo>>

\* A call of a function without a loop of its own.
Whole(c, value) ==
  /\ Idle
  /\ call' = c /\ result' = value
  /\ UNCHANGED <<stack, memo>>

\* The frame below takes the result as that of the subproblem it pushed.
Pop(v) ==
  /\ result' = v
  /\ stack' = IF Len(stack) = 1 THEN <<>>
              ELSE Append(Front(Front(stack)),
                          [stack[Len(stack) - 1] EXCEPT !.got = Append(@, v)])

Known(op, a) == {e \in DOMAIN memo : e.op = op /\ a \in e.key}

Entered(e, v) ==
  [k \in DOMAIN memo \cup {e} |-> IF k = e THEN v ELSE memo[k]]

\* One pass: an answer from the cache, one of the frame itself, one to keep
\* under its key, or a frame pushed for a subproblem.
Pass(top, does) ==
  LET known == Known(top.op, top.args)
  IN  IF does.kind # "answer" /\ top.got = <<>> /\ does.key # {} /\ known # {}
      THEN Pop(memo[CHOOSE e \in known : TRUE]) /\ UNCHANGED memo
      ELSE \/ does.kind = "answer" /\ Pop(does.value) /\ UNCHANGED memo
           \/ /\ does.kind = "keep"
              /\ Pop(does.value)
              /\ memo' = Entered([op |-> top.op, key |-> does.key], does.value)
           \/ /\ does.kind = "ask"
              /\ stack' = Append(stack, Push([op |-> top.op, args |-> does.sub]))
              /\ UNCHANGED <<result, memo>>

Step(Frame(_, _, _)) ==
  /\ stack # <<>>
  /\ \E top \in {Last(stack)} : \E does \in {Frame(top.op, top.args, top.got)} :
       Pass(top, does)
  /\ UNCHANGED call

Return ==
  /\ Finished
  /\ call' = NoCall /\ result' = NoResult /\ memo' = NoMemo
  /\ UNCHANGED stack
=============================================================================
