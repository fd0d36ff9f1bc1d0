------------------------------- MODULE Calls -------------------------------
(* One call of a function whose result depends on its arguments alone: the    *)
(* call is made, then it is answered with one of the outcomes it may have.   *)
VARIABLES call, outcome

Pending == << >>

Asked         == outcome = Pending /\ UNCHANGED call
Answered(ops) == outcome # Pending /\ call.op \in ops
Answer        == outcome[1]
=============================================================================
