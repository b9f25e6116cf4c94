------------------------------ MODULE EventStream ------------------------------
(***************************************************************************)
(* What a connection with a debugger server promises IDA: the events of    *)
(* the debuggee are given to it one by one, each once and in their order,  *)
(* and none is kept for ever while the connection is up.                   *)
(***************************************************************************)
EXTENDS Naturals, Sequences

VARIABLES
  occurred,  \* how many events the debuggee had
  given,     \* the events IDA was given
  up         \* is the connection sound?

vars == <<occurred, given, up>>

Init == occurred = 0 /\ given = <<>> /\ up = TRUE

Occur == occurred' = occurred + 1 /\ UNCHANGED <<given, up>>

Give ==
  /\ Len(given) < occurred
  /\ given' = Append(given, Len(given) + 1)
  /\ UNCHANGED <<occurred, up>>

Fail == up /\ ~up' /\ UNCHANGED <<occurred, given>>

Restart == ~up /\ up' /\ occurred' = 0 /\ given' = <<>>

Next == Occur \/ Give \/ Fail \/ Restart

Safety == Init /\ [][Next]_vars

Spec == Safety /\ WF_vars(up /\ Give)
================================================================================
