------------------------------- MODULE ApiCall -------------------------------
(***************************************************************************)
(* What the caller of a BoxApi method may rely on, whatever happens on the *)
(* way: its request is executed at most `budget` times, also later than    *)
(* the answer; a success was executed; a call that is refused never was    *)
(* and never will be; and there is an answer.                              *)
(***************************************************************************)
EXTENDS Naturals

VARIABLES
  budget,    \* how often the request may be executed
  executed,  \* how often the service has executed the request
  outcome    \* what the caller knows

callVars == <<budget, executed, outcome>>

Init == budget \in Nat \ {0} /\ executed = 0 /\ outcome = "pending"

Execute ==
  /\ executed < budget
  /\ outcome # "refused"
  /\ executed' = executed + 1
  /\ UNCHANGED <<budget, outcome>>

Answer(o) ==
  /\ outcome = "pending"
  /\ outcome' = o
  /\ UNCHANGED <<budget, executed>>

Succeed == executed > 0 /\ Answer("ok")
Refuse == executed = 0 /\ Answer("refused")
Fail == Answer("failed")

Decide == Succeed \/ Refuse \/ Fail

Next == Execute \/ Decide

SafeSpec == Init /\ [][Next]_callVars
Spec == SafeSpec /\ WF_callVars(Decide)

=============================================================================
