--------------------------------- MODULE Bank ---------------------------------
(***************************************************************************)
(* What an account chaincode promises, whatever its calls do: they take    *)
(* effect one at a time, each as a whole, on the accounts as they are.     *)
(***************************************************************************)
CONSTANTS
  Requests,              \* the calls
  Routed(_, _),          \* whether the chaincode takes a call
  Simulate(_, _, _),     \* what it makes of it, given the accounts
  Applied(_, _)          \* the accounts after that

VARIABLES lang, balance

\* One call, in one step.
Call(r) ==
  /\ Routed(lang, r)
  /\ Simulate(lang, r, balance).ok
  /\ balance' = Applied(Simulate(lang, r, balance), balance)
  /\ UNCHANGED lang

Next == \E r \in Requests : Call(r)

Spec == [][Next]_<<lang, balance>>

===============================================================================
