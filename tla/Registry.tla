------------------------------- MODULE Registry -------------------------------
(***************************************************************************)
(* What the name service promises its clients: a registry in which every   *)
(* registration takes effect at once, in all the objects it concerns, and  *)
(* takes nothing away from the others.                                     *)
(***************************************************************************)
EXTENDS RegistryData

VARIABLE registry   \* key -> the object stored under it, as a set of facts

Init == registry = [k \in Keys |-> {}]

\* One registration, in one step.
Register(r) ==
  /\ IsRegistration(r)
  /\ Accepted(r)
  /\ registry' = [k \in Keys |-> Merge(registry[k], NewData(r, k))]

Next == \E r \in Requests : Register(r)

Spec == Init /\ [][Next]_registry

===============================================================================
