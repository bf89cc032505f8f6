------------------------------- MODULE RaftConfig -------------------------------
(***************************************************************************)
(* What the Raft scripts promise about the orderers of a channel: every    *)
(* change of the configuration is one requested change, applied to the     *)
(* configuration as it is.                                                 *)
(*                                                                         *)
(* The configuration has the orderers' MSPs, a set, and two lists, of the  *)
(* consenters and of the addresses, in which an entry is known by its      *)
(* host.  It has two parts with a version of their own, the group of the   *)
(* orderers, with the MSPs and the consenters, and the addresses.          *)
(***************************************************************************)
EXTENDS Filtering, SequencesExt

CONSTANTS
  Ops,           \* the changes: [kind, host], or [kind, index] for removals
  Alike(_)       \* the hosts whose names end with the one of a host

VARIABLE orderers

\* Mutant: the entries that are there stay.
WithoutKeeps(list, hosts) == list

Without(list, hosts) == Filter(list, hosts)

WithoutIndex(list, i) == IF i \in DOMAIN list THEN RemoveAt(list, i) ELSE list

\* A full add takes the entries of the host out of both lists and appends new ones;
\* a plain one appends.  The addresses are searched for the name without an anchor.
After(o, c) ==
  CASE o.kind = "full" ->
         [msps |-> c.msps \cup {o.host},
          consenters |-> Append(Without(c.consenters, {o.host}), o.host),
          addresses  |-> Append(Without(c.addresses, Alike(o.host)), o.host)]
    [] o.kind = "msp"           -> [c EXCEPT !.msps = @ \cup {o.host}]
    [] o.kind = "consenter"     -> [c EXCEPT !.consenters = Append(@, o.host)]
    [] o.kind = "endpoint"      -> [c EXCEPT !.addresses = Append(@, o.host)]
    [] o.kind = "dropAddress"   -> [c EXCEPT !.addresses = WithoutIndex(@, o.index)]
    [] o.kind = "dropConsenter" -> [c EXCEPT !.consenters = WithoutIndex(@, o.index)]

SameGroup(c, d) == c.msps = d.msps /\ c.consenters = d.consenters

\* A part that the change made no difference to when it was computed is left as it
\* is.
Next ==
  \E o \in Ops :
    LET wanted == After(o, orderers) IN
    /\ SameGroup(orderers', wanted) \/ SameGroup(orderers', orderers)
    /\ orderers'.addresses \in {orderers.addresses, wanted.addresses}

Spec == [][Next]_orderers

===============================================================================
