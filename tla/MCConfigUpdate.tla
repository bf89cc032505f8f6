----------------------------- MODULE MCConfigUpdate -----------------------------
(* Small instances of ConfigUpdate. *)
EXTENDS ConfigUpdate, TLC

CONSTANTS w1, w2, d1, d2, org1, org2, org3, org4

\* Two organisations are added, one of the founders is removed.
MCOps == {[kind |-> "add", who |-> org2], [kind |-> "add", who |-> org3],
          [kind |-> "remove", who |-> org4]}

MCAdd == {[kind |-> "add", who |-> org2], [kind |-> "add", who |-> org3]}

Symmetric == Permutations(Workers) \cup Permutations(Dirs)

=================================================================================
