---------------------------- MODULE MCRaftConsenters ----------------------------
(* Small instances of RaftConsenters. *)
EXTENDS RaftConsenters, TLC

CONSTANTS w1, w2, o1, o2, o3, o4

MCFounders == <<o1, o3>>

\* The name of o3 ends with the one of o2.
MCAlike(h) == IF h = o2 THEN {o2, o3} ELSE {h}

\* Full adds of new orderers and, once more, of one that is there; plain ones; a
\* removal.
MCOps == {[kind |-> "full", host |-> o2], [kind |-> "full", host |-> o3],
          [kind |-> "full", host |-> o4], [kind |-> "msp", host |-> o2],
          [kind |-> "consenter", host |-> o4], [kind |-> "endpoint", host |-> o4],
          [kind |-> "dropAddress", index |-> 1], [kind |-> "dropConsenter", index |-> 1]}

Symmetric == Permutations(Workers)

===============================================================================
