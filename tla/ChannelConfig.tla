----------------------------- MODULE ChannelConfig -----------------------------
(***************************************************************************)
(* What the scripts promise about the members of a channel (or of the      *)
(* consortium): every change of the configuration is one requested         *)
(* operation, applied to the configuration as it was.                      *)
(***************************************************************************)
CONSTANTS
  Founders,  \* the members the channel is created with
  Ops        \* the operations asked for, [kind |-> "add" | "remove", who]

VARIABLE members

\* The configuration after an operation: jq's ".[0] * {...}" and "del(...)".
Applied(o, set) == IF o.kind = "add" THEN set \cup {o.who} ELSE set \ {o.who}

Init == members = Founders

Next == \E o \in Ops : members' = Applied(o, members)

Spec == Init /\ [][Next]_members

================================================================================
