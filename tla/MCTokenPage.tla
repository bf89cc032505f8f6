------------------------------- MODULE MCTokenPage -------------------------------
(* Small instances of TokenPage. *)
EXTENDS TokenPage

MCOpening == [a \in {"us", "them"} |-> IF a = "us" THEN 2 ELSE 1]

\* From another browser, all that the organisation has.
MCOtherCalls == {[fcn |-> "transfer", from |-> "us", to |-> "them", amount |-> 2]}

===============================================================================
