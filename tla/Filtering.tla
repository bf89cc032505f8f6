-------------------------------- MODULE Filtering --------------------------------
(***************************************************************************)
(* A sequence without some elements, as the filters of the web application *)
(* and of the Raft scripts make it: what stays keeps its order.            *)
(***************************************************************************)
EXTENDS Integers, Sequences

\* n -> what stays of the first n elements.
Kept(s, gone) ==
  LET kept[n \in 0 .. Len(s)] ==
        IF n = 0 THEN <<>>
        ELSE IF s[n] \in gone THEN kept[n - 1] ELSE Append(kept[n - 1], s[n])
  IN  kept

Filter(s, gone) == Kept(s, gone)[Len(s)]

===============================================================================
