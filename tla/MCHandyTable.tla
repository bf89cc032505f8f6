---------------------------- MODULE MCHandyTable ----------------------------
(* Two tabs of one browser and a table of a date, a text, and two columns    *)
(* that were given the same field.                                           *)
EXTENDS HandyTable, TLC

CONSTANTS first, second, date, owner, shared, t1, d1

MCTabs == {first, second}
MCSymmetry == Permutations(MCTabs)

MCColumns ==
  <<[key |-> date,   date |-> TRUE,  filterable |-> TRUE],
    [key |-> owner,  date |-> FALSE, filterable |-> TRUE],
    [key |-> shared, date |-> FALSE, filterable |-> TRUE],
    [key |-> shared, date |-> FALSE, filterable |-> FALSE]>>

MCTexts == {EMPTY, t1}
MCDates == {EPOCH, d1}

=============================================================================
