------------------------------- MODULE MCAccounts -------------------------------
(* Small instances of Accounts. *)
EXTENDS Accounts, TLC

CONSTANTS p1, p2, t1, t2, t3

Transfer(from, to, amount) ==
  [fcn |-> "transfer", from |-> from, to |-> to, amount |-> amount]

GetTokens(to, amount) == [fcn |-> "getTokens", to |-> to, amount |-> amount]

\* The arguments of an instantiation, in which there may be one too many.
InitCall(args, x) ==
  [fcn |-> "init", args |-> args, a |-> "a", x |-> x, b |-> "b", y |-> 1]

MCOpening == [a |-> 2, b |-> 1, c |-> ABSENT]

\* Transfers of all one has, to another one and to oneself, of a negative
\* amount, of an amount that is no number; tokens enough to overflow three
\* bits; an upgrade, which initialises the accounts again.
MCRequests ==
  {Transfer("a", "b", 2), Transfer("b", "a", 2), Transfer("a", "c", 2),
   Transfer("a", "a", 1), Transfer("b", "a", -1), Transfer("b", "a", NaN),
   GetTokens("a", 3), GetTokens("b", 1),
   InitCall(4, 2), InitCall(5, 3), InitCall(4, NaN),
   [fcn |-> "delete", from |-> "a"]}

Symmetric == Permutations(Tx) \cup Permutations(Peers)

===============================================================================
