-------------------------------- MODULE Accounts --------------------------------
(***************************************************************************)
(* The account chaincodes on their channel.  Every handler gets the stub   *)
(* of its transaction as an argument, so that a call is simulated against  *)
(* one state of its peer, whatever else the chaincode process does, and    *)
(* the simulation is one step; what makes calls interfere is that the      *)
(* peer may be behind, and that others are ordered before.                 *)
(*                                                                         *)
(* Peers, ordering service and client are external, as in DnsRegistry.     *)
(***************************************************************************)
EXTENDS Transfers, FiniteSets, FiniteSetsExt

CONSTANTS
  Peers, Tx,
  Opening    \* the accounts after the instantiation, ABSENT where there is none

ASSUME OpeningAssumption == Opening \in [Accounts -> Fitting \cup {ABSENT}]

ASSUME TxAssumption == IsFiniteSet(Tx)

\* No organisation has the name that stands for where tokens come from.
ASSUME AccountsAssumption == IsFiniteSet(Accounts) /\ "faucet" \notin Accounts

VARIABLES
  lang,       \* the chaincode that is installed
  committed,  \* account -> [ver, val]
  ledger,     \* peer -> the same, as far as the peer has committed blocks
  history,    \* the operations entered into the history of the token contract
  pc,         \* transaction -> where it stands
  req,        \* transaction -> its call, ABSENT before
  seen,       \* transaction -> the accounts it has read, with their versions
  result      \* transaction -> the result of the simulation

vars == <<lang, committed, ledger, history, pc, req, seen, result>>

Values(state) == [a \in Accounts |-> state[a].val]

Init ==
  /\ lang \in {"go", "node", "java", "scala"}
  /\ committed = [a \in Accounts |->
                    [ver |-> 0, val |-> IF lang = "scala" THEN ABSENT ELSE Opening[a]]]
  /\ ledger = [p \in Peers |-> committed]
  /\ history = {}
  /\ pc = [t \in Tx |-> "idle"]
  /\ req = [t \in Tx |-> ABSENT]
  /\ seen = [t \in Tx |-> [a \in {} |-> 0]]
  /\ result = [t \in Tx |-> Error({})]

\* Mutant: the receiver's balance comes without its version.
EndorseUnread(t, p, r) ==
  LET res == Simulate(lang, r, Values(ledger[p])) IN
  /\ pc[t] = "idle" /\ Routed(lang, r)
  /\ pc' = [pc EXCEPT ![t] = IF res.ok THEN "endorsed" ELSE "failed"]
  /\ req' = [req EXCEPT ![t] = r]
  /\ result' = [result EXCEPT ![t] = res]
  /\ seen' = [seen EXCEPT ![t] =
       [a \in IF r.fcn = "transfer" THEN {r.from} ELSE res.reads |-> ledger[p][a].ver]]
  /\ UNCHANGED <<lang, committed, ledger, history>>

\* A call, simulated by a peer.
Endorse(t, p, r) ==
  LET res == Simulate(lang, r, Values(ledger[p])) IN
  /\ pc[t] = "idle" /\ Routed(lang, r)
  /\ pc' = [pc EXCEPT ![t] = IF res.ok THEN "endorsed" ELSE "failed"]
  /\ req' = [req EXCEPT ![t] = r]
  /\ result' = [result EXCEPT ![t] = res]
  /\ seen' = [seen EXCEPT ![t] = [a \in res.reads |-> ledger[p][a].ver]]
  /\ UNCHANGED <<lang, committed, ledger, history>>

Current(t) == \A a \in DOMAIN seen[t] : seen[t][a] = committed[a].ver

\* The operation as the history has it.  Tokens come from the faucet.
Noted(t) ==
  [tx |-> t, from |-> IF req[t].fcn = "transfer" THEN req[t].from ELSE "faucet",
   to |-> req[t].to, amount |-> req[t].amount]

CommitValid(t) ==
  /\ pc[t] = "endorsed" /\ Current(t)
  /\ pc' = [pc EXCEPT ![t] = "valid"]
  /\ committed' = [a \in Accounts |->
       IF a \in DOMAIN result[t].writes
       THEN [ver |-> committed[a].ver + 1, val |-> result[t].writes[a]]
       ELSE committed[a]]
  /\ history' = IF result[t].noted THEN history \cup {Noted(t)} ELSE history
  /\ UNCHANGED <<lang, ledger, req, seen, result>>

\* Another transaction was faster; or the client has given up.
CommitInvalid(t) ==
  /\ pc[t] = "endorsed"
  /\ pc' = [pc EXCEPT ![t] = IF Current(t) THEN "failed" ELSE "invalid"]
  /\ UNCHANGED <<lang, committed, ledger, history, req, seen, result>>

Deliver(p) ==
  /\ ledger[p] # committed
  /\ ledger' = [ledger EXCEPT ![p] = committed]
  /\ UNCHANGED <<lang, committed, history, pc, req, seen, result>>

Done ==
  /\ \A t \in Tx : pc[t] \in {"failed", "valid", "invalid"}
  /\ \A p \in Peers : ledger[p] = committed
  /\ UNCHANGED vars

Next ==
  \/ \E t \in Tx, p \in Peers, r \in Requests : Endorse(t, p, r)
  \/ \E t \in Tx : CommitValid(t) \/ CommitInvalid(t)
  \/ \E p \in Peers : Deliver(p)
  \/ Done

Spec == Init /\ [][Next]_vars

-------------------------------------------------------------------------------
(* Properties.                                                             *)

Balance(a) == committed[a].val

Amounts == (IF lang = "node" THEN Int \cup {NaN} ELSE Fitting) \cup {ABSENT}

\* Numbers are what the chaincode can store.
TypeOK == \A a \in Accounts : Balance(a) \in Amounts

\* Every change of the accounts is one call, whole, on the accounts as they
\* are, although it was computed from what a peer knew some time ago, and both
\* accounts of a transfer were read and written one after the other.
B == INSTANCE Bank WITH balance <- Values(committed)
Serializable == B!Spec

Committed(t) == pc[t] = "endorsed" /\ pc'[t] = "valid"

\* The sum of the accounts that have a number, as the chaincode would compute it.
Total(state) ==
  LET worth(a) == IF state[a].val \in {ABSENT, NaN} THEN 0 ELSE state[a].val
      sum      == MapThenSumSet(worth, Accounts)
  IN  IF lang \in Fixed THEN Wrap(sum) ELSE sum

\* In Node.js neither a missing account nor an amount that is no number is refused.
Unchecked(t) ==
  /\ lang = "node"
  /\ {Balance(req[t].from), Balance(req[t].to), req[t].amount} \cap {ABSENT, NaN} # {}

\* A transfer makes and destroys nothing, even when a balance overflows, with two
\* exceptions, both in example02.  Whoever pays himself gets the amount, because both
\* balances are read before the first is written (chaincode_example02.go:100-136,
\* chaincode_example02.js:72-98, SimpleChaincode.java:76-99).  And in Node.js, where
\* the checks of what is missing or no number never fire
\* (chaincode_example02.js:75,81,88), payer or payee is no number afterwards: what he
\* had, or was paid, is lost; all other accounts, those that are no number included,
\* are not concerned.
Conserved ==
  [][\A t \in Tx :
       Committed(t) /\ req[t].fcn = "transfer" =>
         IF Unchecked(t) THEN NaN \in {Balance(req[t].from)', Balance(req[t].to)'}
         ELSE Total(committed') =
                IF req[t].from = req[t].to /\ lang # "scala"
                THEN Plus(lang, Total(committed), req[t].amount) ELSE Total(committed)]_vars

\* Where the chaincode checks the payer's balance, the check holds when the
\* transfer takes effect, and not only when it was simulated: nobody spends
\* the same money twice (SimpleChaincode.java:88, TransferOperations.scala:22).
NoDoubleSpend ==
  [][\A t \in Tx :
       /\ Committed(t) /\ req[t].fcn = "transfer" /\ DOMAIN result[t].writes # {}
       /\ lang \in {"java", "scala"}
       => Balance(req[t].from) >= req[t].amount]_vars

\* The history of operations of the token contract explains every balance, and
\* nothing is in it that did not take effect, although a refused transfer is
\* answered with Success() like any other (TransferOperations.scala:16-37).
HistoryExplains ==
  lang = "scala" =>
    \A a \in Accounts :
      LET in  == {h \in history : h.to = a}
          out == {h \in history : h.from = a}
      IN  IF in = {} THEN Balance(a) = ABSENT
          ELSE Balance(a) = Wrap(MapThenSumSet(LAMBDA h : h.amount, in)
                                 - MapThenSumSet(LAMBDA h : h.amount, out))

===============================================================================
