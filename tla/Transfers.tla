------------------------------- MODULE Transfers -------------------------------
(***************************************************************************)
(* What the account chaincodes of the repository make of a call: the three *)
(* copies of example02 (Go, Node.js, Java) and the token contract (Scala). *)
(* A call is simulated against the accounts as a peer knows them, s, and   *)
(* results in what it has read, what it wants to write and what it answers.*)
(*                                                                         *)
(* Go, Java and Scala compute with integers of a fixed width (Atoi and     *)
(* parseInt refuse what does not fit), Node.js with numbers, among them    *)
(* NaN, which parseInt makes of a text that is no number.                  *)
(***************************************************************************)
EXTENDS Integers

CONSTANTS
  Accounts,  \* the ledger keys in use
  Half,      \* 2^(w-1) for integers of w bits
  Requests,  \* the calls, records as described below
  NaN,       \* a text that is no number, and the number Node.js makes of it
  ABSENT     \* the key is not there

(***************************************************************************)
(* Requests.                                                               *)
(*   [fcn |-> "init", args, a, x, b, y]   args is their number             *)
(*   [fcn |-> "transfer", from, to, amount]                                *)
(*   [fcn |-> "delete", from]                                              *)
(*   [fcn |-> "getTokens", to, amount]    to is the caller                 *)
(***************************************************************************)
ASSUME HalfAssumption == Half \in Nat \ {0}

ASSUME NumberAssumption == NaN \notin Int /\ ABSENT \notin Int /\ NaN # ABSENT

\* What fits, in Go, Java and Scala.
Fitting == -Half .. Half - 1

ASSUME RequestsAssumption ==
  \A r \in Requests :
    /\ r.fcn \in {"transfer", "delete"} => r.from \in Accounts
    /\ r.fcn \in {"transfer", "getTokens"} =>
         r.to \in Accounts /\ r.amount \in Fitting \cup {NaN}
    /\ r.fcn = "init" => r.x \in Fitting \cup {NaN} /\ r.y \in Fitting \cup {NaN}

\* Mutant: numbers without a width.
Unbounded(x) == x

\* Two's complement.
Wrap(x) == ((x + Half) % (2 * Half)) - Half

Fixed == {"go", "java", "scala"}

Plus(lang, x, y) ==
  IF NaN \in {x, y} THEN NaN ELSE IF lang \in Fixed THEN Wrap(x + y) ELSE x + y

Minus(lang, x, y) ==
  IF NaN \in {x, y} THEN NaN ELSE IF lang \in Fixed THEN Wrap(x - y) ELSE x - y

-------------------------------------------------------------------------------
(* The result of a call: the answer, the keys read, the values written, and *)
(* whether the contract enters the call into its history of operations.     *)

NoWrites == [k \in {} |-> ABSENT]

Error(reads) == [ok |-> FALSE, reads |-> reads, writes |-> NoWrites, noted |-> FALSE]

Success(reads, writes, noted) ==
  [ok |-> TRUE, reads |-> reads, writes |-> writes, noted |-> noted]

\* Mutant: the payer's account is written last.
PutBothReversed(a, x, b, y) == [k \in {a, b} |-> IF k = a THEN x ELSE y]

\* Two puts, of which the second one stays if they are for the same key.
PutBoth(a, x, b, y) == [k \in {a, b} |-> IF k = b THEN y ELSE x]

InitGo(r) ==
  IF r.args # 4 \/ NaN \in {r.x, r.y} THEN Error({})
  ELSE Success({}, PutBoth(r.a, r.x, r.b, r.y), FALSE)

\* The type of what parseInt returns is always "number".
InitNode(r) ==
  IF r.args # 4 THEN Error({}) ELSE Success({}, PutBoth(r.a, r.x, r.b, r.y), FALSE)

\* The error made for a wrong number of arguments is not returned: too few
\* raise an exception, more are ignored.
InitJava(r) ==
  IF r.args < 4 \/ NaN \in {r.x, r.y} THEN Error({})
  ELSE Success({}, PutBoth(r.a, r.x, r.b, r.y), FALSE)

MoveGo(r, s) ==
  IF s[r.from] = ABSENT THEN Error({r.from})
  ELSE IF s[r.to] = ABSENT \/ r.amount = NaN THEN Error({r.from, r.to})
  ELSE Success({r.from, r.to},
               PutBoth(r.from, Minus("go", s[r.from], r.amount),
                       r.to, Plus("go", s[r.to], r.amount)), FALSE)

\* A missing key is answered with an empty buffer, which passes the check and
\* is no number.
InvokeNode(r, s) ==
  LET number(a) == IF s[a] = ABSENT THEN NaN ELSE s[a]
  IN  Success({r.from, r.to},
              PutBoth(r.from, Minus("node", number(r.from), r.amount),
                      r.to, Plus("node", number(r.to), r.amount)), FALSE)

\* Mutant: without the check of the payer's balance.
InvokeJavaUnchecked(r, s) ==
  IF ABSENT \in {s[r.from], s[r.to]} \/ r.amount = NaN THEN Error({r.from, r.to})
  ELSE Success({r.from, r.to},
               PutBoth(r.from, Minus("java", s[r.from], r.amount),
                       r.to, Plus("java", s[r.to], r.amount)), FALSE)

InvokeJava(r, s) ==
  IF s[r.from] = ABSENT THEN Error({r.from})
  ELSE IF s[r.to] = ABSENT \/ r.amount = NaN \/ r.amount > s[r.from]
  THEN Error({r.from, r.to})
  ELSE Success({r.from, r.to},
               PutBoth(r.from, Minus("java", s[r.from], r.amount),
                       r.to, Plus("java", s[r.to], r.amount)), FALSE)

\* Mutant: without the check of the sender's balance.
GrantedUnchecked(r, s) == s[r.from] # ABSENT /\ r.from # r.to /\ r.amount >= 0

\* Whether the for comprehension gets to its yield.
Granted(r, s) ==
  /\ s[r.from] # ABSENT
  /\ r.from # r.to
  /\ r.amount >= 0
  /\ s[r.from] >= r.amount

\* Mutant: a refused transfer is entered into the history like a granted one.
TransferScalaNoted(r, s) ==
  IF ~Granted(r, s) THEN Success({r.from}, NoWrites, TRUE)
  ELSE Success({r.from, r.to},
         [k \in {r.from, r.to} |->
            IF k = r.from THEN s[r.from] - r.amount
            ELSE IF s[r.to] = ABSENT THEN r.amount ELSE Plus("scala", s[r.to], r.amount)],
         TRUE)

\* The answer is Success() in any case.  A receiver without an account gets
\* one.
TransferScala(r, s) ==
  IF ~Granted(r, s) THEN Success({r.from}, NoWrites, FALSE)
  ELSE Success({r.from, r.to},
         [k \in {r.from, r.to} |->
            IF k = r.from THEN s[r.from] - r.amount
            ELSE IF s[r.to] = ABSENT THEN r.amount ELSE Plus("scala", s[r.to], r.amount)],
         TRUE)

GetTokensScala(r, s) ==
  Success({r.to},
    [k \in {r.to} |->
       IF s[r.to] = ABSENT THEN r.amount ELSE Plus("scala", s[r.to], r.amount)],
    TRUE)

Delete(r) == Success({}, [k \in {r.from} |-> ABSENT], FALSE)

\* A call that the router of the chaincode takes, with arguments that reach
\* the handler: Scala's converts the amount to an integer first.
Routed(lang, r) ==
  IF lang = "scala" THEN r.fcn \in {"transfer", "getTokens"} /\ r.amount # NaN
  ELSE r.fcn \in {"init", "transfer", "delete"}

Simulate(lang, r, s) ==
  CASE r.fcn = "init" /\ lang = "go"         -> InitGo(r)
    [] r.fcn = "init" /\ lang = "node"       -> InitNode(r)
    [] r.fcn = "init" /\ lang = "java"       -> InitJava(r)
    [] r.fcn = "transfer" /\ lang = "go"    -> MoveGo(r, s)
    [] r.fcn = "transfer" /\ lang = "node"  -> InvokeNode(r, s)
    [] r.fcn = "transfer" /\ lang = "java"  -> InvokeJava(r, s)
    [] r.fcn = "transfer" /\ lang = "scala" -> TransferScala(r, s)
    [] r.fcn = "delete"                     -> Delete(r)
    [] r.fcn = "getTokens"                  -> GetTokensScala(r, s)

\* The accounts after the writes of a result.
Applied(result, s) ==
  [a \in Accounts |-> IF a \in DOMAIN result.writes THEN result.writes[a] ELSE s[a]]

===============================================================================
