-------------------------------- MODULE TokenPage --------------------------------
(***************************************************************************)
(* The token transfer web application of one organisation, "us", on the    *)
(* ledger of the token contract: login and logout, the home page with its  *)
(* balance and form, the table of operations, the block events, and the    *)
(* queries and calls between them and the server.                          *)
(*                                                                         *)
(* The page is one thread of callbacks.  Every callback is one step: what  *)
(* it sends is in wire and calls afterwards, and the answers come in later *)
(* steps, in which the page may be another one.  Server, ledger and socket *)
(* are external: the server answers a query by the ledger as it is at some *)
(* moment between the query and the answer.  Answers come in the order of  *)
(* the queries, except where a fault lets one overtake.                    *)
(***************************************************************************)
EXTENDS AlertService, FiniteSets

CONSTANTS
  NaN, ABSENT, Half,   \* as in Transfers
  Opening,             \* the accounts, "us" and "them", at the beginning
  Faucet,              \* what getTokens asks for
  Amounts,             \* what the user transfers
  OtherCalls,          \* the calls that others make
  MaxBlocks, MaxClicks, MaxFaults

ASSUME LedgerAssumption ==
  /\ Half \in Nat \ {0} /\ ABSENT \notin Int /\ NaN \notin Int
  /\ Opening \in [{"us", "them"} -> Nat \cup {ABSENT}]
  /\ Faucet \in Nat /\ Amounts \subseteq Int

\* Another organisation, or another browser of this one, transfers or gets any amount,
\* also a negative one.
ASSUME OthersAssumption ==
  \A r \in OtherCalls :
    \/ /\ r \in [fcn : {"transfer"}, from : {"us", "them"}, to : {"us", "them"}, amount : Int]
       /\ r.from # r.to
    \/ r \in [fcn : {"getTokens"}, to : {"us", "them"}, amount : Int]

ASSUME BoundsAssumption == MaxBlocks \in Nat \ {0}

VARIABLES
  chain,      \* the accounts after each block
  heard,      \* the blocks whose events have reached the browser, or got lost
  calls,      \* the calls that the server has not handled
  good,       \* the name of the tokens (JWT) that the server accepts; those that it
              \* does not accept any longer have lower ones
  jwt,        \* the token in the local storage, 0 if there is none
  handlers,   \* the handlers for 'chainblock' of the socket
  page,       \* the root of the application, "login" or "home"
  inst,       \* how many home pages there have been since the browser loaded
  shown,      \* the home page and its table
  wire,       \* the queries that are not answered
  alerts,     \* the messages at the foot
  missed,     \* what the page should have been told and was not
  tableFirst, \* whether the table is attached before the page around it
  clicks, faults

vars == <<chain, heard, calls, good, jwt, handlers, page, inst, shown, wire,
          alerts, missed, tableFirst, clicks, faults>>

ledgerVars  == <<chain, heard, calls, good>>
sessionVars == <<jwt, handlers, page, inst>>
boundVars   == <<tableFirst, clicks, faults>>

Contract == INSTANCE Transfers WITH Accounts <- {"us", "them"}, Requests <- {}

Height == Len(chain)

\* What is shown is named by the number of blocks it takes account of, 0 for
\* undefined.
Blank == [ledger |-> 0, table |-> 0, loading |-> FALSE]

Init ==
  /\ chain = <<Opening>> /\ heard = 1 /\ calls = <<>>
  /\ good = 1 /\ jwt = 0
  /\ handlers = 0 /\ page = "login" /\ inst = 0 /\ shown = Blank
  /\ wire = <<>> /\ alerts = <<>> /\ missed = {}
  /\ tableFirst \in BOOLEAN
  /\ clicks = 0 /\ faults = 0

-------------------------------------------------------------------------------
(* Queries.                                                                *)

\* What is left of the queries of queryAll, sent with the token in the local
\* storage, is one "ledger" for the two that read what is shown, the account and
\* its operations.  The two for the lists of the form change nothing here, and the
\* one for the list of organisations, the only one that is waited for, matters
\* where the table waits.
Query(kind, token) ==
  [kind |-> kind, sent |-> IF kind = "ledger" THEN Height ELSE 0, jwt |-> token]

\* What was asked for a page that has been replaced: only that it is answered matters.
Gone(queries) ==
  [i \in DOMAIN queries |-> [kind |-> "gone", sent |-> 0, jwt |-> queries[i].jwt]]

QueryAll(token) == <<Query("ledger", token)>>

\* Mutant: the table asks once.
QueryOperationHistoryOnce(token) == <<Query("table", token)>> \o QueryAll(token)

\* All of it twice; the table waits for the second time.
QueryOperationHistory(token) ==
  QueryAll(token) \o <<Query("table", token)>> \o QueryAll(token)

TableAround(table, home) == IF tableFirst THEN table \o home ELSE home \o table

\* What a new home page and its table ask for.
AttachQueries(token) ==
  TableAround(QueryOperationHistory(token), QueryAll(token) \o QueryAll(token))

\* Mutant: the page does not forget the token.
LogoutKeepsToken(queries) ==
  /\ page' = "login" /\ shown' = Blank /\ wire' = Gone(queries)
  /\ UNCHANGED jwt

\* The local storage is cleared, and the login page replaces the application,
\* whose queries are still to be answered.
Logout(queries) ==
  /\ jwt' = 0
  /\ page' = "login" /\ shown' = Blank /\ wire' = Gone(queries)

\* What a block makes its subscribers ask for.  A home page subscribes twice
\* when it is attached, and the second subscription replaces the first in the
\* field that is disposed of: the first one stays, whatever becomes of the page.
BlockQueries ==
  LET token   == IF jwt = good THEN jwt ELSE 0
      left    == IF page = "home" THEN inst - 1 ELSE inst
      leaked  == [i \in 1 .. left |-> Query("gone", token)]
  IN  IF page = "home" THEN leaked \o AttachQueries(token) ELSE leaked

\* Mutant: every application adds a handler of its own.
SubscribeAgain == handlers + 1

Subscribe == IF handlers = 0 THEN 1 ELSE handlers

\* The application with its home page, whose table starts to load.
Attach(token, homes, earlier) ==
  /\ page' = "home" /\ inst' = homes + 1
  /\ shown' = [Blank EXCEPT !.loading = TRUE]
  /\ wire' = earlier \o AttachQueries(token)

\* Mutant: the answer is not told.
QueryNotTold(stack) == stack

\* It ends what is pending for the queries, whichever was answered.
QueryTold(stack) == Told(stack, "GET", "fetched")

\* fetch, when the server has accepted the token.
Answer(m, rest) ==
  /\ m.jwt # 0
  /\ \/ /\ m.kind = "ledger"
        /\ \E h \in m.sent .. Height : shown' = [shown EXCEPT !.ledger = h]
     \/ /\ m.kind = "table"
        /\ shown' = [shown EXCEPT !.table = shown.ledger, !.loading = FALSE]
     \/ /\ m.kind = "gone"
        /\ UNCHANGED shown
  /\ alerts' = QueryTold(alerts)
  /\ wire' = rest
  /\ UNCHANGED <<jwt, page>>

\* fetch, when it has not (401): the status is looked at twice.
Refused(m, rest) ==
  /\ m.jwt # good
  /\ Logout(rest)
  /\ alerts' = Info(Info(alerts))

Deliver ==
  /\ wire # <<>>
  /\ Answer(Head(wire), Tail(wire)) \/ Refused(Head(wire), Tail(wire))
  /\ UNCHANGED <<ledgerVars, handlers, inst, missed, boundVars>>

\* Fault: an answer overtakes the one before it.
Overtake ==
  /\ faults < MaxFaults /\ faults' = faults + 1
  /\ Len(wire) >= 2
  /\ Answer(wire[2], RemoveAt(wire, 2)) \/ Refused(wire[2], RemoveAt(wire, 2))
  /\ missed' = missed \cup {"answer"}
  /\ UNCHANGED <<ledgerVars, handlers, inst, tableFirst, clicks>>

\* Fault: the query fails.  The table stops loading if it has waited for it.
Fail ==
  LET m == Head(wire) IN
  /\ faults < MaxFaults /\ faults' = faults + 1
  /\ wire # <<>> /\ wire' = Tail(wire)
  /\ alerts' = Danger(alerts)
  /\ shown' = IF m.kind = "table" THEN [shown EXCEPT !.loading = FALSE] ELSE shown
  /\ missed' = missed \cup {"answer"}
  /\ UNCHANGED <<ledgerVars, sessionVars, tableFirst, clicks>>

\* Fault: the body of the answer is not JSON.  Nobody handles the rejection of
\* the inner promise, and the outer one is never settled.
Garble ==
  /\ faults < MaxFaults /\ faults' = faults + 1
  /\ wire # <<>> /\ wire' = Tail(wire)
  /\ missed' = missed \cup {"answer"}
  /\ UNCHANGED <<ledgerVars, sessionVars, shown, alerts, tableFirst, clicks>>

-------------------------------------------------------------------------------
(* Login, logout, reload.                                                  *)

\* enroll gives up if there is a token.
Login ==
  /\ page = "login" /\ jwt = 0
  /\ jwt' = good
  /\ handlers' = Subscribe
  /\ Attach(good, inst, wire)
  /\ alerts' = Pending(Told(alerts, "GET", "logged in"), "GET")
  /\ missed' = missed \ {"answer"}
  /\ UNCHANGED <<ledgerVars, boundVars>>

\* Fault: the user cannot be enrolled.
LoginFails ==
  /\ page = "login" /\ jwt = 0
  /\ faults < MaxFaults /\ faults' = faults + 1
  /\ alerts' = Danger(alerts)
  /\ UNCHANGED <<ledgerVars, sessionVars, shown, wire, missed, tableFirst, clicks>>

LogoutClicked ==
  /\ page = "home"
  /\ clicks < MaxClicks /\ clicks' = clicks + 1
  /\ Logout(wire)
  /\ alerts' = Told(alerts, "GET", "logged out")
  /\ UNCHANGED <<ledgerVars, handlers, inst, missed, tableFirst, faults>>

\* Fault: the browser loads the application again: what the page had in memory is gone,
\* and so is what was on its way; the token is still there, whatever it is worth.
Reload ==
  /\ faults < MaxFaults /\ faults' = faults + 1
  /\ IF jwt # 0
     THEN /\ Attach(IF jwt = good THEN jwt ELSE 0, 0, <<>>)
          /\ handlers' = 1 /\ alerts' = Pending(<<>>, "GET")
     ELSE /\ page' = "login" /\ inst' = 0 /\ shown' = Blank /\ wire' = <<>>
          /\ handlers' = 0 /\ alerts' = <<>>
  /\ heard' = Height /\ missed' = {}
  /\ UNCHANGED <<chain, calls, good, jwt, tableFirst, clicks>>

\* Fault: the server does not accept the tokens issued so far any longer.
Expire ==
  /\ faults < MaxFaults /\ faults' = faults + 1
  /\ good' = good + 1
  /\ UNCHANGED <<chain, heard, calls, sessionVars, shown, wire, alerts, missed,
                 tableFirst, clicks>>

-------------------------------------------------------------------------------
(* Calls and blocks.                                                       *)

\* Bound: there is a block left for every call.
BlockLeft == Height + Len(calls) < MaxBlocks

Invoke(request) ==
  /\ BlockLeft
  /\ clicks < MaxClicks /\ clicks' = clicks + 1
  /\ calls' = Append(calls, [request |-> request, jwt |-> IF jwt = good THEN jwt ELSE 0])
  /\ alerts' = Pending(alerts, "PUT")
  /\ UNCHANGED <<chain, heard, good, sessionVars, shown, wire, missed,
                 tableFirst, faults>>

Request(from, to, amount) ==
  [fcn |-> "transfer", from |-> from, to |-> to, amount |-> amount]

\* The form is compared with the balance that is shown; without one, and with
\* none to show, the comparison fails.
Transfer(amount) ==
  /\ page = "home" /\ shown.ledger # 0
  /\ chain[shown.ledger]["us"] # ABSENT
  /\ amount > 0 /\ chain[shown.ledger]["us"] >= amount
  /\ Invoke(Request("us", "them", amount))

GetTokens ==
  /\ page = "home"
  /\ Invoke([fcn |-> "getTokens", to |-> "us", amount |-> Faucet])

\* A block with a call.
AddBlock(request) ==
  chain' = Append(chain, Contract!Applied(
                           Contract!Simulate("scala", request, chain[Height]), chain[Height]))

OthersInvoke(request) ==
  /\ BlockLeft
  /\ AddBlock(request)
  /\ UNCHANGED <<heard, calls, good, sessionVars, shown, wire, alerts, missed, boundVars>>

\* The call gets into a block, valid or not.  The page does nothing with the answer
\* unless it is an error.
HandleCall ==
  /\ calls # <<>> /\ calls' = Tail(calls)
  /\ \/ /\ Head(calls).jwt # 0
        /\ AddBlock(Head(calls).request) \/ chain' = Append(chain, chain[Height])
        /\ UNCHANGED <<jwt, page, shown, wire, alerts, missed>>
     \/ /\ Head(calls).jwt # good
        /\ Logout(wire)
        /\ alerts' = Info(Info(alerts))
        /\ missed' = missed \cup {"block"}
        /\ UNCHANGED chain
  /\ UNCHANGED <<heard, good, handlers, inst, boundVars>>

\* Fault: the call fails, or only the answer gets lost.  The error is told in
\* the scope of the queries.
CallFails ==
  /\ faults < MaxFaults /\ faults' = faults + 1
  /\ calls # <<>> /\ calls' = Tail(calls)
  /\ AddBlock(Head(calls).request) \/ UNCHANGED chain
  /\ alerts' = Danger(alerts)
  /\ missed' = missed \cup {"block"}
  /\ UNCHANGED <<heard, good, sessionVars, shown, wire, tableFirst, clicks>>

\* It ends what is pending for the calls, whoever called.
BlockTold(stack) == Told(stack, "PUT", "new block")

\* The event of a block.
BlockEvent ==
  /\ heard < Height /\ heard' = heard + 1
  /\ IF handlers = 0 THEN UNCHANGED <<shown, wire, alerts, missed>>
     ELSE /\ wire' = wire \o BlockQueries
          /\ alerts' = IF BlockQueries = <<>> THEN BlockTold(alerts)
                       ELSE Pending(BlockTold(alerts), "GET")
          /\ shown' = IF page = "home" THEN [shown EXCEPT !.loading = TRUE] ELSE shown
          /\ missed' = {}
  /\ UNCHANGED <<chain, calls, good, sessionVars, boundVars>>

\* Fault: the socket was not connected.
BlockEventLost ==
  /\ heard < Height /\ heard' = heard + 1
  /\ faults < MaxFaults /\ faults' = faults + 1
  /\ missed' = {"answer", "block"}
  /\ UNCHANGED <<chain, calls, good, sessionVars, shown, wire, alerts,
                 tableFirst, clicks>>

Faults ==
  \/ Overtake \/ Fail \/ Garble \/ LoginFails \/ Reload \/ Expire \/ CallFails
  \/ BlockEventLost

Next ==
  \/ Deliver \/ HandleCall \/ BlockEvent
  \/ Login \/ LogoutClicked \/ GetTokens
  \/ \E amount \in Amounts : Transfer(amount)
  \/ \E request \in OtherCalls : OthersInvoke(request)
  \/ Faults

\* The network answers, the server handles, the socket tells; and whoever is
\* logged out logs in again.
Fairness ==
  /\ WF_vars(Deliver) /\ WF_vars(HandleCall) /\ WF_vars(BlockEvent) /\ WF_vars(Login)

Spec == Init /\ [][Next]_vars /\ Fairness

-------------------------------------------------------------------------------
(* Properties.                                                             *)

Shown == 0 .. Height

\* The page has seen what there is, listens once, and waits for answers about what
\* there is.
TypeOK ==
  /\ heard \in 1 .. Height /\ handlers \in {0, 1} /\ page \in {"login", "home"}
  /\ good \in Nat /\ jwt \in 0 .. good
  /\ shown.ledger \in Shown /\ shown.table \in Shown
  /\ wire \in Seq([kind : {"ledger", "table", "gone"}, sent : 0 .. Height,
                   jwt : 0 .. good])

\* The form lets the same balance be spent twice, as it compares with what is
\* shown (home.js:49): the ledger does not.  In a block that changes both accounts
\* one of them pays, and is not overdrawn, although anybody may have got a negative
\* amount of tokens before (TransferOperations.scala:16-37,68-83).
NoOverdraft ==
  \A h \in 2 .. Height :
    (\A a \in {"us", "them"} : chain[h][a] # chain[h - 1][a]) =>
      \E from \in {"us", "them"} :
        /\ chain[h - 1][from] # ABSENT
        /\ chain[h][from] < chain[h - 1][from] /\ chain[h][from] >= 0

\* However many queries are on their way, one message is pending for them, and
\* the stack does not grow (alert-service.js:26-52).
AlertsBounded ==
  /\ Len(alerts) <= MaxStack
  /\ \A scope \in {"GET", "PUT"} :
       \A i, j \in DOMAIN alerts :
         IsPending(alerts[i], scope) /\ IsPending(alerts[j], scope) => i = j

\* The page ends up showing the ledger as it is, balance and table: with the
\* last block, unless since then an answer or the event itself was lost, or an
\* answer overtook another.  The table is told what the page has read before, by
\* queries that it does not wait for (home.js:85-94, 155-166).
EventuallyCurrent ==
  <>[](/\ page = "home"
       /\ "answer" \in missed \/ (shown.ledger = Height /\ shown.table = Height))

\* Whoever is logged out because of a rejected token gets in again, although
\* answers to queries without a token, those of pages long gone included, throw
\* him out again (chaincode-service.js:53-57, home.js:73-79).
SessionReturns == <>[](page = "home" /\ jwt # 0)

\* Nothing stays pending at the foot, unless what would have ended it was lost:
\* the answer to the last query, or, for calls, whose answers end nothing, the
\* event of a block (chaincode-service.js:153-173).
PendingEnds ==
  <>[](/\ "answer" \in missed \/ \A m \in ToSet(alerts) : ~IsPending(m, "GET")
       /\ "block" \in missed \/ \A m \in ToSet(alerts) : ~IsPending(m, "PUT"))

===============================================================================
