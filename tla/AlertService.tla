------------------------------ MODULE AlertService ------------------------------
(***************************************************************************)
(* The messages that the web application shows at its foot, newest first:  *)
(* the service every other one reports to.  A message is a record of its   *)
(* type, its scope (GET or PUT) and, where it matters, its text; the time, *)
(* which a repeated message refreshes, is left out.                        *)
(***************************************************************************)
EXTENDS Filtering, SequencesExt

CONSTANT MaxStack    \* _messageStackMaxSize

ASSUME MaxStackAssumption == MaxStack \in Nat \ {0}

IsPending(m, scope) == m.type = "pending" /\ m.scope = scope

\* The success of a query, told again right after it was told.
Repeats(m, stack) ==
  /\ stack # <<>>
  /\ m.type = "success" /\ m.scope = "GET"
  /\ Head(stack).type = m.type /\ Head(stack).text = m.text

\* What is not pending in a scope.
Others(stack, scope) == Filter(stack, {x \in ToSet(stack) : IsPending(x, scope)})

IsWaiting(stack, scope) == \E i \in DOMAIN stack : IsPending(stack[i], scope)

\* Mutant: the stack grows.
OnNewMessageUncapped(stack, m) ==
  IF IsWaiting(stack, m.scope) /\ m.type = "pending" THEN stack
  ELSE <<m>> \o Others(stack, m.scope)

\* At most one message is pending in a scope; any other message of the scope
\* takes its place, which nothing is cut off for.
OnNewMessage(stack, m) ==
  IF Repeats(m, stack) THEN stack
  ELSE IF ~IsWaiting(stack, m.scope)
  THEN SubSeq(<<m>> \o stack, 1, IF Len(stack) < MaxStack THEN Len(stack) + 1 ELSE MaxStack)
  ELSE IF m.type = "pending" THEN stack
  ELSE LET others == Others(stack, m.scope)
       IN  IF Repeats(m, others) THEN others ELSE <<m>> \o others

Message(type, scope, text) == [type |-> type, scope |-> scope, text |-> text]

Pending(stack, scope)    == OnNewMessage(stack, Message("pending", scope, ""))
Info(stack)              == OnNewMessage(stack, Message("info", "GET", ""))
Danger(stack)            == OnNewMessage(stack, Message("danger", "GET", ""))
Told(stack, scope, text) == OnNewMessage(stack, Message("success", scope, text))

===============================================================================
