------------------------------ MODULE WebProofs ------------------------------
(***************************************************************************)
(* Proofs about the token transfer web application, for any opening        *)
(* balances, amounts, columns, tabs, bounds, and numbers of queries on     *)
(* their way.  The page: the types of its state, the bounds of its stack   *)
(* of messages, and, on the ledger, that nobody pays what he has not.  The *)
(* table: the types of columns and profile, that it shows what its filters *)
(* ask for, and that a profile is restored as it was stored.               *)
(***************************************************************************)
EXTENDS TokenPage, HandyTable, WellFoundedInduction, TLAPS

-------------------------------------------------------------------------------
(* Numbers.                                                                *)

\* A set of numbers has a least one.
LEMMA Least ==
  ASSUME NEW X, X \subseteq Nat, X # {}
  PROVE  \E m \in X : \A k \in X : m <= k
<1>1. \E m \in X : \A k \in X : ~ (<<k, m>> \in OpToRel(<,Nat))
  BY NatLessThanWellFounded, WFMin
<1>2. ASSUME NEW m \in X, \A k \in X : ~ (<<k, m>> \in OpToRel(<,Nat))
      PROVE  \A k \in X : m <= k
  <2>1. \A k \in X : ~(k < m)
    BY <1>2 DEF OpToRel
  <2> QED
    BY <2>1
<1> QED
  BY <1>1, <1>2

\* What holds for 0 and goes on from a number to the next one holds for all.
LEMMA Induct ==
  ASSUME NEW S, 0 \in S, \A n \in Nat : n \in S => n + 1 \in S
  PROVE  Nat \subseteq S
<1> SUFFICES ASSUME ~(Nat \subseteq S) PROVE FALSE
  OBVIOUS
<1> DEFINE X == Nat \ S
<1>1. PICK m \in X : \A k \in X : m <= k
  BY Least
<1>2. m # 0 /\ m - 1 \in Nat /\ m - 1 \notin X
  BY <1>1
<1> QED
  BY <1>1, <1>2

-------------------------------------------------------------------------------
(* What a filter leaves of a sequence.                                     *)

\* k[n] is what a filter has kept of the first n elements, up to m.
IsKept(k, s, gone, m) ==
  /\ k[0] = <<>>
  /\ \A n \in Nat : n < m =>
       k[n + 1] = IF s[n + 1] \in gone THEN k[n] ELSE Append(k[n], s[n + 1])

\* There is such a function,
LEMMA KeptExists ==
  ASSUME NEW T, NEW s \in Seq(T), NEW gone
  PROVE  \E k \in [0 .. Len(s) -> Seq(T)] : IsKept(k, s, gone, Len(s))
<1> DEFINE P(m) == \E k \in [0 .. m -> Seq(T)] : IsKept(k, s, gone, m)
<1> DEFINE S == {m \in Nat : m <= Len(s) => P(m)}
<1>1. 0 \in S
  <2>1. [n \in 0 .. 0 |-> <<>>] \in [0 .. 0 -> Seq(T)]
    OBVIOUS
  <2>2. IsKept([n \in 0 .. 0 |-> <<>>], s, gone, 0)
    BY DEF IsKept
  <2> QED
    BY <2>1, <2>2
<1>2. ASSUME NEW m \in Nat, m \in S PROVE m + 1 \in S
  <2> SUFFICES ASSUME m + 1 <= Len(s) PROVE P(m + 1)
    OBVIOUS
  <2>1. PICK k \in [0 .. m -> Seq(T)] : IsKept(k, s, gone, m)
    BY <1>2
  <2> DEFINE next == IF s[m + 1] \in gone THEN k[m] ELSE Append(k[m], s[m + 1])
             l == [n \in 0 .. m + 1 |-> IF n = m + 1 THEN next ELSE k[n]]
  <2>2. next \in Seq(T)
    OBVIOUS
  <2>3. l \in [0 .. m + 1 -> Seq(T)]
    <3> HIDE DEF next
    <3> QED
      BY <2>2
  <2>4. l[m + 1] = next /\ \A n \in 0 .. m : l[n] = k[n]
    <3> HIDE DEF next
    <3> QED
      OBVIOUS
  <2>5. IsKept(l, s, gone, m + 1)
    <3> HIDE DEF l
    <3>1. l[0] = <<>>
      BY <2>1, <2>4 DEF IsKept
    <3>2. ASSUME NEW n \in Nat, n < m + 1
          PROVE  l[n + 1] = IF s[n + 1] \in gone THEN l[n] ELSE Append(l[n], s[n + 1])
      <4>1. CASE n = m
        BY <4>1, <2>4
      <4>2. CASE n < m
        <5>1. n \in 0 .. m /\ n + 1 \in 0 .. m
          BY <4>2
        <5> QED
          BY <4>2, <5>1, <2>1, <2>4 DEF IsKept
      <4> QED
        BY <4>1, <4>2, <3>2
    <3> QED
      BY <3>1, <3>2 DEF IsKept
  <2> QED
    BY <2>3, <2>5
<1>3. Nat \subseteq S
  <2> HIDE DEF S
  <2> QED
    BY <1>1, <1>2, Induct
<1> QED
  BY <1>3

\* and the one the model defines is one.
LEMMA KeptIsKept ==
  ASSUME NEW T, NEW s \in Seq(T), NEW gone
  PROVE  IsKept(Kept(s, gone), s, gone, Len(s))
<1> DEFINE F(k) == [n \in 0 .. Len(s) |-> IF n = 0 THEN <<>>
             ELSE IF s[n] \in gone THEN k[n - 1] ELSE Append(k[n - 1], s[n])]
<1>1. PICK k \in [0 .. Len(s) -> Seq(T)] : IsKept(k, s, gone, Len(s))
  BY KeptExists
<1>2. k = F(k)
  <2> SUFFICES ASSUME NEW n \in 0 .. Len(s) PROVE k[n] = F(k)[n]
    BY <1>1
  <2>1. CASE n = 0
    BY <2>1, <1>1 DEF IsKept
  <2>2. CASE n # 0
    <3>1. n - 1 \in Nat /\ n - 1 < Len(s) /\ (n - 1) + 1 = n
      BY <2>2
    <3>2. k[n] = IF s[n] \in gone THEN k[n - 1] ELSE Append(k[n - 1], s[n])
      BY <1>1, <3>1 DEF IsKept
    <3> QED
      BY <3>2, <2>2
  <2> QED
    BY <2>1, <2>2
<1>3. Kept(s, gone) = CHOOSE j : j = F(j)
  BY DEF Kept
<1>4. Kept(s, gone) = F(Kept(s, gone))
  BY <1>2, <1>3
<1> DEFINE j == Kept(s, gone)
<1>5. j = F(j)
  BY <1>4
<1> HIDE DEF j
<1>6. j[0] = <<>>
  BY <1>5
<1>7. ASSUME NEW n \in Nat, n < Len(s)
      PROVE  j[n + 1] = IF s[n + 1] \in gone THEN j[n] ELSE Append(j[n], s[n + 1])
  <2>1. n + 1 \in 0 .. Len(s) /\ n + 1 # 0 /\ (n + 1) - 1 = n
    BY <1>7
  <2>2. j[n + 1] = F(j)[n + 1]
    BY <1>5
  <2> QED
    BY <2>1, <2>2
<1> QED
  BY <1>6, <1>7 DEF IsKept, j

\* What the filter has kept of the first m elements: those that are not gone, each
\* from a place of its own.
KeptWell(t, T, s, gone, m) ==
  /\ t \in Seq(T) /\ Len(t) <= m
  /\ \A i \in 1 .. Len(t) : t[i] \notin gone
  /\ (\E i \in 1 .. m : s[i] \in gone) => Len(t) < m
  /\ \E f \in [1 .. Len(t) -> 1 .. m] :
       \A i, j \in 1 .. Len(t) : t[i] = s[f[i]] /\ (f[i] = f[j] => i = j)

\* One more element.
LEMMA KeptStep ==
  ASSUME NEW T, NEW s \in Seq(T), NEW gone, NEW m \in Nat, m + 1 <= Len(s), NEW t,
         KeptWell(t, T, s, gone, m)
  PROVE  KeptWell(IF s[m + 1] \in gone THEN t ELSE Append(t, s[m + 1]), T, s, gone, m + 1)
<1>1. PICK f \in [1 .. Len(t) -> 1 .. m] :
        \A i, j \in 1 .. Len(t) : t[i] = s[f[i]] /\ (f[i] = f[j] => i = j)
  BY DEF KeptWell
<1>2. CASE s[m + 1] \in gone
  <2>1. f \in [1 .. Len(t) -> 1 .. m + 1]
    OBVIOUS
  <2> QED
    BY <1>1, <1>2, <2>1 DEF KeptWell
<1>3. CASE s[m + 1] \notin gone
  <2> DEFINE u == Append(t, s[m + 1])
             g == [i \in 1 .. Len(t) + 1 |-> IF i = Len(t) + 1 THEN m + 1 ELSE f[i]]
  <2>1. /\ u \in Seq(T) /\ Len(u) = Len(t) + 1 /\ u[Len(t) + 1] = s[m + 1]
        /\ \A i \in 1 .. Len(t) : u[i] = t[i]
    BY DEF KeptWell
  <2>2. ASSUME NEW i \in 1 .. Len(u) PROVE u[i] \notin gone
    <3> HIDE DEF u, g
    <3>1. i = Len(t) + 1 \/ i \in 1 .. Len(t)
      BY <2>1
    <3>2. \A k \in 1 .. Len(t) : t[k] \notin gone
      BY DEF KeptWell
    <3> QED
      BY <1>3, <2>1, <3>1, <3>2
  <2>3. (\E i \in 1 .. m + 1 : s[i] \in gone) => Len(u) < m + 1
    <3> HIDE DEF u
    <3>1. \A i \in 1 .. m + 1 : i = m + 1 \/ i \in 1 .. m
      OBVIOUS
    <3> QED
      BY <2>1, <1>3, <3>1 DEF KeptWell
  <2>4. g \in [1 .. Len(u) -> 1 .. m + 1]
    <3> HIDE DEF u
    <3> QED
      BY <2>1
  <2>5. ASSUME NEW i \in 1 .. Len(u), NEW j \in 1 .. Len(u)
        PROVE  u[i] = s[g[i]] /\ (g[i] = g[j] => i = j)
    <3> HIDE DEF u
    <3>1. \A n \in 1 .. Len(u) : n = Len(t) + 1 \/ n \in 1 .. Len(t)
      BY <2>1
    <3>2. g[Len(t) + 1] = m + 1 /\ \A n \in 1 .. Len(t) : g[n] = f[n] /\ f[n] # m + 1
      OBVIOUS
    <3> HIDE DEF g
    <3> QED
      BY <1>1, <2>1, <3>1, <3>2
  <2>6. \E h \in [1 .. Len(u) -> 1 .. m + 1] :
          \A i, j \in 1 .. Len(u) : u[i] = s[h[i]] /\ (h[i] = h[j] => i = j)
    <3> HIDE DEF u, g
    <3> QED
      BY <2>4, <2>5
  <2>7. Len(u) <= m + 1
    <3> HIDE DEF u, g
    <3> QED
      BY <2>1 DEF KeptWell
  <2>8. KeptWell(u, T, s, gone, m + 1)
    <3> HIDE DEF u, g
    <3> QED
      BY <2>1, <2>2, <2>3, <2>6, <2>7 DEF KeptWell
  <2> QED
    BY <1>3, <2>8
<1> QED
  BY <1>2, <1>3

\* All elements.
LEMMA FilterWell ==
  ASSUME NEW T, NEW s \in Seq(T), NEW gone
  PROVE  KeptWell(Filter(s, gone), T, s, gone, Len(s))
<1> DEFINE k == Kept(s, gone)
           S == {m \in Nat : m <= Len(s) => KeptWell(k[m], T, s, gone, m)}
<1> HIDE DEF k
<1>1. 0 \in S
  <2>1. k[0] = <<>>
    BY KeptIsKept DEF IsKept, k
  <2>2. [i \in 1 .. 0 |-> 1] \in [1 .. 0 -> 1 .. 0]
    OBVIOUS
  <2>3. \A i \in 1 .. Len(<<>>) : FALSE
    OBVIOUS
  <2>4. \E f \in [1 .. Len(<<>>) -> 1 .. 0] :
          \A i, j \in 1 .. Len(<<>>) : <<>>[i] = s[f[i]] /\ (f[i] = f[j] => i = j)
    <3>1. Len(<<>>) = 0
      OBVIOUS
    <3> QED
      BY <2>2, <2>3, <3>1
  <2>5. <<>> \in Seq(T) /\ Len(<<>>) <= 0 /\ ~ \E i \in 1 .. 0 : s[i] \in gone
    OBVIOUS
  <2>6. KeptWell(<<>>, T, s, gone, 0)
    BY <2>3, <2>4, <2>5, Zenon DEF KeptWell
  <2> QED
    BY <2>1, <2>6
<1>2. ASSUME NEW m \in Nat, m \in S PROVE m + 1 \in S
  <2> SUFFICES ASSUME m + 1 <= Len(s) PROVE KeptWell(k[m + 1], T, s, gone, m + 1)
    OBVIOUS
  <2>1. KeptWell(k[m], T, s, gone, m)
    BY <1>2
  <2>2. k[m + 1] = IF s[m + 1] \in gone THEN k[m] ELSE Append(k[m], s[m + 1])
    BY KeptIsKept DEF IsKept, k
  <2> QED
    BY <2>1, <2>2, KeptStep
<1>3. Nat \subseteq S
  <2> HIDE DEF S
  <2> QED
    BY <1>1, <1>2, Induct
<1> QED
  BY <1>3 DEF Filter, k


-------------------------------------------------------------------------------
(* The stack of messages.                                                  *)

MessageTexts == {"", "fetched", "logged in", "logged out", "new block"}

Messages == [type : {"pending", "info", "danger", "success"}, scope : {"GET", "PUT"},
             text : MessageTexts]

OnePending(stack) ==
  \A scope \in {"GET", "PUT"} :
    \A i, j \in DOMAIN stack :
      IsPending(stack[i], scope) /\ IsPending(stack[j], scope) => i = j

Good(stack) == stack \in Seq(Messages) /\ Len(stack) <= MaxStack /\ OnePending(stack)

\* A new message keeps the stack within its size, with one message pending in each
\* scope.
LEMMA NewMessage ==
  ASSUME NEW stack, Good(stack), NEW m \in Messages
  PROVE  Good(OnNewMessage(stack, m))
<1>1. stack \in Seq(Messages) /\ Len(stack) <= MaxStack /\ OnePending(stack)
  BY DEF Good
<1>2. CASE Repeats(m, stack) \/ (IsWaiting(stack, m.scope) /\ m.type = "pending")
  BY <1>2 DEF OnNewMessage
<1>3. CASE ~Repeats(m, stack) /\ ~IsWaiting(stack, m.scope)
  <2> DEFINE n    == IF Len(stack) < MaxStack THEN Len(stack) + 1 ELSE MaxStack
             full == <<m>> \o stack
             out  == SubSeq(full, 1, n)
  <2>1. n \in Nat /\ n >= 1 /\ n <= Len(stack) + 1 /\ n <= MaxStack
    BY <1>1, MaxStackAssumption
  <2>2. /\ full \in Seq(Messages) /\ Len(full) = Len(stack) + 1 /\ full[1] = m
        /\ \A i \in 2 .. Len(stack) + 1 : full[i] = stack[i - 1]
    BY <1>1
  <2> HIDE DEF n, full
  <2>3. out \in Seq(Messages) /\ Len(out) = n /\ \A i \in 1 .. n : out[i] = full[i]
    BY <2>1, <2>2
  <2> HIDE DEF out
  <2>4. ASSUME NEW scope \in {"GET", "PUT"}, NEW i \in DOMAIN out, NEW j \in DOMAIN out,
               IsPending(out[i], scope), IsPending(out[j], scope)
        PROVE  i = j
    <3>1. ~IsPending(m, scope) \/ ~IsWaiting(stack, scope)
      BY <1>3 DEF IsPending
    <3>2. ASSUME NEW k \in DOMAIN out
          PROVE  \/ k = 1 /\ out[k] = m
                 \/ k - 1 \in DOMAIN stack /\ out[k] = stack[k - 1]
      BY <1>1, <2>1, <2>2, <2>3
    <3>3. i \in Int /\ j \in Int
      BY <2>1, <2>3
    <3>4. \A k, l \in DOMAIN stack :
            IsPending(stack[k], scope) /\ IsPending(stack[l], scope) => k = l
      BY <1>1, <2>4 DEF OnePending
    <3>5. CASE IsWaiting(stack, scope)
      <4>1. ~IsPending(m, scope)
        BY <3>1, <3>5
      <4>2. i - 1 \in DOMAIN stack /\ out[i] = stack[i - 1]
        BY <4>1, <3>2, <2>4
      <4>3. j - 1 \in DOMAIN stack /\ out[j] = stack[j - 1]
        BY <4>1, <3>2, <2>4
      <4>4. i - 1 = j - 1
        BY <4>2, <4>3, <3>4, <2>4
      <4> QED
        BY <4>4, <3>3
    <3>6. CASE ~IsWaiting(stack, scope)
      <4>1. i = 1
        BY <3>2, <3>6, <2>4 DEF IsWaiting
      <4>2. j = 1
        BY <3>2, <3>6, <2>4 DEF IsWaiting
      <4> QED
        BY <4>1, <4>2
    <3> QED
      BY <3>5, <3>6
  <2>5. OnNewMessage(stack, m) = out
    BY <1>3 DEF OnNewMessage, out, full, n
  <2> QED
    BY <2>1, <2>3, <2>4, <2>5 DEF Good, OnePending
<1>4. CASE ~Repeats(m, stack) /\ IsWaiting(stack, m.scope) /\ m.type # "pending"
  <2> DEFINE gone   == {x \in ToSet(stack) : IsPending(x, m.scope)}
             others == Others(stack, m.scope)
             out    == <<m>> \o others
  <2>1. KeptWell(others, Messages, stack, gone, Len(stack))
    BY <1>1, FilterWell DEF Others
  <2>2. \E i \in 1 .. Len(stack) : stack[i] \in gone
    <3>1. PICK i \in DOMAIN stack : IsPending(stack[i], m.scope)
      BY <1>4 DEF IsWaiting
    <3>2. stack[i] \in ToSet(stack) /\ i \in 1 .. Len(stack)
      BY <1>1 DEF ToSet
    <3> QED
      BY <3>1, <3>2
  <2> HIDE DEF gone, others
  <2>3. PICK f \in [1 .. Len(others) -> 1 .. Len(stack)] :
          \A i, j \in 1 .. Len(others) : others[i] = stack[f[i]] /\ (f[i] = f[j] => i = j)
    BY <2>1 DEF KeptWell
  <2>4. others \in Seq(Messages) /\ Len(others) < Len(stack)
    BY <2>1, <2>2 DEF KeptWell
  <2>5. OnePending(others)
    <3> SUFFICES ASSUME NEW scope \in {"GET", "PUT"},
                        NEW i \in 1 .. Len(others), NEW j \in 1 .. Len(others),
                        IsPending(others[i], scope), IsPending(others[j], scope)
                 PROVE  i = j
      BY <2>4 DEF OnePending
    <3>1. f[i] \in DOMAIN stack /\ f[j] \in DOMAIN stack
      BY <1>1
    <3> QED
      BY <1>1, <2>3, <3>1 DEF OnePending
  <2>6. /\ out \in Seq(Messages) /\ Len(out) = Len(others) + 1 /\ out[1] = m
        /\ \A i \in 2 .. Len(out) : i - 1 \in 1 .. Len(others) /\ out[i] = others[i - 1]
    BY <2>4
  <2> HIDE DEF out
  <2>7. ASSUME NEW scope \in {"GET", "PUT"}, NEW i \in DOMAIN out, NEW j \in DOMAIN out,
               IsPending(out[i], scope), IsPending(out[j], scope)
        PROVE  i = j
    <3>1. i \in 2 .. Len(out) /\ j \in 2 .. Len(out)
      BY <1>4, <2>6, <2>7 DEF IsPending
    <3>2. /\ i - 1 \in DOMAIN others /\ out[i] = others[i - 1]
          /\ j - 1 \in DOMAIN others /\ out[j] = others[j - 1]
      BY <2>4, <2>6, <3>1
    <3>3. i - 1 = j - 1
      BY <2>5, <2>7, <3>2 DEF OnePending
    <3> QED
      BY <3>1, <3>3
  <2>8. OnNewMessage(stack, m) \in {others, out}
    BY <1>4 DEF OnNewMessage, out, others
  <2>9. Good(others)
    BY <1>1, <2>4, <2>5, MaxStackAssumption DEF Good
  <2>10. Good(out)
    <3>1. OnePending(out)
      BY <2>7 DEF OnePending
    <3> QED
      BY <1>1, <2>4, <2>6, <3>1, MaxStackAssumption DEF Good
  <2> QED
    BY <2>8, <2>9, <2>10
<1> QED
  BY <1>2, <1>3, <1>4

\* The same for what the services call.
LEMMA NewMessages ==
  ASSUME NEW stack, Good(stack), NEW scope \in {"GET", "PUT"}, NEW text \in MessageTexts
  PROVE  /\ Good(Pending(stack, scope)) /\ Good(Info(stack)) /\ Good(Danger(stack))
         /\ Good(Told(stack, scope, text))
BY NewMessage DEF Pending, Info, Danger, Told, Message, Messages, MessageTexts

\* Every step makes of the stack what some messages make of it.
LEMMA AlertsInit == Init => Good(alerts)
<1> SUFFICES ASSUME Init PROVE Good(alerts)
  OBVIOUS
<1>1. alerts = <<>>
  BY DEF Init
<1>2. Len(<<>>) <= MaxStack /\ \A scope : \A i, j \in DOMAIN <<>> : FALSE
  BY MaxStackAssumption
<1> QED
  BY <1>1, <1>2 DEF Good, OnePending

LEMMA AlertsNext == Good(alerts) /\ [Next]_vars => Good(alerts')
<1> SUFFICES ASSUME Good(alerts), [Next]_vars PROVE Good(alerts')
  OBVIOUS
<1> DEFINE told == {Told(alerts, "GET", "fetched"), Told(alerts, "GET", "logged out"),
                    Info(Info(alerts)), Danger(alerts), Pending(alerts, "PUT"),
                    BlockTold(alerts), Pending(BlockTold(alerts), "GET"),
                    Pending(Told(alerts, "GET", "logged in"), "GET"),
                    Pending(<<>>, "GET"), <<>>, alerts}
<1>1. \A stack \in told : Good(stack)
  <2>1. Good(<<>>)
    <3>1. Len(<<>>) <= MaxStack /\ \A scope : \A i, j \in DOMAIN <<>> : FALSE
      BY MaxStackAssumption
    <3> QED
      BY <3>1 DEF Good, OnePending
  <2> QED
    BY <2>1, NewMessages DEF BlockTold, MessageTexts
<1>2. ASSUME NEW m, NEW rest, Answer(m, rest) \/ Refused(m, rest) PROVE alerts' \in told
  BY <1>2 DEF Answer, QueryTold, Refused
<1>3. Deliver \/ Overtake => alerts' \in told
  BY <1>2, Zenon DEF Deliver, Overtake
<1>4. HandleCall \/ BlockEvent => alerts' \in told
  BY DEF HandleCall, BlockEvent
<1>5. Login \/ LogoutClicked => alerts' \in told
  BY DEF Login, LogoutClicked
<1>6. GetTokens \/ (\E amount \in Amounts : Transfer(amount)) => alerts' \in told
  BY DEF GetTokens, Transfer, Invoke
<1>7. ASSUME NEW request, OthersInvoke(request)
      PROVE  alerts' \in told
  BY <1>7 DEF OthersInvoke
<1>8. Fail \/ Garble \/ LoginFails \/ Expire \/ CallFails \/ BlockEventLost => alerts' \in told
  BY DEF Fail, Garble, LoginFails, Expire, CallFails, BlockEventLost
<1>9. Reload \/ UNCHANGED vars => alerts' \in told
  BY DEF Reload, vars
<1>10. alerts' \in told
  <2> HIDE DEF told
  <2> QED
    BY <1>3, <1>4, <1>5, <1>6, <1>7, <1>8, <1>9 DEF Next, Faults
<1> QED
  BY <1>1, <1>10

\* One message is pending for however many queries, and one for the calls, and the
\* stack does not grow (alert-service.js:26-52).
THEOREM StackBounded == Spec => []AlertsBounded
<1>1. Good(alerts) => AlertsBounded
  BY DEF Good, OnePending, AlertsBounded
<1>2. Good(alerts) /\ [Next]_vars => Good(alerts)'
  BY AlertsNext
<1> QED
  BY <1>1, <1>2, AlertsInit, PTL DEF Spec

-------------------------------------------------------------------------------
(* The ledger.                                                             *)

Owners  == {"us", "them"}
Ledgers == [Owners -> Int \cup {ABSENT}]

PageRequests ==
  {Request("us", "them", amount) : amount \in Amounts}
    \cup {[fcn |-> "getTokens", to |-> "us", amount |-> Faucet]}

\* The accounts after a call.
After(request, s) == Contract!Applied(Contract!Simulate("scala", request, s), s)

\* If both accounts change, one of them pays what it has.
Paid(s, t) ==
  (\A a \in Owners : t[a] # s[a]) =>
    \E from \in Owners : s[from] # ABSENT /\ t[from] < s[from] /\ t[from] >= 0

\* Two's complement of a number is one.
LEMMA WrapInt == ASSUME NEW x \in Int PROVE Contract!Wrap(x) \in Int
<1>1. 2 * Half \in Nat /\ 2 * Half > 0 /\ Half \in Nat
  BY LedgerAssumption
<1>2. (x + Half) % (2 * Half) \in Int
  BY <1>1
<1> QED
  BY <1>1, <1>2 DEF Contract!Wrap

\* What is added to an account.
LEMMA MoreInt ==
  ASSUME NEW s \in Ledgers, NEW a \in Owners, NEW amount \in Int
  PROVE  (IF s[a] = ABSENT THEN amount ELSE Contract!Plus("scala", s[a], amount)) \in Int
<1>1. s[a] # ABSENT => s[a] \in Int
  BY DEF Ledgers
<1>2. s[a] # ABSENT => Contract!Plus("scala", s[a], amount) = Contract!Wrap(s[a] + amount)
  BY <1>1, LedgerAssumption DEF Contract!Plus, Contract!Fixed
<1> QED
  BY <1>1, <1>2, WrapInt

\* What a transfer results in.
LEMMA AfterTransfer ==
  ASSUME NEW s \in Ledgers, NEW from \in Owners, NEW to \in Owners, from # to,
         NEW amount \in Int
  PROVE  LET t == After(Request(from, to, amount), s) IN t \in Ledgers /\ Paid(s, t)
<1> DEFINE r == Request(from, to, amount)
           t == After(r, s)
<1>1. r.fcn = "transfer" /\ r.from = from /\ r.to = to /\ r.amount = amount
  BY DEF Request
<1> HIDE DEF r
<1>2. Contract!Simulate("scala", r, s) = Contract!TransferScala(r, s)
  BY <1>1 DEF Contract!Simulate
<1>3. CASE ~Contract!Granted(r, s)
  <2>1. Contract!TransferScala(r, s).writes = Contract!NoWrites
    BY <1>3 DEF Contract!TransferScala, Contract!Success
  <2>2. t = [a \in Owners |-> s[a]]
    BY <1>2, <2>1 DEF After, Contract!Applied, Contract!NoWrites, Owners
  <2>3. t = s
    BY <2>2 DEF Ledgers
  <2> QED
    BY <2>3 DEF r, Paid
<1>4. CASE Contract!Granted(r, s)
  <2>1. s[from] # ABSENT /\ amount >= 0 /\ s[from] >= amount /\ s[from] \in Int
    BY <1>1, <1>4 DEF Contract!Granted, Ledgers
  <2> DEFINE new == IF s[to] = ABSENT THEN amount ELSE Contract!Plus("scala", s[to], amount)
  <2>2. t = [a \in Owners |-> IF a = from THEN s[from] - amount ELSE new]
    BY <1>1, <1>2, <1>4 DEF After, Contract!Applied, Contract!TransferScala, Contract!Success,
                            Owners
  <2>3. new \in Int
    BY MoreInt
  <2> HIDE DEF new
  <2>4. t \in Ledgers /\ t[from] = s[from] - amount
    BY <2>1, <2>2, <2>3 DEF Ledgers
  <2> HIDE DEF t
  <2>5. t[from] # s[from] => t[from] < s[from] /\ t[from] >= 0
    BY <2>1, <2>4
  <2>6. Paid(s, t)
    BY <2>1, <2>5 DEF Paid
  <2> QED
    BY <2>4, <2>6 DEF r, t
<1> QED
  BY <1>3, <1>4

\* What getting tokens results in: one account changes.
LEMMA AfterGetTokens ==
  ASSUME NEW s \in Ledgers, NEW to \in Owners, NEW amount \in Int
  PROVE  LET t == After([fcn |-> "getTokens", to |-> to, amount |-> amount], s) IN
         t \in Ledgers /\ Paid(s, t)
<1> DEFINE r == [fcn |-> "getTokens", to |-> to, amount |-> amount]
           t == After(r, s)
<1>1. r.fcn = "getTokens" /\ r.to = to /\ r.amount = amount
  OBVIOUS
<1> HIDE DEF r
<1>2. Contract!Simulate("scala", r, s) = Contract!GetTokensScala(r, s)
  BY <1>1 DEF Contract!Simulate
<1> DEFINE new == IF s[to] = ABSENT THEN amount ELSE Contract!Plus("scala", s[to], amount)
<1>3. t = [a \in Owners |-> IF a = to THEN new ELSE s[a]]
  BY <1>1, <1>2 DEF After, Contract!Applied, Contract!GetTokensScala, Contract!Success, Owners
<1>4. new \in Int
  BY MoreInt
<1> HIDE DEF new
<1>5. t \in Ledgers
  BY <1>3, <1>4 DEF Ledgers
<1>6. \E a \in Owners : t[a] = s[a]
  <2>1. PICK a \in Owners : a # to
    BY DEF Owners
  <2> QED
    BY <1>3, <2>1
<1> QED
  BY <1>5, <1>6 DEF r, Paid

\* A call that the page or somebody else may make.
LEMMA AfterCall ==
  ASSUME NEW s \in Ledgers, NEW request \in PageRequests \cup OtherCalls
  PROVE  After(request, s) \in Ledgers /\ Paid(s, After(request, s))
<1>1. "us" \in Owners /\ "them" \in Owners /\ "us" # "them" /\ Faucet \in Int /\ Amounts \subseteq Int
  BY LedgerAssumption DEF Owners
<1>2. \/ \E to \in Owners, amount \in Int :
           request = [fcn |-> "getTokens", to |-> to, amount |-> amount]
      \/ \E from \in Owners, to \in Owners, amount \in Int :
           from # to /\ request = Request(from, to, amount)
  <2>1. CASE request \in PageRequests
    <3>1. \/ request = [fcn |-> "getTokens", to |-> "us", amount |-> Faucet]
          \/ \E amount \in Amounts : request = Request("us", "them", amount)
      BY <2>1 DEF PageRequests
    <3> QED
      BY <1>1, <3>1
  <2>2. CASE request \in OtherCalls
    <3>1. CASE request \in [fcn : {"transfer"}, from : Owners, to : Owners, amount : Int]
                 /\ request.from # request.to
      <4>1. request = Request(request.from, request.to, request.amount)
        BY <3>1 DEF Request
      <4> QED
        BY <3>1, <4>1
    <3>2. CASE request \in [fcn : {"getTokens"}, to : Owners, amount : Int]
      <4>1. request = [fcn |-> "getTokens", to |-> request.to, amount |-> request.amount]
        BY <3>2
      <4> QED
        BY <3>2, <4>1
    <3> QED
      BY <2>2, <3>1, <3>2, OthersAssumption DEF Owners
  <2> QED
    BY <2>1, <2>2
<1> QED
  BY <1>2, AfterTransfer, AfterGetTokens

-------------------------------------------------------------------------------
(* Type correctness.                                                       *)

Queries(height, tokens) ==
  [kind : {"ledger", "table", "gone"}, sent : 0 .. height, jwt : 0 .. tokens]

Calls(tokens) == [request : PageRequests, jwt : 0 .. tokens]

\* There is a block left for every call, each of which the page may make.
PageInv ==
  /\ TypeOK
  /\ chain \in Seq(Ledgers) /\ Height >= 1
  /\ calls \in Seq(Calls(good)) /\ Height + Len(calls) <= MaxBlocks
  /\ inst \in Nat
  /\ shown \in [ledger : 0 .. Height, table : 0 .. Height, loading : BOOLEAN]

\* The queries stay what they are when more has happened.
LEMMA QueriesGrow ==
  ASSUME NEW height \in Nat, NEW tokens \in Nat, NEW height2 \in Nat, NEW tokens2 \in Nat,
         height <= height2, tokens <= tokens2,
         NEW s \in Seq(Queries(height, tokens))
  PROVE  s \in Seq(Queries(height2, tokens2))
<1>1. Queries(height, tokens) \subseteq Queries(height2, tokens2)
  BY DEF Queries
<1> QED
  BY <1>1

LEMMA CallsGrow ==
  ASSUME NEW tokens \in Nat, NEW s \in Seq(Calls(tokens))
  PROVE  s \in Seq(Calls(tokens + 1))
<1>1. Calls(tokens) \subseteq Calls(tokens + 1)
  BY DEF Calls
<1> QED
  BY <1>1

\* So they do when their page has gone.
LEMMA GoneTypes ==
  ASSUME NEW height \in Nat, NEW tokens \in Nat, NEW s \in Seq(Queries(height, tokens))
  PROVE  Gone(s) \in Seq(Queries(height, tokens))
<1> DEFINE Q == Queries(height, tokens)
           g(m) == [kind |-> "gone", sent |-> 0, jwt |-> m.jwt]
<1>1. ASSUME NEW m \in Q PROVE g(m) \in Q
  <2>1. m \in [kind : {"ledger", "table", "gone"}, sent : 0 .. height, jwt : 0 .. tokens]
    BY DEF Queries
  <2> QED
    BY <2>1 DEF Queries
<1>2. s \in Seq(Q) /\ Gone(s) = [i \in 1 .. Len(s) |-> g(s[i])]
  BY DEF Gone
<1> HIDE DEF Q, g
<1>3. \A i \in 1 .. Len(s) : g(s[i]) \in Q
  BY <1>1, <1>2
<1>4. Len(s) \in Nat
  BY <1>2
<1>5. [i \in 1 .. Len(s) |-> g(s[i])] \in [1 .. Len(s) -> Q]
  BY <1>3
<1>6. \A n \in Nat : \A f \in [1 .. n -> Q] : f \in Seq(Q)
  OBVIOUS
<1>7. Gone(s) \in Seq(Q)
  BY <1>2, <1>4, <1>5, <1>6
<1> QED
  BY <1>7 DEF Q

\* What a page and its table ask for.
LEMMA AttachTypes ==
  ASSUME Height \in Nat, Height >= 1, NEW tokens \in Nat, NEW token \in 0 .. tokens
  PROVE  AttachQueries(token) \in Seq(Queries(Height, tokens))
<1> DEFINE Q == Queries(Height, tokens)
<1>1. Query("ledger", token) \in Q /\ Query("table", token) \in Q
  BY DEF Query, Queries
<1> HIDE DEF Q
<1>2. QueryAll(token) \in Seq(Q) /\ <<Query("table", token)>> \in Seq(Q)
  BY <1>1 DEF QueryAll
<1>3. QueryOperationHistory(token) \in Seq(Q)
  BY <1>2 DEF QueryOperationHistory
<1>4. QueryAll(token) \o QueryAll(token) \in Seq(Q)
  BY <1>2
<1>5. AttachQueries(token) \in Seq(Q)
  BY <1>3, <1>4 DEF AttachQueries, TableAround
<1> QED
  BY <1>5 DEF Q

LEMMA BlockQueriesType ==
  ASSUME PageInv
  PROVE  BlockQueries \in Seq(Queries(Height, good))
<1> DEFINE token  == IF jwt = good THEN jwt ELSE 0
           left   == IF page = "home" THEN inst - 1 ELSE inst
           leaked == [i \in 1 .. left |-> Query("gone", token)]
           Q      == Queries(Height, good)
<1>1. token \in 0 .. good /\ (left \in Nat \/ left = -1) /\ Height \in Nat /\ Height >= 1
  BY DEF PageInv, TypeOK, Height
<1>2. Query("gone", token) \in Q
  BY <1>1 DEF Query, Queries
<1>3. leaked \in Seq(Q)
  <2> HIDE DEF token, left, Q
  <2>1. CASE left \in Nat
    BY <1>2, <2>1
  <2>2. CASE left = -1
    <3>1. 1 .. left = 1 .. 0
      BY <2>2
    <3>2. leaked \in [1 .. 0 -> Q]
      BY <1>2, <3>1
    <3>3. \A f \in [1 .. 0 -> Q] : f \in Seq(Q)
      OBVIOUS
    <3> QED
      BY <3>2, <3>3
  <2> QED
    BY <1>1, <2>1, <2>2
<1>4. AttachQueries(token) \in Seq(Q)
  <2> HIDE DEF token
  <2> QED
    BY <1>1, AttachTypes DEF PageInv, TypeOK
<1>5. leaked \o AttachQueries(token) \in Seq(Q)
  <2> HIDE DEF leaked, Q, token
  <2> QED
    BY <1>3, <1>4
<1>6. BlockQueries = IF page = "home" THEN leaked \o AttachQueries(token) ELSE leaked
  BY DEF BlockQueries
<1> HIDE DEF leaked, Q, token
<1>7. BlockQueries \in Seq(Q)
  BY <1>3, <1>5, <1>6
<1> QED
  BY <1>7 DEF Q


LEMMA PageInit == Init => PageInv
<1> SUFFICES ASSUME Init PROVE PageInv
  OBVIOUS
<1>1. Opening \in Ledgers
  BY LedgerAssumption DEF Ledgers, Owners
<1>2. chain \in Seq(Ledgers) /\ Height = 1
  BY <1>1 DEF Init, Height
<1>3. calls \in Seq(Calls(good)) /\ Len(calls) = 0
  BY DEF Init
<1>4. wire \in Seq(Queries(Height, good))
  BY DEF Init
<1> QED
  BY <1>2, <1>3, <1>4, BoundsAssumption DEF Init, PageInv, TypeOK, Blank, Shown, Queries

LEMMA BlankTypes ==
  ASSUME Height \in Nat
  PROVE  \A show \in {Blank, [Blank EXCEPT !.loading = TRUE]} :
           show \in [ledger : 0 .. Height, table : 0 .. Height, loading : BOOLEAN]
<1>1. Blank \in [ledger : 0 .. Height, table : 0 .. Height, loading : BOOLEAN]
  BY DEF Blank
<1> QED
  BY <1>1

\* What answers and fetches do to the page and the wire.
LEMMA AnswerTypes ==
  ASSUME PageInv, NEW m \in Queries(Height, good), NEW rest \in Seq(Queries(Height, good)),
         Answer(m, rest) \/ Refused(m, rest)
  PROVE  /\ jwt' \in 0 .. good /\ page' \in {"login", "home"}
         /\ shown' \in [ledger : 0 .. Height, table : 0 .. Height, loading : BOOLEAN]
         /\ wire' \in Seq(Queries(Height, good))
<1>0. Height \in Nat /\ good \in Nat /\ jwt \in 0 .. good /\ page \in {"login", "home"}
      /\ shown \in [ledger : 0 .. Height, table : 0 .. Height, loading : BOOLEAN]
  BY DEF PageInv, TypeOK, Height
<1>1. CASE Refused(m, rest)
  <2>1. wire' = Gone(rest) /\ jwt' = 0 /\ page' = "login" /\ shown' = Blank
    BY <1>1 DEF Refused, Logout
  <2>2. Gone(rest) \in Seq(Queries(Height, good))
    BY <1>0, GoneTypes
  <2> QED
    BY <1>0, <2>1, <2>2 DEF Blank
<1>2. CASE Answer(m, rest)
  <2>1. m.sent \in 0 .. Height
    BY DEF Queries
  <2>2. \/ \E h \in m.sent .. Height : shown' = [shown EXCEPT !.ledger = h]
        \/ shown' = [shown EXCEPT !.table = shown.ledger, !.loading = FALSE]
        \/ shown' = shown
    BY <1>2 DEF Answer
  <2>3. shown' \in [ledger : 0 .. Height, table : 0 .. Height, loading : BOOLEAN]
    <3>1. \A h \in m.sent .. Height : h \in 0 .. Height
      BY <1>0, <2>1
    <3> QED
      BY <1>0, <2>2, <3>1
  <2> QED
    BY <1>0, <1>2, <2>3 DEF Answer
<1> QED
  BY <1>1, <1>2

\* The steps that leave the ledger, the calls and the server's tokens alone.
LEMMA PageStep ==
  ASSUME PageInv, UNCHANGED <<chain, calls, good>>,
         heard' \in 1 .. Height, handlers' \in {0, 1},
         jwt' \in 0 .. good, page' \in {"login", "home"}, inst' \in Nat,
         shown' \in [ledger : 0 .. Height, table : 0 .. Height, loading : BOOLEAN],
         wire' \in Seq(Queries(Height, good))
  PROVE  PageInv'
<1>1. Height' = Height /\ Shown' = Shown /\ Calls(good') = Calls(good)
  BY DEF Height, Shown, Calls, PageRequests, Request
<1> QED
  BY <1>1 DEF PageInv, TypeOK, Queries, Shown, Height

\* The steps that add a block, or handle a call.
LEMMA LedgerStep ==
  ASSUME PageInv, UNCHANGED <<heard, good, handlers, inst>>,
         chain' = chain \/ (\E t \in Ledgers : chain' = Append(chain, t)),
         calls' \in Seq(Calls(good)), Len(chain') + Len(calls') <= MaxBlocks,
         jwt' \in 0 .. good, page' \in {"login", "home"},
         shown' \in [ledger : 0 .. Height, table : 0 .. Height, loading : BOOLEAN],
         wire' \in Seq(Queries(Height, good))
  PROVE  PageInv'
<1>1. chain' \in Seq(Ledgers) /\ Height' \in Nat /\ Height \in Nat /\ Height' >= Height
  <2>1. chain \in Seq(Ledgers)
    BY DEF PageInv
  <2>2. CASE chain' = chain
    BY <2>1, <2>2 DEF Height
  <2>3. CASE \E t \in Ledgers : chain' = Append(chain, t)
    BY <2>1, <2>3 DEF Height
  <2> QED
    BY <2>2, <2>3
<1>2. wire' \in Seq(Queries(Height', good'))
  <2>1. good \in Nat /\ good <= good /\ Height <= Height'
    BY <1>1 DEF PageInv, TypeOK
  <2>2. wire' \in Seq(Queries(Height', good))
    BY <1>1, <2>1, QueriesGrow, Zenon
  <2> QED
    BY <2>2
<1>3. calls' \in Seq(Calls(good')) /\ Len(calls') \in Nat
  BY DEF Calls, PageRequests, Request
<1>4. shown' \in [ledger : 0 .. Height', table : 0 .. Height', loading : BOOLEAN]
  BY <1>1
<1>5. heard' \in 1 .. Height' /\ Height' >= 1
  BY <1>1 DEF PageInv, TypeOK
<1> QED
  BY <1>1, <1>2, <1>3, <1>4, <1>5 DEF PageInv, TypeOK, Queries, Shown, Height

\* What is done with the next call.
LEMMA HeadOfCalls ==
  ASSUME PageInv, calls # <<>>
  PROVE  /\ Head(calls).request \in PageRequests
         /\ Tail(calls) \in Seq(Calls(good)) /\ Len(Tail(calls)) = Len(calls) - 1
<1>1. calls \in Seq(Calls(good))
  BY DEF PageInv
<1>2. Head(calls) \in Calls(good) /\ Tail(calls) \in Seq(Calls(good))
      /\ Len(Tail(calls)) = Len(calls) - 1
  BY <1>1
<1> QED
  BY <1>2 DEF Calls

\* Every step keeps the types.
LEMMA PageNext == PageInv /\ [Next]_vars => PageInv'
<1> SUFFICES ASSUME PageInv, [Next]_vars PROVE PageInv'
  OBVIOUS
<1> DEFINE Q == Queries(Height, good)
<1>0. /\ wire \in Seq(Q) /\ Height \in Nat /\ Height >= 1
      /\ heard \in 1 .. Height /\ good \in Nat /\ handlers \in {0, 1}
      /\ jwt \in 0 .. good /\ page \in {"login", "home"} /\ inst \in Nat
      /\ shown \in [ledger : 0 .. Height, table : 0 .. Height, loading : BOOLEAN]
  BY DEF PageInv, TypeOK, Queries, Height
<1>00. Gone(wire) \in Seq(Q)
  BY <1>0, GoneTypes
<1> HIDE DEF Q
<1>1. CASE Deliver
  <2>1. Head(wire) \in Q /\ Tail(wire) \in Seq(Q)
    BY <1>0, <1>1 DEF Deliver
  <2>2. Answer(Head(wire), Tail(wire)) \/ Refused(Head(wire), Tail(wire))
    BY <1>1 DEF Deliver
  <2>3. UNCHANGED <<chain, heard, calls, good, handlers, inst>>
    BY <1>1 DEF Deliver, ledgerVars
  <2> QED
    BY <1>0, <2>1, <2>2, <2>3, AnswerTypes, PageStep DEF Q
<1>2. CASE Overtake
  <2>1. wire[2] \in Q /\ RemoveAt(wire, 2) \in Seq(Q)
    BY <1>0, <1>2 DEF Overtake, RemoveAt
  <2>2. Answer(wire[2], RemoveAt(wire, 2)) \/ Refused(wire[2], RemoveAt(wire, 2))
    BY <1>2 DEF Overtake
  <2>3. UNCHANGED <<chain, heard, calls, good, handlers, inst>>
    BY <1>2 DEF Overtake, ledgerVars
  <2> QED
    BY <1>0, <2>1, <2>2, <2>3, AnswerTypes, PageStep DEF Q
<1>3. CASE Fail \/ Garble
  <2>0. wire' = Tail(wire) /\ wire # <<>>
    BY <1>3 DEF Fail, Garble
  <2>1. wire' \in Seq(Q)
    BY <1>0, <2>0
  <2>2. shown' \in [ledger : 0 .. Height, table : 0 .. Height, loading : BOOLEAN]
    <3>1. shown' = shown \/ shown' = [shown EXCEPT !.loading = FALSE]
      BY <1>3 DEF Fail, Garble
    <3> QED
      BY <1>0, <3>1
  <2>3. UNCHANGED <<chain, heard, calls, good, handlers, inst, jwt, page>>
    BY <1>3 DEF Fail, Garble, ledgerVars, sessionVars
  <2> QED
    BY <1>0, <2>1, <2>2, <2>3, PageStep DEF Q
<1>4. CASE Login
  <2>1. /\ UNCHANGED <<chain, heard, calls, good>> /\ inst' = inst + 1
        /\ jwt' = good /\ page' = "home"
        /\ handlers' \in {0, 1} /\ shown' = [Blank EXCEPT !.loading = TRUE]
        /\ wire' = wire \o AttachQueries(good)
    BY <1>0, <1>4 DEF Login, Attach, Subscribe, ledgerVars
  <2>2. AttachQueries(good) \in Seq(Q)
    BY <1>0, AttachTypes DEF Q
  <2>3. wire' \in Seq(Q)
    BY <1>0, <2>1, <2>2
  <2>4. shown' \in [ledger : 0 .. Height, table : 0 .. Height, loading : BOOLEAN]
    BY <1>0, <2>1, BlankTypes
  <2>5. inst' \in Nat /\ jwt' \in 0 .. good /\ page' \in {"login", "home"}
    BY <1>0, <2>1
  <2> QED
    BY <1>0, <2>1, <2>3, <2>4, <2>5, PageStep DEF Q
<1>5. CASE LoginFails \/ LogoutClicked \/ BlockEventLost \/ UNCHANGED vars
  <2>1. UNCHANGED <<chain, calls, good, handlers, inst>>
    BY <1>5 DEF LoginFails, LogoutClicked, BlockEventLost, vars, ledgerVars, sessionVars
  <2>2. heard' \in 1 .. Height
    <3>1. heard' = heard \/ (heard < Height /\ heard' = heard + 1)
      BY <1>5 DEF LoginFails, LogoutClicked, BlockEventLost, vars, ledgerVars
    <3> QED
      BY <1>0, <3>1
  <2>3. /\ jwt' \in 0 .. good /\ page' \in {"login", "home"} /\ wire' \in Seq(Q)
        /\ shown' \in [ledger : 0 .. Height, table : 0 .. Height, loading : BOOLEAN]
    <3>1. \/ UNCHANGED <<jwt, page, shown, wire>>
          \/ jwt' = 0 /\ page' = "login" /\ shown' = Blank /\ wire' = Gone(wire)
      BY <1>5 DEF LoginFails, LogoutClicked, BlockEventLost, vars, ledgerVars, sessionVars,
                  Logout
    <3> QED
      BY <1>0, <1>00, <3>1, BlankTypes
  <2> QED
    BY <1>0, <2>1, <2>2, <2>3, PageStep DEF Q
<1>6. CASE Reload
  <2>1. UNCHANGED <<chain, calls, good>> /\ heard' = Height /\ jwt' = jwt
    BY <1>6 DEF Reload
  <2>2. /\ inst' \in Nat /\ page' \in {"login", "home"} /\ handlers' \in {0, 1}
        /\ shown' \in [ledger : 0 .. Height, table : 0 .. Height, loading : BOOLEAN]
    <3>1. /\ \/ inst' = 1 /\ page' = "home"
             \/ inst' = 0 /\ page' = "login"
          /\ handlers' \in {0, 1}
          /\ shown' = Blank \/ shown' = [Blank EXCEPT !.loading = TRUE]
      BY <1>6 DEF Reload, Attach
    <3>2. shown' \in [ledger : 0 .. Height, table : 0 .. Height, loading : BOOLEAN]
      BY <1>0, <3>1, BlankTypes
    <3> QED
      BY <3>1, <3>2
  <2>3. wire' \in Seq(Q)
    <3>1. CASE jwt = 0
      BY <1>6, <3>1 DEF Reload
    <3>2. CASE jwt # 0
      <4> DEFINE token == IF jwt = good THEN jwt ELSE 0
      <4>1. wire' = <<>> \o AttachQueries(token)
        BY <1>6, <3>2 DEF Reload, Attach
      <4>2. token \in 0 .. good
        BY <1>0
      <4> HIDE DEF token
      <4>3. AttachQueries(token) \in Seq(Q)
        BY <1>0, <4>2, AttachTypes DEF Q
      <4> QED
        BY <4>1, <4>3
    <3> QED
      BY <3>1, <3>2
  <2> QED
    BY <1>0, <2>1, <2>2, <2>3, PageStep DEF Q
<1>7. CASE BlockEvent
  <2>1. /\ heard' = heard + 1 /\ heard < Height
        /\ UNCHANGED <<chain, calls, good, handlers, inst, jwt, page>>
    BY <1>7 DEF BlockEvent, sessionVars
  <2>2. shown' = shown \/ shown' = [shown EXCEPT !.loading = TRUE]
    BY <1>7 DEF BlockEvent
  <2>3. wire' = wire \/ wire' = wire \o BlockQueries
    BY <1>7 DEF BlockEvent
  <2>4. wire' \in Seq(Q)
    <3>1. BlockQueries \in Seq(Q)
      BY BlockQueriesType DEF Q
    <3>2. \A s, t \in Seq(Q) : s \o t \in Seq(Q)
      OBVIOUS
    <3> QED
      BY <1>0, <2>3, <3>1, <3>2, Zenon
  <2>5. shown' \in [ledger : 0 .. Height, table : 0 .. Height, loading : BOOLEAN]
    BY <1>0, <2>2
  <2> QED
    BY <1>0, <2>1, <2>4, <2>5, PageStep DEF Q
<1>8. ASSUME NEW request \in PageRequests, Invoke(request) PROVE PageInv'
  <2> DEFINE call == [request |-> request, jwt |-> IF jwt = good THEN jwt ELSE 0]
  <2>1. call \in Calls(good)
    BY <1>0 DEF Calls
  <2>2. /\ calls' = Append(calls, call) /\ Height + Len(calls) < MaxBlocks
        /\ UNCHANGED <<chain, heard, good, handlers, inst, wire, jwt, page, shown>>
    BY <1>8 DEF Invoke, BlockLeft, sessionVars
  <2> HIDE DEF call
  <2>3. calls' \in Seq(Calls(good)) /\ Len(calls') = Len(calls) + 1
    BY <2>1, <2>2 DEF PageInv
  <2>4. Len(chain') + Len(calls') <= MaxBlocks
    BY <1>0, <2>2, <2>3, BoundsAssumption DEF Height, PageInv
  <2> QED
    BY <1>0, <2>2, <2>3, <2>4, LedgerStep DEF Q
<1>9. ASSUME NEW request \in OtherCalls, OthersInvoke(request)
      PROVE  PageInv'
  <2>1. /\ Height + Len(calls) < MaxBlocks
        /\ UNCHANGED <<heard, calls, good, handlers, inst, wire, jwt, page, shown>>
    BY <1>9 DEF OthersInvoke, BlockLeft, sessionVars
  <2>2. chain' = Append(chain, After(request, chain[Height]))
    BY <1>9 DEF OthersInvoke, AddBlock, After
  <2>3. After(request, chain[Height]) \in Ledgers
    BY AfterCall DEF PageInv, Height
  <2>4. Len(chain') + Len(calls') <= MaxBlocks /\ calls' \in Seq(Calls(good))
    BY <1>0, <2>1, <2>2, <2>3, BoundsAssumption DEF Height, PageInv
  <2>5. \E t \in Ledgers : chain' = Append(chain, t)
    BY <2>2, <2>3
  <2> QED
    BY <1>0, <2>1, <2>4, <2>5, LedgerStep DEF Q
<1>10. CASE HandleCall \/ CallFails
  <2> DEFINE request == Head(calls).request
  <2>1. calls # <<>> /\ calls' = Tail(calls)
    BY <1>10 DEF HandleCall, CallFails
  <2>2. request \in PageRequests /\ calls' \in Seq(Calls(good)) /\ Len(calls') = Len(calls) - 1
    BY <2>1, HeadOfCalls
  <2>3. \/ chain' = chain \/ chain' = Append(chain, chain[Height])
        \/ chain' = Append(chain, After(request, chain[Height]))
    BY <1>10, Zenon DEF HandleCall, CallFails, AddBlock, After
  <2>4. UNCHANGED <<heard, good, handlers, inst>>
    BY <1>10 DEF HandleCall, CallFails, sessionVars
  <2>5. /\ jwt' \in 0 .. good /\ page' \in {"login", "home"} /\ wire' \in Seq(Q)
        /\ shown' \in [ledger : 0 .. Height, table : 0 .. Height, loading : BOOLEAN]
    <3>1. \/ UNCHANGED <<jwt, page, shown, wire>>
          \/ jwt' = 0 /\ page' = "login" /\ shown' = Blank /\ wire' = Gone(wire)
      BY <1>10 DEF HandleCall, CallFails, sessionVars, Logout
    <3> QED
      BY <1>0, <1>00, <3>1, BlankTypes
  <2> HIDE DEF request
  <2>6. chain[Height] \in Ledgers /\ After(request, chain[Height]) \in Ledgers
    BY <2>2, AfterCall DEF PageInv, Height
  <2>7. chain' = chain \/ (\E t \in Ledgers : chain' = Append(chain, t))
    BY <2>3, <2>6
  <2>8. Len(chain') + Len(calls') <= MaxBlocks
    <3>1. Len(chain') <= Len(chain) + 1 /\ Len(chain') \in Nat /\ Len(chain) \in Nat
      BY <2>7 DEF PageInv
    <3> QED
      BY <2>1, <2>2, <3>1, BoundsAssumption DEF PageInv, Height
  <2> QED
    BY <2>2, <2>4, <2>5, <2>7, <2>8, LedgerStep DEF Q
<1>11. CASE GetTokens
  BY <1>8, <1>11 DEF GetTokens, PageRequests
<1>12. ASSUME NEW amount \in Amounts, Transfer(amount) PROVE PageInv'
  BY <1>8, <1>12 DEF Transfer, PageRequests
<1>13. CASE Expire
  <2>1. /\ good' = good + 1
        /\ UNCHANGED <<chain, heard, calls, handlers, inst, jwt, page, shown, wire>>
    BY <1>13 DEF Expire, sessionVars
  <2>2. Height' = Height /\ Shown' = Shown
    BY <2>1 DEF Height, Shown
  <2>3. calls' \in Seq(Calls(good'))
    <3>1. calls \in Seq(Calls(good + 1))
      BY <1>0, CallsGrow DEF PageInv
    <3> QED
      BY <2>1, <3>1 DEF Calls, PageRequests, Request
  <2>4. wire' \in Seq(Queries(Height', good'))
    <3>1. wire \in Seq(Queries(Height, good))
      BY <1>0 DEF Q
    <3>2. wire \in Seq(Queries(Height, good + 1))
      <4>1. good + 1 \in Nat /\ good <= good + 1 /\ Height <= Height
        BY <1>0
      <4> QED
        BY <1>0, <3>1, <4>1, QueriesGrow, Zenon
    <3> QED
      BY <2>1, <2>2, <3>2
  <2> QED
    BY <1>0, <2>1, <2>2, <2>3, <2>4 DEF PageInv, TypeOK, Queries, Shown
<1> QED
  BY <1>1, <1>2, <1>3, <1>4, <1>5, <1>6, <1>7, <1>9, <1>10, <1>11, <1>12, <1>13
     DEF Next, Faults

\* What the page shows and waits for exists: no query is on its way about a block there
\* has not been, and no token is used that was not issued.
THEOREM PageTypes == Spec => []TypeOK
<1>1. PageInv => TypeOK
  BY DEF PageInv
<1> QED
  BY <1>1, PageInit, PageNext, PTL DEF Spec

-------------------------------------------------------------------------------
(* Nobody pays what he has not.                                            *)

BookInv == PageInv /\ NoOverdraft

\* How the ledger grows.
LEMMA ChainGrows ==
  ASSUME PageInv, [Next]_vars
  PROVE  \/ chain' = chain
         \/ \E t : /\ chain' = Append(chain, t)
                   /\ \/ t = chain[Height]
                      \/ \E request \in PageRequests \cup OtherCalls :
                           t = After(request, chain[Height])
<1> DEFINE Grows ==
      \E t : /\ chain' = Append(chain, t)
             /\ \/ t = chain[Height]
                \/ \E request \in PageRequests \cup OtherCalls :
                     t = After(request, chain[Height])
<1>1. ASSUME NEW request \in OtherCalls, OthersInvoke(request)
      PROVE  Grows
  BY <1>1 DEF OthersInvoke, AddBlock, After
<1>2. CASE HandleCall \/ CallFails
  <2>1. calls # <<>>
    BY <1>2 DEF HandleCall, CallFails
  <2>2. \/ chain' = chain \/ chain' = Append(chain, chain[Height])
        \/ chain' = Append(chain, After(Head(calls).request, chain[Height]))
    BY <1>2, Zenon DEF HandleCall, CallFails, AddBlock, After
  <2>3. Head(calls).request \in PageRequests
    BY <2>1, HeadOfCalls
  <2> QED
    BY <2>2, <2>3
<1>3. Deliver \/ Overtake \/ BlockEvent \/ Login \/ LogoutClicked => chain' = chain
  BY DEF Deliver, Overtake, BlockEvent, Login, LogoutClicked, ledgerVars
<1>4. GetTokens \/ (\E amount \in Amounts : Transfer(amount)) => chain' = chain
  BY DEF GetTokens, Transfer, Invoke
<1>5. Fail \/ Garble \/ LoginFails \/ Reload \/ Expire \/ BlockEventLost \/ UNCHANGED vars
        => chain' = chain
  BY DEF Fail, Garble, LoginFails, Reload, Expire, BlockEventLost, ledgerVars, vars
<1> QED
  BY <1>1, <1>2, <1>3, <1>4, <1>5 DEF Next, Faults

LEMMA BookInit == Init => BookInv
<1> SUFFICES ASSUME Init PROVE BookInv
  OBVIOUS
<1>1. chain = <<Opening>> /\ Height = 1
  BY DEF Init, Height
<1> QED
  BY <1>1, PageInit DEF BookInv, NoOverdraft

LEMMA BookNext == BookInv /\ [Next]_vars => BookInv'
<1> SUFFICES ASSUME BookInv, [Next]_vars PROVE BookInv'
  OBVIOUS
<1>1. PageInv'
  BY PageNext DEF BookInv
<1>2. CASE chain' = chain
  BY <1>1, <1>2 DEF BookInv, NoOverdraft, Height
<1>3. CASE chain' # chain
  <2>1. PICK t : /\ chain' = Append(chain, t)
                 /\ \/ t = chain[Height]
                    \/ \E request \in PageRequests \cup OtherCalls :
                         t = After(request, chain[Height])
    BY <1>3, ChainGrows, Zenon DEF BookInv
  <2> DEFINE s == chain[Height]
  <2>2. chain \in Seq(Ledgers) /\ Height \in Nat /\ Height >= 1
    BY DEF BookInv, PageInv, Height
  <2>3. s \in Ledgers
    BY <2>2 DEF Height
  <2> HIDE DEF s
  <2>4. t \in Ledgers /\ Paid(s, t)
    <3>1. CASE t = s
      BY <2>3, <3>1 DEF Paid, Owners
    <3>2. CASE t # s
      BY <2>1, <2>3, <3>2, AfterCall DEF s
    <3> QED
      BY <3>1, <3>2
  <2>5. /\ Height' = Height + 1 /\ chain'[Height + 1] = t
        /\ \A h \in 1 .. Height : chain'[h] = chain[h]
    BY <2>1, <2>2, <2>4 DEF Height
  <2>6. \A h \in 2 .. Height : Paid(chain[h - 1], chain[h])
    BY DEF BookInv, NoOverdraft, Paid, Owners
  <2>7. ASSUME NEW h \in 2 .. Height + 1 PROVE Paid(chain'[h - 1], chain'[h])
    <3>1. CASE h = Height + 1
      <4>1. h - 1 = Height /\ Height \in 1 .. Height
        BY <2>2, <3>1
      <4> QED
        BY <2>4, <2>5, <3>1, <4>1 DEF s
    <3>2. CASE h # Height + 1
      <4>1. h \in 2 .. Height /\ h \in 1 .. Height /\ h - 1 \in 1 .. Height
        BY <2>2, <3>2
      <4> QED
        BY <2>5, <2>6, <4>1
    <3> QED
      BY <3>1, <3>2
  <2>8. NoOverdraft'
    BY <2>5, <2>7 DEF NoOverdraft, Paid, Owners
  <2> QED
    BY <1>1, <2>8 DEF BookInv
<1> QED
  BY <1>2, <1>3

\* Whatever is spent twice in the form (home.js:49), on the ledger nobody pays what he
\* has not, whatever amounts there are and whatever anybody has got before
\* (TransferOperations.scala:16-37).
THEOREM NeverOverdrawn == Spec => []NoOverdraft
<1>1. BookInv => NoOverdraft
  BY DEF BookInv
<1>2. BookInv /\ [Next]_vars => BookInv'
  BY BookNext
<1> QED
  BY <1>1, <1>2, BookInit, PTL DEF Spec

-------------------------------------------------------------------------------
(* The table's columns and the profile.                                    *)

\* The entry that is restored to a column belongs to one with its key.
LEMMA EntryIsNamesake ==
  ASSUME NEW i \in Indices
  PROVE  EntryFor(i) \in Namesakes(i)
<1> DEFINE X == Namesakes(i)
           below == {Len(Columns) - j : j \in X}
<1>1. i \in X /\ X \subseteq 1 .. Len(Columns) /\ Len(Columns) \in Nat
  BY ColumnsAssumption DEF Namesakes, Indices
<1>2. below \subseteq Nat /\ below # {}
  BY <1>1
<1>3. PICK m \in below : \A k \in below : m <= k
  BY <1>2, Least
<1>4. PICK j \in X : m = Len(Columns) - j
  BY <1>3
<1>5. \A k \in X : k <= j
  <2> SUFFICES ASSUME NEW k \in X PROVE k <= j
    OBVIOUS
  <2>1. m <= Len(Columns) - k
    BY <1>3
  <2> HIDE DEF X, below
  <2> QED
    BY <1>1, <1>4, <2>1
<1> HIDE DEF X, below
<1>6. Max(X) \in X
  <2>1. \E x \in X : \A y \in X : x >= y
    BY <1>1, <1>5
  <2> QED
    BY <2>1 DEF Max
<1> QED
  BY <1>6 DEF EntryFor, X

\* Columns with one key have values of one type.
LEMMA EntryTyped ==
  ASSUME NEW i \in Indices
  PROVE  EntryFor(i) \in Indices /\ Value(EntryFor(i)) = Value(i)
BY EntryIsNamesake, ColumnsAssumption DEF Namesakes, Value, Indices

\* A column with a key of its own gets its own entry.
LEMMA OwnEntry ==
  ASSUME NEW i \in Indices, Namesakes(i) = {i}
  PROVE  Restorable(i) /\ EntryFor(i) = i
<1>1. i \in Int
  BY ColumnsAssumption DEF Indices
<1>2. Min({i}) = i
  BY <1>1 DEF Min
<1> QED
  BY <1>2, EntryIsNamesake DEF Restorable

\* What the profile holds was made from the columns that were kept.
Stored ==
  /\ profile = [visible |-> profile.visible, filters |-> profile.filters]
  /\ kept = [visible |-> kept.visible, filters |-> kept.filters]
  /\ \/ profile.visible = UNDEF /\ kept.visible = UNDEF
     \/ /\ ColumnsTyped(kept.visible)
        /\ profile.visible = [i \in Indices |-> kept.visible[i].visible]
  /\ \/ profile.filters = UNDEF /\ kept.filters = UNDEF
     \/ /\ ColumnsTyped(kept.filters)
        /\ profile.filters = [i \in Indices |-> FilterToJson(i, kept.filters[i])]

\* To the storage a column goes with a value of its type.
LEMMA JsonTyped ==
  ASSUME NEW i \in Indices, NEW c \in Column, c.value \in Value(i)
  PROVE  /\ FilterToJson(i, c) \in [act : BOOLEAN, fval : Values]
         /\ FilterToJson(i, c).fval \in Value(i)
         /\ Columns[i].date => FilterToJson(i, c).fval \in DayRange
BY ColumnsAssumption DEF FilterToJson, Value, Values, Column, NoDates, DayRange, Day

\* ... and with one it comes back.
LEMMA FilterTyped ==
  ASSUME NEW i \in Indices, NEW c \in Column, c.value \in Value(i),
         NEW json \in [act : BOOLEAN, fval : Values], json.fval \in Value(i),
         Columns[i].date => json.fval \in DayRange
  PROVE  JsonToFilter(i, c, json) \in Column /\ JsonToFilter(i, c, json).value \in Value(i)
BY ColumnsAssumption DEF JsonToFilter, Falsy, Value, Values, Column, DayRange, Day

FreshColumns == [i \in Indices |-> FreshColumn]

LEMMA FreshTyped == ColumnsTyped(FreshColumns)
BY ColumnsAssumption DEF ColumnsTyped, FreshColumns, FreshColumn, Column, Value, Values

\* A profile that was stored holds values of the columns' types.
LEMMA StoredTyped ==
  ASSUME Stored
  PROVE  /\ profile.visible = UNDEF \/ profile.visible \in VisibleProfiles
         /\ profile.filters # UNDEF =>
              /\ profile.filters \in FilterProfiles
              /\ \A i \in Indices :
                   /\ profile.filters[i].fval \in Value(i)
                   /\ Columns[i].date => profile.filters[i].fval \in DayRange
<1>1. profile.visible = UNDEF \/ profile.visible \in VisibleProfiles
  BY DEF Stored, ColumnsTyped, Column, VisibleProfiles
<1>2. ASSUME profile.filters # UNDEF
      PROVE  /\ profile.filters \in FilterProfiles
             /\ \A i \in Indices :
                  /\ profile.filters[i].fval \in Value(i)
                  /\ Columns[i].date => profile.filters[i].fval \in DayRange
  <2>1. /\ ColumnsTyped(kept.filters)
        /\ profile.filters = [i \in Indices |-> FilterToJson(i, kept.filters[i])]
    BY <1>2 DEF Stored
  <2>2. \A i \in Indices : kept.filters[i] \in Column /\ kept.filters[i].value \in Value(i)
    BY <2>1 DEF ColumnsTyped
  <2>3. \A i \in Indices : /\ profile.filters[i] \in [act : BOOLEAN, fval : Values]
                           /\ profile.filters[i].fval \in Value(i)
                           /\ Columns[i].date => profile.filters[i].fval \in DayRange
    BY <2>1, <2>2, JsonTyped
  <2> QED
    BY <2>1, <2>3 DEF FilterProfiles
<1> QED
  BY <1>1, <1>2

\* Columns keep their types when they are restored.
LEMMA VisibleRestored ==
  ASSUME Stored, NEW cols, ColumnsTyped(cols)
  PROVE  ColumnsTyped(RestoreVisibleColumns(cols))
<1>1. CASE profile.visible = UNDEF
  BY <1>1 DEF RestoreVisibleColumns
<1>2. CASE profile.visible # UNDEF
  <2>1. profile.visible \in [Indices -> BOOLEAN]
    BY <1>2, StoredTyped DEF VisibleProfiles
  <2>2. \A i \in Indices : EntryFor(i) \in Indices
    BY EntryTyped
  <2>3. \A i \in Indices : cols[i] \in Column /\ cols[i].value \in Value(i)
    BY DEF ColumnsTyped
  <2>4. \A i \in Indices :
          LET c == [cols[i] EXCEPT !.visible = profile.visible[EntryFor(i)]]
          IN  c \in Column /\ c.value \in Value(i)
    BY <2>1, <2>2, <2>3 DEF Column
  <2>5. RestoreVisibleColumns(cols) =
          [i \in Indices |->
             IF Restorable(i) THEN [cols[i] EXCEPT !.visible = profile.visible[EntryFor(i)]]
             ELSE cols[i]]
    BY <1>2 DEF RestoreVisibleColumns
  <2> QED
    BY <2>3, <2>4, <2>5 DEF ColumnsTyped
<1> QED
  BY <1>1, <1>2

LEMMA FiltersRestored ==
  ASSUME Stored, NEW cols, ColumnsTyped(cols)
  PROVE  ColumnsTyped(RestoreFilteredColumns(cols))
<1>1. CASE profile.filters = UNDEF
  BY <1>1 DEF RestoreFilteredColumns
<1>2. CASE profile.filters # UNDEF
  <2>1. \A i \in Indices : /\ profile.filters[i] \in [act : BOOLEAN, fval : Values]
                           /\ profile.filters[i].fval \in Value(i)
                           /\ Columns[i].date => profile.filters[i].fval \in DayRange
    BY <1>2, StoredTyped DEF FilterProfiles
  <2>2. \A i \in Indices : /\ EntryFor(i) \in Indices /\ Value(EntryFor(i)) = Value(i)
                           /\ Columns[EntryFor(i)].date = Columns[i].date
    BY EntryTyped, EntryIsNamesake, ColumnsAssumption DEF Namesakes, Indices
  <2>3. \A i \in Indices : cols[i] \in Column /\ cols[i].value \in Value(i)
    BY DEF ColumnsTyped
  <2>4. \A i \in Indices :
          LET c == JsonToFilter(i, cols[i], profile.filters[EntryFor(i)])
          IN  c \in Column /\ c.value \in Value(i)
    BY <2>1, <2>2, <2>3, FilterTyped
  <2>5. RestoreFilteredColumns(cols) =
          [i \in Indices |->
             IF Restorable(i) THEN JsonToFilter(i, cols[i], profile.filters[EntryFor(i)])
             ELSE cols[i]]
    BY <1>2 DEF RestoreFilteredColumns
  <2> QED
    BY <2>3, <2>4, <2>5 DEF ColumnsTyped
<1> QED
  BY <1>1, <1>2

RestoredColumns == RestoreFilteredColumns(RestoreVisibleColumns(FreshColumns))

LEMMA RestoredTyped == ASSUME Stored PROVE ColumnsTyped(RestoredColumns)
BY FreshTyped, VisibleRestored, FiltersRestored DEF RestoredColumns

-------------------------------------------------------------------------------
(* One table.                                                              *)

IsTable(x) ==
  x = [cols |-> x.cols, visiblecolumns |-> x.visiblecolumns, loading |-> x.loading,
       asked |-> x.asked, wire |-> x.wire, rows |-> x.rows, unasked |-> x.unasked,
       upset |-> x.upset, unbound |-> x.unbound]

\* The view shows the columns ticked.
Bound(x) == ~x.unbound => x.visiblecolumns = Visible(x.cols)

\* Unless something was upset, the last query is on its way as long as any is, and
\* it asks for what the filters say.
Asking(x) ==
  /\ ~x.upset /\ x.wire # {} => \E q \in x.wire : q.n = x.asked
  /\ ~x.unasked => \A q \in x.wire : q.n = x.asked => q.filters = GetFilters(x.cols)

\* The rows are those of the last query when nothing is on its way.
Waiting(x) ==
  x.wire = {} => /\ ~x.loading
                 /\ ~x.upset /\ ~x.unasked => x.rows.filters = GetFilters(x.cols)

Well(x) == IsTable(x) /\ TableTyped(x) /\ Bound(x)

TabInv(x) == Well(x) /\ Asking(x) /\ Waiting(x)

\* What a column asks depends on its filter only, and an inactive one asks nothing.
LEMMA FiltersSame ==
  ASSUME NEW cols, NEW cols2,
         \A i \in Indices : \/ ~cols[i].active /\ ~cols2[i].active
                            \/ /\ cols[i].active = cols2[i].active
                               /\ cols[i].value = cols2[i].value
  PROVE  GetFilters(cols) = GetFilters(cols2)
<1>1. \A i \in Indices : Asked(cols, i) = Asked(cols2, i)
  BY DEF Asked, FilterExpression
<1> QED
  BY <1>1 DEF GetFilters

\* After a query was sent, the table waits for it.
LEMMA GetDataInv ==
  ASSUME NEW old, NEW x, Well(x)
  PROVE  TabInv(GetData(old, x))
<1> DEFINE q == [n |-> x.asked + 1, filters |-> GetFilters(x.cols)]
           y == GetData(old, x)
<1>0. IsTable(x) /\ x.upset \in BOOLEAN
  BY DEF Well, TableTyped
<1>1. /\ IsTable(y)
      /\ y.cols = x.cols /\ y.visiblecolumns = x.visiblecolumns /\ y.loading
      /\ y.asked = x.asked + 1 /\ y.wire = x.wire \cup {q} /\ y.rows = x.rows
      /\ ~y.unasked /\ y.upset \in BOOLEAN /\ y.loading \in BOOLEAN /\ y.unasked \in BOOLEAN
      /\ y.unbound = x.unbound
  <2> DEFINE u == x.upset /\ x.wire # {}
             w == x.wire \cup {q}
  <2>1. u \in BOOLEAN
    OBVIOUS
  <2>2. y = [x EXCEPT !.loading = TRUE, !.asked = x.asked + 1, !.unasked = FALSE,
                      !.upset = u, !.wire = w]
    BY <1>0 DEF GetData, IsTable
  <2> HIDE DEF u, w, y
  <2>3. y = [cols |-> x.cols, visiblecolumns |-> x.visiblecolumns, loading |-> TRUE,
             asked |-> x.asked + 1, wire |-> w, rows |-> x.rows,
             unasked |-> FALSE, upset |-> u, unbound |-> x.unbound]
    BY <1>0, <2>2 DEF IsTable
  <2> QED
    BY <2>1, <2>3 DEF IsTable, w
<1>2. /\ x.asked \in Nat /\ \A r \in x.wire : r.n \in 1 .. x.asked
      /\ x.rows.n \in 0 .. x.asked
  BY DEF Well, TableTyped
<1>3. TableTyped(y)
  <2>1. \A r \in y.wire : r.n \in 1 .. y.asked
    BY <1>1, <1>2
  <2>2. y.rows.n \in 0 .. y.asked /\ y.asked \in Nat
    BY <1>1, <1>2
  <2> QED
    BY <1>1, <2>1, <2>2 DEF TableTyped, Well
<1>4. Asking(y) /\ Waiting(y)
  <2>1. q.n = y.asked /\ q.filters = GetFilters(y.cols) /\ q \in y.wire
    BY <1>1
  <2>2. \A r \in y.wire : r.n = y.asked => r = q
    BY <1>1, <1>2
  <2> HIDE DEF q, y
  <2> QED
    BY <2>1, <2>2 DEF Asking, Waiting
<1> QED
  BY <1>1, <1>3, <1>4 DEF TabInv, Well, IsTable, Bound

-------------------------------------------------------------------------------
(* The steps.                                                              *)

TableInv ==
  /\ tabs = [t \in Tabs |-> tabs[t]]
  /\ \A t \in Tabs : IsOpen(t) => TabInv(tabs[t])
  /\ Stored
  /\ steps \in 0 .. MaxSteps /\ failures \in 0 .. MaxFailures

\* What a step has to show of the tab it changes.
LEMMA TabChanges ==
  ASSUME TableInv, NEW t \in Tabs, NEW x, TabInv(x), Put(t, x)
  PROVE  /\ tabs' = [u \in Tabs |-> tabs'[u]]
         /\ \A u \in Tabs : IsOpen(u)' => TabInv(tabs'[u])
<1>1. tabs' = [u \in Tabs |-> IF u = t THEN x ELSE tabs[u]]
  BY DEF TableInv, Put
<1> QED
  BY <1>1 DEF TableInv, IsOpen

LEMMA Counts ==
  ASSUME TableInv
  PROVE  /\ Step => steps' \in 0 .. MaxSteps
         /\ \A ok \in BOOLEAN : Taken(ok) => failures' \in 0 .. MaxFailures
BY StepsAssumption DEF TableInv, Step, Taken

LEMMA OpenInv == ASSUME TableInv, NEW t \in Tabs, Open(t) PROVE TableInv'
<1> DEFINE x == NewTable(RestoredColumns)
<1>1. Put(t, GetData(x, x)) /\ Step /\ UNCHANGED <<profile, kept, failures>>
  BY DEF Open, RestoredColumns, FreshColumns
<1>2. ColumnsTyped(RestoredColumns)
  BY RestoredTyped DEF TableInv
<1>3. Well(x)
  BY <1>2 DEF Well, IsTable, TableTyped, Bound, NewTable, Visible
<1>4. TabInv(GetData(x, x))
  BY <1>3, GetDataInv
<1>5. Stored'
  BY <1>1 DEF TableInv, Stored
<1> QED
  BY <1>1, <1>4, <1>5, TabChanges, Counts DEF TableInv

LEMMA BlockInv == ASSUME TableInv, NEW t \in Tabs, Block(t) PROVE TableInv'
<1>1. TabInv(GetData(tabs[t], tabs[t]))
  BY GetDataInv DEF TableInv, Block, TabInv
<1>2. Stored'
  BY DEF Block, TableInv, Stored
<1> QED
  BY <1>1, <1>2, TabChanges, Counts DEF TableInv, Block

\* The profile as a click stores it.
LEMMA VisibleStored ==
  ASSUME Stored, NEW cols, ColumnsTyped(cols), StoreVisibleColumns(cols)
  PROVE  Stored'
BY DEF Stored, StoreVisibleColumns

LEMMA FiltersStored ==
  ASSUME Stored, NEW cols, ColumnsTyped(cols), StoreFilteredColumns(cols)
  PROVE  Stored'
BY DEF Stored, StoreFilteredColumns

LEMMA StoredStays == ASSUME Stored, UNCHANGED <<profile, kept>> PROVE Stored'
BY DEF Stored

LEMMA VisibilityInv ==
  ASSUME TableInv, NEW t \in Tabs, NEW i \in Indices, NEW ok \in BOOLEAN,
         ColumnVisibilityClicked(t, i, ok)
  PROVE  TableInv'
<1> DEFINE x == tabs[t]
           cols == [x.cols EXCEPT ![i].visible = ~@]
           y == [x EXCEPT !.cols = cols, !.unbound = ~ok]
           z == IF ok THEN [y EXCEPT !.visiblecolumns = Visible(cols)] ELSE y
<1>1. TabInv(x)
  BY DEF TableInv, ColumnVisibilityClicked
<1>2. /\ [x EXCEPT !.cols[i].visible = ~@, !.unbound = ~ok] = y
      /\ y.cols = cols
  BY <1>1 DEF TabInv, Well, IsTable
<1>3. /\ Put(t, z) /\ Step /\ Taken(ok)
      /\ IF ok THEN StoreVisibleColumns(cols) ELSE UNCHANGED <<profile, kept>>
  BY <1>2 DEF ColumnVisibilityClicked
<1>4. ColumnsTyped(cols)
  BY <1>1 DEF TabInv, Well, TableTyped, ColumnsTyped, Column
<1>5. GetFilters(cols) = GetFilters(x.cols)
  <2>1. \A j \in Indices : cols[j].active = x.cols[j].active /\ cols[j].value = x.cols[j].value
    BY <1>1 DEF TabInv, Well, TableTyped, ColumnsTyped, Column
  <2> HIDE DEF cols, x
  <2> QED
    BY <2>1, FiltersSame
<1>6. z = [cols |-> cols, visiblecolumns |-> IF ok THEN Visible(cols) ELSE x.visiblecolumns,
           loading |-> x.loading, asked |-> x.asked, wire |-> x.wire, rows |-> x.rows,
           unasked |-> x.unasked, upset |-> x.upset, unbound |-> ~ok]
  BY <1>1 DEF TabInv, Well, IsTable
<1> HIDE DEF cols, y, z, x
<1>7. TabInv(z)
  <2>1. Asking(z) /\ Waiting(z)
    BY <1>1, <1>5, <1>6 DEF TabInv, Asking, Waiting
  <2>2. TableTyped(z) /\ Bound(z)
    BY <1>1, <1>4, <1>6 DEF TabInv, Well, TableTyped, Bound, Visible
  <2> QED
    BY <1>6, <2>1, <2>2 DEF TabInv, Well, IsTable
<1>8. Stored'
  BY <1>3, <1>4, VisibleStored, StoredStays DEF TableInv
<1> QED
  BY <1>3, <1>7, <1>8, TabChanges, Counts DEF TableInv

\* A step that changes the columns of a table in their filters only, and stores
\* nothing or what it has changed.
LEMMA FiltersChange ==
  ASSUME NEW x, TabInv(x), NEW cols, ColumnsTyped(cols), NEW un \in BOOLEAN,
         \A j \in Indices : cols[j].visible = x.cols[j].visible,
         NEW y, y = [x EXCEPT !.cols = cols, !.unasked = un]
  PROVE  /\ Well(y)
         /\ (un \/ (GetFilters(cols) = GetFilters(x.cols) /\ un = x.unasked)) => TabInv(y)
<1>1. y = [cols |-> cols, visiblecolumns |-> x.visiblecolumns, loading |-> x.loading,
           asked |-> x.asked, wire |-> x.wire, rows |-> x.rows, unasked |-> un,
           upset |-> x.upset, unbound |-> x.unbound]
  BY DEF TabInv, Well, IsTable
<1>2. Visible(cols) = Visible(x.cols)
  BY DEF Visible
<1>3. TableTyped(y) /\ Bound(y)
  BY <1>1, <1>2 DEF TabInv, Well, TableTyped, Bound
<1>4. Well(y)
  BY <1>1, <1>3 DEF Well, IsTable
<1>5. (un \/ (GetFilters(cols) = GetFilters(x.cols) /\ un = x.unasked)) => Asking(y) /\ Waiting(y)
  BY <1>1 DEF TabInv, Asking, Waiting
<1> QED
  BY <1>4, <1>5 DEF TabInv

LEMMA ColumnFiltersInv ==
  ASSUME TableInv, NEW t \in Tabs, NEW i \in FilteredColumns, NEW ok \in BOOLEAN,
         ColumnFiltersClicked(t, i, ok)
  PROVE  TableInv'
<1> DEFINE x == tabs[t]
           cols == [x.cols EXCEPT ![i].active = ~@]
           y == [x EXCEPT !.cols = cols, !.unasked = TRUE]
<1>0. i \in Indices
  BY DEF FilteredColumns
<1>1. TabInv(x)
  BY DEF TableInv, ColumnFiltersClicked
<1>2. /\ [x EXCEPT !.cols[i].active = ~@, !.unasked = TRUE] = y
      /\ y.cols = cols
  BY <1>1 DEF TabInv, Well, IsTable
<1>3. /\ Put(t, IF ok THEN GetData(x, y) ELSE y) /\ Step /\ Taken(ok)
      /\ IF ok THEN StoreFilteredColumns(cols) ELSE UNCHANGED <<profile, kept>>
  BY <1>2 DEF ColumnFiltersClicked
<1>4. ColumnsTyped(cols) /\ \A j \in Indices : cols[j].visible = x.cols[j].visible
  BY <1>0, <1>1 DEF TabInv, Well, TableTyped, ColumnsTyped, Column
<1> HIDE DEF cols
<1>y. y = [x EXCEPT !.cols = cols, !.unasked = TRUE]
  OBVIOUS
<1> HIDE DEF y, x
<1>5. Well(y) /\ TabInv(y)
  BY <1>1, <1>4, <1>y, FiltersChange
<1>6. TabInv(IF ok THEN GetData(x, y) ELSE y)
  BY <1>5, GetDataInv
<1>7. Stored'
  BY <1>3, <1>4, FiltersStored, StoredStays DEF TableInv
<1> QED
  BY <1>3, <1>6, <1>7, TabChanges, Counts DEF TableInv

LEMMA AskAndStoreInv ==
  ASSUME TableInv, NEW t \in Tabs, NEW cols, NEW ok \in BOOLEAN, AskAndStore(t, cols, ok),
         ColumnsTyped(cols), \A j \in Indices : cols[j].visible = tabs[t].cols[j].visible
  PROVE  TableInv'
<1> DEFINE x == tabs[t]
           y == [x EXCEPT !.cols = cols]
<1>1. TabInv(x)
  BY DEF TableInv, AskAndStore
<1>2. y = [x EXCEPT !.cols = cols, !.unasked = x.unasked] /\ x.unasked \in BOOLEAN
  BY <1>1 DEF TabInv, Well, IsTable, TableTyped
<1>3. /\ Put(t, GetData(x, y)) /\ Step /\ Taken(ok)
      /\ IF ok THEN StoreFilteredColumns(cols) ELSE UNCHANGED <<profile, kept>>
  BY DEF AskAndStore
<1> HIDE DEF y
<1>4. Well(y)
  BY <1>1, <1>2, FiltersChange
<1>5. TabInv(GetData(x, y))
  BY <1>4, GetDataInv
<1>6. Stored'
  BY <1>3, FiltersStored, StoredStays DEF TableInv
<1> QED
  BY <1>3, <1>5, <1>6, TabChanges, Counts DEF TableInv

LEMMA WithActiveTyped ==
  ASSUME NEW cols, ColumnsTyped(cols), NEW active \in BOOLEAN
  PROVE  /\ ColumnsTyped(WithActive(cols, active))
         /\ \A j \in Indices : WithActive(cols, active)[j].visible = cols[j].visible
BY DEF WithActive, ColumnsTyped, Column

LEMMA ButtonsInv ==
  ASSUME TableInv, NEW t \in Tabs, NEW ok \in BOOLEAN,
         \/ SetAllFiltersClicked(t, ok) \/ ClearFiltersClicked(t, ok) \/ ApplyFiltersClicked(t, ok)
  PROVE  TableInv'
<1>1. IsOpen(t)
  BY DEF SetAllFiltersClicked, ClearFiltersClicked, ApplyFiltersClicked, AskAndStore
<1>2. ColumnsTyped(tabs[t].cols)
  BY <1>1 DEF TableInv, TabInv, Well, TableTyped
<1>3. CASE SetAllFiltersClicked(t, ok)
  BY <1>2, <1>3, WithActiveTyped, AskAndStoreInv DEF SetAllFiltersClicked
<1>4. CASE ClearFiltersClicked(t, ok)
  BY <1>2, <1>4, WithActiveTyped, AskAndStoreInv DEF ClearFiltersClicked
<1>5. CASE ApplyFiltersClicked(t, ok)
  BY <1>2, <1>5, AskAndStoreInv DEF ApplyFiltersClicked
<1> QED
  BY <1>3, <1>4, <1>5

LEMMA EditInv ==
  ASSUME TableInv, NEW t \in Tabs, NEW i \in Indices, NEW value \in Value(i), Edit(t, i, value)
  PROVE  TableInv'
<1> DEFINE x == tabs[t]
           cols == [x.cols EXCEPT ![i].value = value]
           un == x.unasked \/ x.cols[i].active
           y == [x EXCEPT !.cols = cols, !.unasked = un]
<1>1. TabInv(x)
  BY DEF TableInv, Edit
<1>2. x.unasked \in BOOLEAN /\ x.cols[i].active \in BOOLEAN /\ un \in BOOLEAN
  BY <1>1 DEF TabInv, Well, TableTyped, ColumnsTyped, Column
<1>3. [x EXCEPT !.cols[i].value = value, !.unasked = @ \/ x.cols[i].active] = y
  BY <1>1 DEF TabInv, Well, IsTable
<1>4. Put(t, y) /\ Step /\ UNCHANGED <<profile, kept, failures>>
  BY <1>3 DEF Edit
<1>5. /\ ColumnsTyped(cols)
      /\ \A j \in Indices : /\ cols[j].visible = x.cols[j].visible
                            /\ cols[j].active = x.cols[j].active
                            /\ j # i => cols[j].value = x.cols[j].value
  <2>1. Value(i) \subseteq Values
    BY DEF Value, Values
  <2> QED
    BY <1>1, <2>1 DEF TabInv, Well, TableTyped, ColumnsTyped, Column
<1> HIDE DEF cols, un
<1>6. un \/ (GetFilters(cols) = GetFilters(x.cols) /\ un = x.unasked)
  <2>1. CASE x.cols[i].active
    BY <2>1, Zenon DEF un
  <2>2. CASE ~x.cols[i].active
    <3>1. GetFilters(cols) = GetFilters(x.cols)
      BY <1>5, <2>2, FiltersSame
    <3> QED
      BY <1>2, <2>2, <3>1 DEF un
  <2> QED
    BY <2>1, <2>2
<1>7. TabInv(y)
  BY <1>1, <1>2, <1>5, <1>6, FiltersChange
<1>8. Stored'
  BY <1>4, StoredStays DEF TableInv
<1> QED
  BY <1>4, <1>7, <1>8, TabChanges, Counts DEF TableInv

LEMMA EditFilterInv ==
  ASSUME TableInv, NEW t \in Tabs, IsOpen(t), EditFilter(t)
  PROVE  TableInv'
<1>1. PICK i \in FilteredColumns :
        IF Columns[i].date
        THEN LET dates == IF tabs[t].cols[i].value = UNDEF THEN NoDates ELSE tabs[t].cols[i].value
             IN  \E day \in Dates : \/ Edit(t, i, [dates EXCEPT !.from = day])
                                    \/ Edit(t, i, [dates EXCEPT !.to = day])
        ELSE \E text \in Texts : Edit(t, i, text)
  BY DEF EditFilter
<1>2. i \in Indices /\ tabs[t].cols[i].value \in Value(i)
  BY DEF FilteredColumns, TableInv, TabInv, Well, TableTyped, ColumnsTyped
<1>3. \E value \in Value(i) : Edit(t, i, value)
  <2>1. CASE Columns[i].date
    <3> DEFINE dates == IF tabs[t].cols[i].value = UNDEF THEN NoDates ELSE tabs[t].cols[i].value
    <3>1. dates \in DayRange
      BY <1>2, <2>1 DEF Value, NoDates, DayRange, Day
    <3>2. PICK day \in Dates : \/ Edit(t, i, [dates EXCEPT !.from = day])
                               \/ Edit(t, i, [dates EXCEPT !.to = day])
      BY <1>1, <2>1
    <3> HIDE DEF dates
    <3>3. [dates EXCEPT !.from = day] \in Value(i) /\ [dates EXCEPT !.to = day] \in Value(i)
      BY <2>1, <3>1 DEF Value, DayRange, Day
    <3> QED
      BY <3>2, <3>3
  <2>2. CASE ~Columns[i].date
    BY <1>1, <2>2 DEF Value
  <2> QED
    BY <2>1, <2>2
<1> QED
  BY <1>2, <1>3, EditInv

LEMMA RowsInv ==
  ASSUME TableInv, NEW t \in Tabs, IsOpen(t), NEW q \in tabs[t].wire,
         RowsCome(t, q) \/ RowsFail(t, q)
  PROVE  TableInv'
<1> DEFINE x == tabs[t]
           late == x.upset \/ Overtakes(q, x.wire)
           rest == x.wire \ {q}
           y == [x EXCEPT !.rows = q, !.loading = FALSE, !.wire = rest, !.upset = late]
           z == [x EXCEPT !.loading = FALSE, !.wire = rest, !.upset = TRUE]
<1>1. TabInv(x) /\ IsTable(x)
  BY DEF TableInv, TabInv, Well
<1>2. late \in BOOLEAN
  BY <1>1 DEF TabInv, Well, TableTyped, Overtakes
<1>3. /\ \A r \in x.wire : r.n \in 1 .. x.asked
      /\ x.asked \in Nat
  BY <1>1 DEF TabInv, Well, TableTyped
<1>4. CASE RowsCome(t, q)
  <2>1. Put(t, y) /\ UNCHANGED <<profile, kept, steps, failures>>
    BY <1>1, <1>4 DEF RowsCome, IsTable
  <2>2. ~late => /\ ~x.upset
                 /\ \A r \in x.wire : r.n >= q.n
                 /\ \E r \in x.wire : r.n = x.asked
    BY <1>1, <1>3 DEF Overtakes, TabInv, Asking
  <2>3. ~late /\ rest # {} => \E r \in rest : r.n = x.asked
    BY <1>3, <2>2
  <2>4. ~late /\ rest = {} => q.n = x.asked
    BY <2>2
  <2>5. y = [cols |-> x.cols, visiblecolumns |-> x.visiblecolumns, loading |-> FALSE,
             asked |-> x.asked, wire |-> rest, rows |-> q, unasked |-> x.unasked,
             upset |-> late, unbound |-> x.unbound]
    <3>1. y = [x EXCEPT !.rows = q, !.loading = FALSE, !.wire = rest, !.upset = late]
      OBVIOUS
    <3> HIDE DEF y, late, rest, x
    <3> QED
      BY <1>1, <3>1 DEF IsTable
  <2> HIDE DEF y, late, rest
  <2>6. rest \subseteq x.wire
    BY DEF rest
  <2>7. Well(y)
    <3>1. TableTyped(y)
      BY <1>1, <1>2, <1>3, <2>5, <2>6 DEF TabInv, Well, TableTyped
    <3> QED
      BY <1>1, <2>5, <3>1 DEF TabInv, Well, IsTable, Bound
  <2>8. Asking(y) /\ Waiting(y)
    BY <1>1, <2>3, <2>4, <2>5, <2>6 DEF TabInv, Asking, Waiting
  <2>9. Stored'
    BY <2>1, StoredStays DEF TableInv
  <2> QED
    BY <2>1, <2>7, <2>8, <2>9, TabChanges DEF TabInv, TableInv
<1>5. CASE RowsFail(t, q)
  <2>1. Put(t, z) /\ UNCHANGED <<profile, kept, steps>> /\ failures' \in 0 .. MaxFailures
    BY <1>1, <1>5, StepsAssumption DEF RowsFail, IsTable, TableInv
  <2>2. z = [cols |-> x.cols, visiblecolumns |-> x.visiblecolumns, loading |-> FALSE,
             asked |-> x.asked, wire |-> rest, rows |-> x.rows, unasked |-> x.unasked,
             upset |-> TRUE, unbound |-> x.unbound]
    <3>1. z = [x EXCEPT !.loading = FALSE, !.wire = rest, !.upset = TRUE]
      OBVIOUS
    <3> HIDE DEF z, rest, x
    <3> QED
      BY <1>1, <3>1 DEF IsTable
  <2> HIDE DEF z, rest
  <2>3. rest \subseteq x.wire
    BY DEF rest
  <2>4. Well(z)
    <3>1. TableTyped(z)
      BY <1>1, <1>3, <2>2, <2>3 DEF TabInv, Well, TableTyped
    <3> QED
      BY <1>1, <2>2, <3>1 DEF TabInv, Well, IsTable, Bound
  <2>5. Asking(z) /\ Waiting(z)
    BY <1>1, <2>2, <2>3 DEF TabInv, Asking, Waiting
  <2>6. Stored'
    BY <2>1, StoredStays DEF TableInv
  <2> QED
    BY <2>1, <2>4, <2>5, <2>6, TabChanges DEF TabInv, TableInv
<1> QED
  BY <1>4, <1>5

LEMMA TableStarts == TableInit => TableInv
BY StepsAssumption DEF TableInit, TableInv, IsOpen, Stored

LEMMA TableNexts == TableInv /\ [TableNext]_tableVars => TableInv'
<1> SUFFICES ASSUME TableInv, [TableNext]_tableVars PROVE TableInv'
  OBVIOUS
<1>1. CASE UNCHANGED tableVars
  BY <1>1, StoredStays DEF tableVars, TableInv, IsOpen
<1>2. ASSUME NEW t \in Tabs, IsOpen(t), Click(t) PROVE TableInv'
  BY <1>2, VisibilityInv, ColumnFiltersInv, ButtonsInv DEF Click
<1>3. ASSUME NEW t \in Tabs, \/ Open(t)
                             \/ IsOpen(t) /\ (Block(t) \/ Click(t) \/ EditFilter(t))
                             \/ IsOpen(t) /\ \E q \in tabs[t].wire : RowsCome(t, q) \/ RowsFail(t, q)
      PROVE  TableInv'
  BY <1>2, <1>3, OpenInv, BlockInv, EditFilterInv, RowsInv
<1> QED
  BY <1>1, <1>3 DEF TableNext

LEMMA TableAlways == TableSpec => []TableInv
BY TableStarts, TableNexts, PTL DEF TableSpec

\* The tables and the profile keep their types, for any columns, tabs and number of
\* clicks: a column has a value of its type however often it is stored and restored.
THEOREM TablesTyped == TableSpec => []TablesOK
<1>1. TableInv => TablesOK
  <2> SUFFICES ASSUME TableInv PROVE TablesOK
    OBVIOUS
  <2>1. \A t \in Tabs : IsOpen(t) => TableTyped(tabs[t])
    BY DEF TableInv, TabInv, Well
  <2> QED
    BY <2>1, StoredTyped DEF TableInv, TablesOK
<1> QED
  BY <1>1, TableAlways, PTL

\* Once nothing is in flight the table shows the rows that its filters ask for.
THEOREM ViewStaysRight == TableSpec => []ViewRight
<1>1. TableInv => ViewRight
  <2> SUFFICES ASSUME TableInv, NEW t \in Tabs, IsOpen(t)
               PROVE  /\ tabs[t].wire = {} =>
                           /\ ~tabs[t].loading
                           /\ ~tabs[t].upset /\ ~tabs[t].unasked =>
                                tabs[t].rows.filters = GetFilters(tabs[t].cols)
                      /\ ~tabs[t].unbound => tabs[t].visiblecolumns = Visible(tabs[t].cols)
    BY DEF ViewRight
  <2> QED
    BY DEF TableInv, TabInv, Well, Bound, Waiting
<1> QED
  BY <1>1, TableAlways, PTL

\* What a column asks survives the way to the storage and back.
LEMMA AskedSurvives ==
  ASSUME NEW i \in Indices, NEW a, NEW b, a[i] \in Column, b[i] \in Column,
         a[i].value \in Value(i),
         b[i] = JsonToFilter(i, b[i], FilterToJson(i, a[i]))
  PROVE  Asked(b, i) = Asked(a, i)
<1>1. b[i].active = a[i].active
  BY DEF JsonToFilter, FilterToJson, Column
<1>2. CASE ~Columns[i].date
  <2>1. b[i].value = a[i].value
    BY <1>2 DEF JsonToFilter, FilterToJson, Column
  <2> QED
    BY <1>1, <2>1 DEF Asked, FilterExpression
<1>3. CASE Columns[i].date
  <2> DEFINE day(d) == IF Falsy(d) THEN UNDEF ELSE d
             dates == IF a[i].value = UNDEF THEN NoDates ELSE a[i].value
  <2>1. dates \in DayRange
    BY <1>3 DEF Value, NoDates, DayRange, Day
  <2>2. b[i].value = [from |-> day(dates.from), to |-> day(dates.to)]
    BY <1>3 DEF JsonToFilter, FilterToJson, Column
  <2>3. b[i].value \in DayRange
    BY <2>1, <2>2 DEF DayRange, Day, Falsy
  <2>4. b[i].value # UNDEF
    BY <2>3, UndefAssumption
  <2>5. FilterExpression(i, b[i]) = {<<i, "gt", day(dates.from)>>, <<i, "lt", day(dates.to)>>}
    BY <1>3, <2>2, <2>4 DEF FilterExpression
  <2>6. FilterExpression(i, a[i]) = {<<i, "gt", dates.from>>, <<i, "lt", dates.to>>}
    BY <1>3 DEF FilterExpression
  <2>7. \A d : Falsy(day(d)) <=> Falsy(d)
    BY DEF Falsy
  <2>8. \A d : ~Falsy(d) => day(d) = d
    OBVIOUS
  <2> HIDE DEF day, dates
  <2>9. {e \in FilterExpression(i, b[i]) : ~Falsy(e[3])} = {e \in FilterExpression(i, a[i]) : ~Falsy(e[3])}
    BY <2>5, <2>6, <2>7, <2>8
  <2> QED
    BY <1>1, <2>9 DEF Asked
<1> QED
  BY <1>2, <1>3

\* A table that is loaded asks what the table that stored the profile last asked,
\* and shows the columns that one showed.
THEOREM ProfileRestored == TableSpec => Restored
<1>1. ASSUME TableInv, NEW t \in Tabs, Open(t), NEW i \in Indices, Namesakes(i) = {i}
      PROVE  /\ kept.filters # UNDEF => Asked(tabs'[t].cols, i) = Asked(kept.filters, i)
             /\ kept.visible # UNDEF => tabs'[t].cols[i].visible = kept.visible[i].visible
  <2> DEFINE withVisible == RestoreVisibleColumns(FreshColumns)
             cols == RestoredColumns
  <2>1. Stored
    BY <1>1 DEF TableInv
  <2>2. tabs'[t].cols = cols
    BY <1>1 DEF TableInv, Open, Put, GetData, NewTable, RestoredColumns, FreshColumns
  <2>3. Restorable(i) /\ EntryFor(i) = i
    BY <1>1, OwnEntry
  <2>4. ColumnsTyped(withVisible) /\ ColumnsTyped(cols)
    BY <2>1, FreshTyped, VisibleRestored, RestoredTyped
  <2>5. ASSUME kept.visible # UNDEF PROVE cols[i].visible = kept.visible[i].visible
    <3>1. /\ ColumnsTyped(kept.visible)
          /\ profile.visible = [j \in Indices |-> kept.visible[j].visible]
      BY <2>1, <2>5 DEF Stored
    <3>2. profile.visible # UNDEF
      BY <3>1, UndefAssumption DEF ColumnsTyped, Column, VisibleProfiles
    <3>3. withVisible[i].visible = kept.visible[i].visible
      BY <2>3, <3>1, <3>2 DEF RestoreVisibleColumns, FreshColumns, FreshColumn
    <3>4. cols[i].visible = withVisible[i].visible
      <4>1. cols[i] = withVisible[i] \/ \E json : cols[i] = JsonToFilter(i, withVisible[i], json)
        BY <2>3 DEF RestoredColumns, RestoreFilteredColumns
      <4>2. withVisible[i] \in Column
        BY <2>4 DEF ColumnsTyped
      <4> HIDE DEF withVisible, cols
      <4> QED
        BY <4>1, <4>2 DEF JsonToFilter, Column
    <3> QED
      BY <3>3, <3>4
  <2>6. ASSUME kept.filters # UNDEF PROVE Asked(cols, i) = Asked(kept.filters, i)
    <3>1. /\ ColumnsTyped(kept.filters)
          /\ profile.filters = [j \in Indices |-> FilterToJson(j, kept.filters[j])]
      BY <2>1, <2>6 DEF Stored
    <3>2. profile.filters # UNDEF
      <4>1. \A j \in Indices : FilterToJson(j, kept.filters[j]) \in [act : BOOLEAN, fval : Values]
        BY <3>1, JsonTyped DEF ColumnsTyped
      <4>2. profile.filters \in FilterProfiles
        BY <3>1, <4>1 DEF FilterProfiles
      <4> QED
        BY <4>2, UndefAssumption
    <3>3. cols[i] = JsonToFilter(i, withVisible[i], FilterToJson(i, kept.filters[i]))
      BY <2>3, <3>1, <3>2 DEF RestoredColumns, RestoreFilteredColumns
    <3>4. /\ withVisible[i] \in Column /\ cols[i] \in Column
          /\ kept.filters[i] \in Column /\ kept.filters[i].value \in Value(i)
      BY <2>4, <3>1 DEF ColumnsTyped
    <3> HIDE DEF withVisible, cols
    <3>5. cols[i] = JsonToFilter(i, cols[i], FilterToJson(i, kept.filters[i]))
      BY <3>3, <3>4 DEF JsonToFilter, Column
    <3> QED
      BY <3>4, <3>5, AskedSurvives
  <2> QED
    BY <2>2, <2>5, <2>6
<1>2. TableInv /\ [TableNext]_tableVars =>
        [\A t \in Tabs : Open(t) =>
           \A i \in Indices : Namesakes(i) = {i} =>
             /\ kept.filters # UNDEF => Asked(tabs'[t].cols, i) = Asked(kept.filters, i)
             /\ kept.visible # UNDEF => tabs'[t].cols[i].visible = kept.visible[i].visible]_tableVars
  BY <1>1
<1> QED
  BY <1>2, TableAlways, PTL DEF TableSpec, Restored

===============================================================================
