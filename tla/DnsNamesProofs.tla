----------------------------- MODULE DnsNamesProofs -----------------------------
(***************************************************************************)
(* Proofs about the hosts lines and the objects of the organisations, for  *)
(* any addresses, domains and registrations, in any order and number, and  *)
(* for each of the three chaincodes:                                       *)
(*                                                                         *)
(*   NamesTyped     lines and objects keep their types;                    *)
(*   AskedIsKnown   every name that was asked for is on its line, or       *)
(*                  hidden by a longer one that is, and no other name is;  *)
(*   ListedIsKnown  a listed peer has a name on the line of its address,   *)
(*                  and in Node.js every registered peer is listed;        *)
(*   SecondSettles  what was registered twice, in Java once, is not        *)
(*                  entered again, whatever came before, between and       *)
(*                  after; but the empty entry of a peer other than peer0  *)
(*                  lengthens a line of one word by a blank.               *)
(*                                                                         *)
(* The argument: a line is only extended, so that what is found on it is   *)
(* found again; and an entry that was made is found the next time, unless  *)
(* it started the line, which it can do only once (RepeatInv).             *)
(***************************************************************************)
EXTENDS DnsNames, FiniteSetTheorems, WellFoundedInduction, TLAPS

-------------------------------------------------------------------------------
(* Numbers.                                                                *)

\* A set of numbers has a least one.
LEMMA Least ==
  ASSUME NEW X, X \subseteq Nat, X # {}
  PROVE  \E m \in X : \A k \in X : m <= k
<1>1. \E m \in X : \A k \in X : ~ (<<k, m>> \in OpToRel(<,Nat))
  BY NatLessThanWellFounded, WFMin
<1>2. ASSUME NEW m \in X, \A k \in X : ~ (<<k, m>> \in OpToRel(<,Nat))
      PROVE  \A k \in X : m <= k
  <2>1. \A k \in X : ~(k < m)
    BY <1>2 DEF OpToRel
  <2> QED
    BY <2>1
<1> QED
  BY <1>1, <1>2

\* What holds for 0 and goes on from a number to the next one holds for all.
LEMMA Induct ==
  ASSUME NEW S, 0 \in S, \A n \in Nat : n \in S => n + 1 \in S
  PROVE  Nat \subseteq S
<1> SUFFICES ASSUME ~(Nat \subseteq S) PROVE FALSE
  OBVIOUS
<1> DEFINE X == Nat \ S
<1>1. PICK m \in X : \A k \in X : m <= k
  BY Least
<1>2. m # 0 /\ m - 1 \in Nat /\ m - 1 \notin X
  BY <1>1
<1> QED
  BY <1>1, <1>2

-------------------------------------------------------------------------------
(* What there is to enter.                                                 *)

HostsOf(r) ==
  {"www", PeerName(r), JavaPeer(r), r.name, "www." \o r.name} \cup DOMAIN r.peers

WordsOf(r) == {<<h, s, r.domain>> : h \in HostsOf(r), s \in {".", "-"}}

Words == {EMPTY} \cup UNION {WordsOf(r) : r \in Requests}

Lines == [Addresses -> Seq(Words)]

Enterable == [ip : Addresses, dns : Seq(Words) \ {<<>>}]

LEMMA WordIn ==
  ASSUME NEW r \in Requests, NEW h \in HostsOf(r), NEW s \in {".", "-"}
  PROVE  <<h, s, r.domain>> \in Words
<1>1. <<h, s, r.domain>> \in WordsOf(r)
  BY DEF WordsOf
<1> QED
  BY <1>1, Zenon DEF Words

LEMMA WordDomain ==
  ASSUME NEW w \in Words PROVE w = EMPTY \/ (w[3] \in Domains /\ w # EMPTY)
<1> SUFFICES ASSUME w # EMPTY PROVE w[3] \in Domains
  OBVIOUS
<1>1. PICK r \in Requests : w \in WordsOf(r)
  BY Zenon DEF Words
<1>2. PICK h \in HostsOf(r), s \in {".", "-"} : w = <<h, s, r.domain>>
  BY <1>1 DEF WordsOf
<1>3. w[3] = r.domain
  BY <1>2
<1> QED
  BY <1>3, RequestsAssumption

\* The sequence of a finite set has all its elements.
LEMMA SequenceOfSet ==
  ASSUME NEW S, IsFiniteSet(S)
  PROVE  /\ SetToSeq(S) \in Seq(S)
         /\ \A x \in S : \E i \in 1 .. Len(SetToSeq(S)) : SetToSeq(S)[i] = x
<1> DEFINE n == Cardinality(S)
           P(f) == IsInjective(f)
<1>1. n \in Nat /\ ExistsBijection(1 .. n, S)
  BY FS_CardinalityType
<1>2. PICK b : b \in Bijection(1 .. n, S)
  BY <1>1, Zenon DEF ExistsBijection
<1>3. b \in [1 .. n -> S] /\ IsInjective(b)
  BY <1>2, Zenon DEF Bijection, Injection
<1>4. SetToSeq(S) = CHOOSE f \in [1 .. n -> S] : IsInjective(f)
  BY DEF SetToSeq
<1> DEFINE s == SetToSeq(S)
<1>5. s \in [1 .. n -> S] /\ IsInjective(s)
  BY <1>3, <1>4
<1> HIDE DEF s
<1>6. s \in Injection(1 .. n, S)
  BY <1>5, Zenon DEF Injection
<1>7. Cardinality(1 .. n) = n
  <2>1. Cardinality(1 .. n) = IF 1 > n THEN 0 ELSE n - 1 + 1
    BY <1>1, FS_Interval
  <2> QED
    BY <2>1, <1>1
<1>8. s \in Surjection(1 .. n, S)
  BY <1>6, <1>7, FS_Injection
<1>9. \A x \in S : \E i \in 1 .. n : s[i] = x
  BY <1>8, Zenon DEF Surjection
<1>10. s \in Seq(S) /\ Len(s) = n
  BY <1>1, <1>5
<1> QED
  BY <1>9, <1>10 DEF s

-------------------------------------------------------------------------------
(* The entries of a registration.                                          *)

LEMMA Joined ==
  ASSUME NEW T PROVE \A s, t \in Seq(T) : s \o t \in Seq(T)
OBVIOUS

LEMMA SingleTyped ==
  ASSUME NEW ip \in Addresses, NEW w \in Words
  PROVE  <<Entry(ip, <<w>>)>> \in Seq(Enterable)
<1>1. <<w>> \in Seq(Words) /\ <<w>> # <<>>
  OBVIOUS
<1>2. Entry(ip, <<w>>) \in Enterable
  BY <1>1 DEF Entry, Enterable
<1> QED
  BY <1>2

\* The separators with which the three chaincodes call Peer.
Seps == Seq({".", "-"}) \ {<<>>}

LEMMA PeerTyped ==
  ASSUME NEW r \in Requests, r.fcn = "registerOrg", NEW h \in HostsOf(r),
         NEW seps \in Seps
  PROVE  Peer(r, h, seps) \in Seq(Enterable)
<1> DEFINE dns == [i \in DOMAIN seps |-> <<h, seps[i], r.domain>>]
<1>1. r.ip \in Addresses
  BY RequestsAssumption
<1>2. /\ seps \in Seq({".", "-"}) /\ Len(seps) \in Nat \ {0}
      /\ DOMAIN seps = 1 .. Len(seps)
  BY DEF Seps
<1>3. \A i \in DOMAIN seps : <<h, seps[i], r.domain>> \in Words
  <2>1. \A i \in DOMAIN seps : seps[i] \in {".", "-"}
    BY <1>2
  <2> QED
    BY <2>1, WordIn, Zenon
<1>4. dns \in Seq(Words) /\ Len(dns) = Len(seps)
  <2> DEFINE f(i) == <<h, seps[i], r.domain>>
  <2>1. dns = [i \in 1 .. Len(seps) |-> f(i)] /\ \A i \in 1 .. Len(seps) : f(i) \in Words
    BY <1>2, <1>3
  <2> HIDE DEF f, dns
  <2> QED
    BY <1>2, <2>1
<1>5. dns # <<>>
  <2>1. Len(<<>>) = 0
    OBVIOUS
  <2> HIDE DEF dns
  <2> QED
    BY <1>2, <1>4, <2>1
<1> HIDE DEF dns
<1>6. Entry(r.ip, dns) \in Enterable
  BY <1>1, <1>4, <1>5 DEF Entry, Enterable
<1>7. <<>> \in Seq(Enterable) /\ <<Entry(r.ip, dns)>> \in Seq(Enterable)
  BY <1>6
<1> QED
  BY <1>7, Zenon DEF Peer, dns

LEMMA ListedTyped ==
  ASSUME NEW r \in Requests, r.fcn = "registerOrg", NEW sep \in {".", "-"}
  PROVE  Listed(r, sep) \in Seq(Enterable)
<1> DEFINE names == SetToSeq(DOMAIN r.peers)
           entry(i) == Entry(r.peers[names[i]], <<<<names[i], sep, r.domain>>>>)
<1>1. IsFiniteSet(DOMAIN r.peers) /\ \A p \in DOMAIN r.peers : r.peers[p] \in Addresses
  BY RequestsAssumption
<1>2. names \in Seq(DOMAIN r.peers)
  BY <1>1, SequenceOfSet
<1> HIDE DEF names
<1>3. ASSUME NEW i \in 1 .. Len(names) PROVE entry(i) \in Enterable
  <2>1. names[i] \in DOMAIN r.peers
    BY <1>2
  <2>2. <<names[i], sep, r.domain>> \in Words
    BY <2>1, WordIn DEF HostsOf
  <2>3. <<<<names[i], sep, r.domain>>>> \in Seq(Words) \ {<<>>}
    BY <2>2
  <2> QED
    BY <1>1, <2>1, <2>3 DEF Entry, Enterable
<1>4. DOMAIN names = 1 .. Len(names) /\ Len(names) \in Nat
  BY <1>2
<1>5. Listed(r, sep) = [i \in 1 .. Len(names) |-> entry(i)]
  BY <1>4, Zenon DEF Listed, names
<1> HIDE DEF entry
<1> QED
  BY <1>3, <1>4, <1>5

LEMMA WwwTyped ==
  ASSUME NEW r \in Requests, r.fcn = "registerOrg"
  PROVE  <<Www(r)>> \in Seq(Enterable)
<1> DEFINE w == IF PeerName(r) = "peer0" THEN <<"www", ".", r.domain>> ELSE EMPTY
<1>1. "www" \in HostsOf(r)
  BY DEF HostsOf
<1>2. w \in Words
  BY <1>1, WordIn, Zenon DEF Words
<1>3. r.ip \in Addresses
  BY RequestsAssumption
<1> HIDE DEF w
<1>4. <<Entry(r.ip, <<w>>)>> \in Seq(Enterable)
  BY <1>2, <1>3, SingleTyped
<1> QED
  BY <1>4, Zenon DEF Www, w

LEMMA OrdererTyped ==
  ASSUME NEW r \in Requests, r.fcn = "registerOrderer"
  PROVE  OrdererNode(r) \in Seq(Enterable) /\ OrdererJava(r) \in Seq(Enterable)
<1>1. r.ip \in Addresses \cup {NONE}
  BY RequestsAssumption
<1>2. CASE r.ip = NONE
  <2>1. <<>> \in Seq(Enterable)
    OBVIOUS
  <2> QED
    BY <1>2, <2>1, Zenon DEF OrdererNode, OrdererJava
<1>3. CASE r.ip # NONE
  <2> DEFINE v == <<r.name, ".", r.domain>>
             w == <<"www", ".", r.domain>>
             x == <<"www." \o r.name, ".", r.domain>>
  <2>1. v \in Words /\ w \in Words /\ x \in Words
    <3>1. r.name \in HostsOf(r) /\ "www" \in HostsOf(r) /\ "www." \o r.name \in HostsOf(r)
      BY Zenon DEF HostsOf
    <3> QED
      BY <3>1, WordIn, Zenon
  <2> HIDE DEF v, w, x
  <2>2. <<v, w, x>> \in Seq(Words) /\ Len(<<v, w, x>>) = 3 /\ Len(<<>>) = 0
    BY <2>1
  <2>3. <<v, w, x>> # <<>>
    BY <2>2
  <2>4. Entry(r.ip, <<v, w, x>>) \in Enterable
    BY <1>1, <1>3, <2>2, <2>3 DEF Entry, Enterable
  <2>5. <<Entry(r.ip, <<v, w, x>>)>> \in Seq(Enterable)
    BY <2>4
  <2>6. <<Entry(r.ip, <<v>>)>> \in Seq(Enterable)
    BY <1>1, <1>3, <2>1, SingleTyped
  <2> QED
    BY <1>3, <2>5, <2>6, Zenon DEF OrdererNode, OrdererJava, v, w, x
<1> QED
  BY <1>2, <1>3

\* Entries have an address and words on them.
LEMMA EntriesTyped ==
  ASSUME NEW r \in Requests, lang \in {"node2x", "node1x", "java"}
  PROVE  Entries(r) \in Seq(Enterable)
<1>1. CASE r.fcn = "registerOrderer"
  BY <1>1, OrdererTyped, Zenon DEF Entries
<1>2. CASE r.fcn # "registerOrderer"
  <2>1. r.fcn = "registerOrg"
    BY <1>2, RequestsAssumption
  <2>2. PeerName(r) \in HostsOf(r) /\ JavaPeer(r) \in HostsOf(r)
    BY DEF HostsOf
  <2>3. <<".", "-">> \in Seps /\ <<".">> \in Seps /\ <<"-">> \in Seps
    <3>1. /\ Len(<<".", "-">>) = 2 /\ Len(<<".">>) = 1 /\ Len(<<"-">>) = 1
          /\ Len(<<>>) = 0
      OBVIOUS
    <3>2. <<".", "-">> # <<>> /\ <<".">> # <<>> /\ <<"-">> # <<>>
      BY <3>1
    <3> QED
      BY <3>2 DEF Seps
  <2>4. /\ Peer(r, PeerName(r), <<".", "-">>) \in Seq(Enterable)
        /\ Peer(r, PeerName(r), <<".">>) \in Seq(Enterable)
        /\ Peer(r, JavaPeer(r), <<"-">>) \in Seq(Enterable)
    BY <2>1, <2>2, <2>3, PeerTyped, Zenon
  <2>5. Listed(r, "-") \in Seq(Enterable) /\ Listed(r, ".") \in Seq(Enterable)
    BY <2>1, ListedTyped
  <2>6. OrgNode2x(r) \in Seq(Enterable) /\ OrgNode1x(r) \in Seq(Enterable)
    BY <2>1, <2>4, <2>5, WwwTyped, Joined, Zenon DEF OrgNode2x, OrgNode1x
  <2> QED
    BY <1>2, <2>4, <2>6 DEF Entries, OrgJava
<1> QED
  BY <1>1, <1>2

-------------------------------------------------------------------------------
(* Lines are only extended.                                                *)

Grows(s, t) == Len(s) <= Len(t) /\ \A i \in 1 .. Len(s) : t[i] = s[i]

Extends(a, b) == \A ip \in Addresses : Grows(a[ip], b[ip])

LEMMA ExtendGrows ==
  ASSUME NEW line \in Seq(Words), NEW dns \in Seq(Words)
  PROVE  Extend(line, dns) \in Seq(Words) /\ Grows(line, Extend(line, dns))
<1>1. CASE line = <<>> /\ dns = <<EMPTY>>
  BY <1>1 DEF Extend, Grows
<1>2. CASE ~(line = <<>> /\ dns = <<EMPTY>>)
  <2>1. Extend(line, dns) = line \o dns
    BY <1>2, Zenon DEF Extend
  <2> QED
    BY <2>1 DEF Grows
<1> QED
  BY <1>1, <1>2

LEMMA EnterExtends ==
  ASSUME NEW current \in Lines, NEW e \in Enterable
  PROVE  Enter(current, e) \in Lines /\ Extends(current, Enter(current, e))
<1>1. e.ip \in Addresses /\ e.dns \in Seq(Words)
  BY DEF Enterable
<1>2. \A ip \in Addresses : current[ip] \in Seq(Words)
  BY DEF Lines
<1>3. \A s \in Seq(Words) : Grows(s, s)
  BY DEF Grows
<1>4. CASE Includes(current[e.ip], e.dns)
  BY <1>2, <1>3, <1>4, Zenon DEF Enter, Extends
<1>5. CASE ~Includes(current[e.ip], e.dns)
  <2> DEFINE x == Extend(current[e.ip], e.dns)
  <2>1. x \in Seq(Words) /\ Grows(current[e.ip], x)
    BY <1>1, <1>2, ExtendGrows
  <2>2. Enter(current, e) = [current EXCEPT ![e.ip] = x]
    BY <1>5, Zenon DEF Enter
  <2> HIDE DEF x
  <2>3. Enter(current, e) \in Lines
    BY <2>1, <2>2 DEF Lines
  <2>4. ASSUME NEW ip \in Addresses PROVE Grows(current[ip], Enter(current, e)[ip])
    <3>1. Enter(current, e)[ip] = IF ip = e.ip THEN x ELSE current[ip]
      BY <2>2 DEF Lines
    <3> QED
      BY <1>2, <1>3, <2>1, <3>1, Zenon
  <2> QED
    BY <2>3, <2>4, Zenon DEF Extends
<1> QED
  BY <1>4, <1>5

LEMMA ExtendsChains ==
  ASSUME NEW a \in Lines, NEW b \in Lines, NEW c \in Lines, Extends(a, b), Extends(b, c)
  PROVE  Extends(a, c)
<1> SUFFICES ASSUME NEW ip \in Addresses PROVE Grows(a[ip], c[ip])
  BY DEF Extends
<1>1. Grows(a[ip], b[ip]) /\ Grows(b[ip], c[ip])
  BY DEF Extends
<1>2. a[ip] \in Seq(Words) /\ b[ip] \in Seq(Words) /\ c[ip] \in Seq(Words)
  BY DEF Lines
<1> QED
  BY <1>1, <1>2 DEF Grows

LEMMA ExtendsSelf ==
  ASSUME NEW a \in Lines PROVE Extends(a, a)
<1>1. \A ip \in Addresses : a[ip] \in Seq(Words)
  BY DEF Lines
<1> QED
  BY <1>1 DEF Extends, Grows

-------------------------------------------------------------------------------
(* All entries, one after the other.                                       *)

\* a[n] is what n entries make of the lines, up to m.
IsAfter(a, current, entries, m) ==
  /\ a[0] = current
  /\ \A n \in Nat : n < m => a[n + 1] = Enter(a[n], entries[n + 1])

LEMMA AfterExists ==
  ASSUME NEW current \in Lines, NEW entries \in Seq(Enterable)
  PROVE  \E a \in [0 .. Len(entries) -> Lines] : IsAfter(a, current, entries, Len(entries))
<1> DEFINE P(m) == \E a \in [0 .. m -> Lines] : IsAfter(a, current, entries, m)
           S == {m \in Nat : m <= Len(entries) => P(m)}
<1>1. 0 \in S
  <2>1. [n \in 0 .. 0 |-> current] \in [0 .. 0 -> Lines]
    OBVIOUS
  <2>2. IsAfter([n \in 0 .. 0 |-> current], current, entries, 0)
    BY DEF IsAfter
  <2> QED
    BY <2>1, <2>2
<1>2. ASSUME NEW m \in Nat, m \in S PROVE m + 1 \in S
  <2> SUFFICES ASSUME m + 1 <= Len(entries) PROVE P(m + 1)
    OBVIOUS
  <2>1. PICK a \in [0 .. m -> Lines] : IsAfter(a, current, entries, m)
    BY <1>2
  <2> DEFINE next == Enter(a[m], entries[m + 1])
             b == [n \in 0 .. m + 1 |-> IF n = m + 1 THEN next ELSE a[n]]
  <2>2. next \in Lines
    <3>1. a[m] \in Lines /\ entries[m + 1] \in Enterable
      OBVIOUS
    <3> QED
      BY <3>1, EnterExtends
  <2>3. b \in [0 .. m + 1 -> Lines]
    <3> HIDE DEF next
    <3> QED
      BY <2>2
  <2>4. b[m + 1] = next /\ \A n \in 0 .. m : b[n] = a[n]
    <3> HIDE DEF next
    <3> QED
      OBVIOUS
  <2>5. IsAfter(b, current, entries, m + 1)
    <3> HIDE DEF b
    <3>1. b[0] = current
      BY <2>1, <2>4 DEF IsAfter
    <3>2. ASSUME NEW n \in Nat, n < m + 1
          PROVE  b[n + 1] = Enter(b[n], entries[n + 1])
      <4>1. CASE n = m
        BY <4>1, <2>4
      <4>2. CASE n < m
        <5>1. n \in 0 .. m /\ n + 1 \in 0 .. m
          BY <4>2
        <5> QED
          BY <4>2, <5>1, <2>1, <2>4 DEF IsAfter
      <4> QED
        BY <4>1, <4>2, <3>2
    <3> QED
      BY <3>1, <3>2 DEF IsAfter
  <2> QED
    BY <2>3, <2>5
<1>3. Nat \subseteq S
  <2> HIDE DEF S
  <2> QED
    BY <1>1, <1>2, Induct
<1> QED
  BY <1>3

LEMMA EnterAllIsAfter ==
  ASSUME NEW current \in Lines, NEW entries \in Seq(Enterable)
  PROVE  /\ EnterAll(current, entries) \in [0 .. Len(entries) -> Lines]
         /\ IsAfter(EnterAll(current, entries), current, entries, Len(entries))
<1> DEFINE F(a) == [n \in 0 .. Len(entries) |->
                      IF n = 0 THEN current ELSE Enter(a[n - 1], entries[n])]
<1>1. PICK a \in [0 .. Len(entries) -> Lines] : IsAfter(a, current, entries, Len(entries))
  BY AfterExists
<1>2. a = F(a)
  <2> SUFFICES ASSUME NEW n \in 0 .. Len(entries) PROVE a[n] = F(a)[n]
    BY <1>1
  <2>1. CASE n = 0
    BY <2>1, <1>1 DEF IsAfter
  <2>2. CASE n # 0
    <3>1. n - 1 \in Nat /\ n - 1 < Len(entries) /\ (n - 1) + 1 = n
      BY <2>2
    <3>2. a[n] = Enter(a[n - 1], entries[n])
      BY <1>1, <3>1 DEF IsAfter
    <3> QED
      BY <3>2, <2>2
  <2> QED
    BY <2>1, <2>2
<1>3. EnterAll(current, entries) = CHOOSE j : j = F(j)
  BY DEF EnterAll
<1> DEFINE j == EnterAll(current, entries)
<1>4. j = F(j)
  BY <1>2, <1>3
<1> HIDE DEF j
<1>5. j[0] = current
  BY <1>4
<1>6. ASSUME NEW n \in Nat, n < Len(entries)
      PROVE  j[n + 1] = Enter(j[n], entries[n + 1])
  <2>1. n + 1 \in 0 .. Len(entries) /\ n + 1 # 0 /\ (n + 1) - 1 = n
    BY <1>6
  <2>2. j[n + 1] = F(j)[n + 1]
    BY <1>4
  <2> QED
    BY <2>1, <2>2
<1>7. IsAfter(j, current, entries, Len(entries))
  BY <1>5, <1>6 DEF IsAfter
<1>8. \A n \in 0 .. Len(entries) : j[n] \in Lines
  <2> DEFINE S == {n \in Nat : n <= Len(entries) => j[n] \in Lines}
  <2>1. 0 \in S
    BY <1>5
  <2>2. ASSUME NEW n \in Nat, n \in S PROVE n + 1 \in S
    <3> SUFFICES ASSUME n + 1 <= Len(entries) PROVE j[n + 1] \in Lines
      OBVIOUS
    <3>1. j[n] \in Lines /\ entries[n + 1] \in Enterable
      BY <2>2
    <3>2. j[n + 1] = Enter(j[n], entries[n + 1])
      BY <1>6
    <3> QED
      BY <3>1, <3>2, EnterExtends
  <2>3. Nat \subseteq S
    <3> HIDE DEF S
    <3> QED
      BY <2>1, <2>2, Induct
  <2> QED
    BY <2>3
<1>9. j \in [0 .. Len(entries) -> Lines]
  <2>1. j = [n \in 0 .. Len(entries) |-> F(j)[n]]
    BY <1>4
  <2> HIDE DEF F
  <2>2. DOMAIN j = 0 .. Len(entries) /\ j = [n \in DOMAIN j |-> j[n]]
    BY <2>1
  <2> QED
    BY <2>2, <1>8
<1> QED
  BY <1>7, <1>9 DEF j

\* What holds of the lines before the first entry, and after an entry if it held before
\* that one, holds when all entries are made: S[m] are the lines of which it holds after
\* m entries.
LEMMA UpdateInduct ==
  ASSUME NEW current \in Lines, NEW r, Entries(r) \in Seq(Enterable),
         NEW S \in [Nat -> SUBSET Lines], current \in S[0],
         \A m \in Nat : \A b \in S[m] :
           m + 1 <= Len(Entries(r)) => Enter(b, Entries(r)[m + 1]) \in S[m + 1]
  PROVE  Update(current, r) \in S[Len(Entries(r))]
<1> DEFINE E == Entries(r)
           a == EnterAll(current, E)
           T == {m \in Nat : m <= Len(E) => a[m] \in S[m]}
<1>1. IsAfter(a, current, E, Len(E))
  BY EnterAllIsAfter
<1>2. Update(current, r) = a[Len(E)]
  BY DEF Update
<1>3. Len(E) \in Nat
  OBVIOUS
<1>4. \A m \in Nat : \A b \in S[m] : m + 1 <= Len(E) => Enter(b, E[m + 1]) \in S[m + 1]
  OBVIOUS
<1> HIDE DEF a, E
<1>5. 0 \in T
  BY <1>1 DEF IsAfter
<1>6. ASSUME NEW m \in Nat, m \in T PROVE m + 1 \in T
  <2> SUFFICES ASSUME m + 1 <= Len(E) PROVE a[m + 1] \in S[m + 1]
    OBVIOUS
  <2>1. a[m] \in S[m] /\ a[m + 1] = Enter(a[m], E[m + 1])
    BY <1>1, <1>3, <1>6 DEF IsAfter
  <2> QED
    BY <1>4, <2>1
<1>7. Nat \subseteq T
  <2> HIDE DEF T
  <2> QED
    BY <1>5, <1>6, Induct
<1> QED
  BY <1>2, <1>3, <1>7 DEF E

-------------------------------------------------------------------------------
(* What is entered is found, and nothing else is there.                    *)

KnownOn(line, w) == \E v \in ToSet(line) \ {EMPTY} : Begins(w, v)

LEMMA StaysKnown ==
  ASSUME NEW s \in Seq(Words), NEW t \in Seq(Words), Grows(s, t), NEW w, KnownOn(s, w)
  PROVE  KnownOn(t, w)
<1>1. PICK v \in ToSet(s) \ {EMPTY} : Begins(w, v)
  BY DEF KnownOn
<1>2. PICK i \in 1 .. Len(s) : v = s[i]
  BY DEF ToSet
<1>3. i \in 1 .. Len(t) /\ v = t[i]
  BY <1>2 DEF Grows
<1>4. v \in ToSet(t)
  BY <1>3 DEF ToSet
<1> QED
  BY <1>1, <1>4 DEF KnownOn

LEMMA StaysIncluded ==
  ASSUME NEW s \in Seq(Words), NEW t \in Seq(Words), Grows(s, t),
         NEW dns \in Seq(Words) \ {<<>>}, Includes(s, dns)
  PROVE  Includes(t, dns)
<1> DEFINE from == IF lang = "java" THEN 1 ELSE 2
<1>1. PICK i \in from .. Len(s) - Len(dns) + 1 :
        /\ \A j \in 1 .. Len(dns) - 1 : s[i + j - 1] = dns[j]
        /\ Begins(dns[Len(dns)], s[i + Len(dns) - 1])
  BY DEF Includes
<1>2. from \in Nat \ {0}
  OBVIOUS
<1>3. Len(dns) \in Nat \ {0} /\ Len(s) \in Nat /\ Len(t) \in Nat /\ Len(s) <= Len(t)
  BY DEF Grows
<1> HIDE DEF from
<1>4. i \in from .. Len(t) - Len(dns) + 1
  BY <1>2, <1>3
<1>5. ASSUME NEW j \in 1 .. Len(dns) PROVE t[i + j - 1] = s[i + j - 1]
  <2>1. i + j - 1 \in 1 .. Len(s)
    BY <1>2, <1>3
  <2> QED
    BY <2>1 DEF Grows
<1>6. \A j \in 1 .. Len(dns) - 1 : t[i + j - 1] = dns[j]
  <2>1. \A j \in 1 .. Len(dns) - 1 : j \in 1 .. Len(dns)
    BY <1>3
  <2> QED
    BY <1>1, <1>5, <2>1, Zenon
<1>7. Begins(dns[Len(dns)], t[i + Len(dns) - 1])
  <2>1. Len(dns) \in 1 .. Len(dns)
    BY <1>3
  <2> QED
    BY <1>1, <1>5, <2>1, Zenon
<1> QED
  BY <1>4, <1>6, <1>7, Zenon DEF Includes, from

LEMMA BeginsName ==
  ASSUME NEW w \in Words, w # EMPTY, NEW v, Begins(w, v)
  PROVE  v # EMPTY
<1>1. w[3] \in Domains /\ w[3] # "" /\ <<w[3], "">> \notin DomainPrefixes
  BY WordDomain, PrefixAssumption
<1>2. w[3] = v[3] \/ <<w[3], v[3]>> \in DomainPrefixes
  BY DEF Begins
<1>3. EMPTY[3] = ""
  BY DEF EMPTY
<1> QED
  BY <1>1, <1>2, <1>3, Zenon

LEMMA IncludedIsKnown ==
  ASSUME NEW line \in Seq(Words), NEW dns \in Seq(Words) \ {<<>>}, Includes(line, dns),
         NEW w \in ToSet(dns), w # EMPTY
  PROVE  KnownOn(line, w)
<1> DEFINE from == IF lang = "java" THEN 1 ELSE 2
<1>1. PICK i \in from .. Len(line) - Len(dns) + 1 :
        /\ \A j \in 1 .. Len(dns) - 1 : line[i + j - 1] = dns[j]
        /\ Begins(dns[Len(dns)], line[i + Len(dns) - 1])
  BY DEF Includes
<1>2. from \in Nat \ {0}
  OBVIOUS
<1>3. Len(dns) \in Nat \ {0} /\ Len(line) \in Nat
  OBVIOUS
<1> HIDE DEF from
<1>4. PICK k \in 1 .. Len(dns) : w = dns[k]
  BY DEF ToSet
<1>5. i + k - 1 \in 1 .. Len(line)
  BY <1>2, <1>3
<1>6. Begins(w, line[i + k - 1])
  <2>1. CASE k = Len(dns)
    BY <1>1, <1>4, <2>1
  <2>2. CASE k # Len(dns)
    <3>1. k \in 1 .. Len(dns) - 1
      BY <1>3, <2>2
    <3>2. line[i + k - 1] = w
      BY <1>1, <1>4, <3>1, Zenon
    <3> QED
      BY <3>2 DEF Begins
  <2> QED
    BY <2>1, <2>2
<1>7. w \in Words
  BY <1>4
<1>8. line[i + k - 1] # EMPTY
  BY <1>6, <1>7, BeginsName
<1>9. line[i + k - 1] \in ToSet(line)
  BY <1>5 DEF ToSet
<1> QED
  BY <1>6, <1>8, <1>9, Zenon DEF KnownOn

LEMMA ExtendedIsKnown ==
  ASSUME NEW line \in Seq(Words), NEW dns \in Seq(Words) \ {<<>>},
         NEW w \in ToSet(dns), w # EMPTY
  PROVE  KnownOn(Extend(line, dns), w)
<1>1. PICK k \in 1 .. Len(dns) : w = dns[k]
  BY DEF ToSet
<1>2. dns # <<EMPTY>>
  <2> SUFFICES ASSUME dns = <<EMPTY>> PROVE FALSE
    OBVIOUS
  <2>1. Len(<<EMPTY>>) = 1 /\ <<EMPTY>>[1] = EMPTY
    OBVIOUS
  <2> QED
    BY <1>1, <2>1
<1>3. Extend(line, dns) = line \o dns
  BY <1>2, Zenon DEF Extend
<1>4. Len(line) + k \in DOMAIN (line \o dns) /\ (line \o dns)[Len(line) + k] = w
  BY <1>1
<1>5. w \in ToSet(line \o dns)
  BY <1>4, Zenon DEF ToSet
<1>6. Begins(w, w)
  BY DEF Begins
<1> QED
  BY <1>3, <1>5, <1>6, Zenon DEF KnownOn

LEMMA ExtendedByNames ==
  ASSUME NEW line \in Seq(Words), NEW dns \in Seq(Words)
  PROVE  ToSet(Extend(line, dns)) \subseteq ToSet(line) \cup ToSet(dns)
<1>1. CASE Extend(line, dns) = line
  BY <1>1, Zenon
<1>2. CASE Extend(line, dns) = line \o dns
  <2> SUFFICES ASSUME NEW w \in ToSet(line \o dns) PROVE w \in ToSet(line) \cup ToSet(dns)
    BY <1>2, Zenon
  <2>1. PICK i \in DOMAIN (line \o dns) : w = (line \o dns)[i]
    BY Zenon DEF ToSet
  <2>2. \/ i \in DOMAIN line /\ w = line[i]
        \/ i - Len(line) \in DOMAIN dns /\ w = dns[i - Len(line)]
    BY <2>1
  <2> QED
    BY <2>2, Zenon DEF ToSet
<1> QED
  BY <1>1, <1>2, Zenon DEF Extend

LEMMA EnterKnown ==
  ASSUME NEW current \in Lines, NEW e \in Enterable
  PROVE  /\ \A w \in ToSet(e.dns) \ {EMPTY} : KnownOn(Enter(current, e)[e.ip], w)
         /\ \A ip \in Addresses :
              ToSet(Enter(current, e)[ip]) \subseteq
                ToSet(current[ip]) \cup (IF ip = e.ip THEN ToSet(e.dns) ELSE {})
<1>1. e.ip \in Addresses /\ e.dns \in Seq(Words) \ {<<>>} /\ current[e.ip] \in Seq(Words)
  BY DEF Enterable, Lines
<1>2. CASE Includes(current[e.ip], e.dns)
  <2>1. Enter(current, e) = current
    BY <1>2, Zenon DEF Enter
  <2>2. \A w \in ToSet(e.dns) \ {EMPTY} : KnownOn(current[e.ip], w)
    BY <1>1, <1>2, IncludedIsKnown
  <2> QED
    BY <2>1, <2>2, Zenon
<1>3. CASE ~Includes(current[e.ip], e.dns)
  <2> DEFINE x == Extend(current[e.ip], e.dns)
  <2>1. Enter(current, e) = [current EXCEPT ![e.ip] = x]
    BY <1>3, Zenon DEF Enter
  <2>2. \A w \in ToSet(e.dns) \ {EMPTY} : KnownOn(x, w)
    BY <1>1, ExtendedIsKnown
  <2>3. ToSet(x) \subseteq ToSet(current[e.ip]) \cup ToSet(e.dns)
    BY <1>1, ExtendedByNames
  <2> HIDE DEF x
  <2>4. \A ip \in Addresses : Enter(current, e)[ip] = IF ip = e.ip THEN x ELSE current[ip]
    BY <2>1 DEF Lines
  <2> QED
    BY <1>1, <2>2, <2>3, <2>4, Zenon
<1> QED
  BY <1>2, <1>3

\* What the first m entries have made of the lines.
Entered(a, b, entries, m) ==
  /\ Extends(a, b)
  /\ \A k \in 1 .. m :
       \A w \in ToSet(entries[k].dns) \ {EMPTY} : KnownOn(b[entries[k].ip], w)
  /\ \A ip \in Addresses : \A w \in ToSet(b[ip]) \ {EMPTY} :
       \/ w \in ToSet(a[ip])
       \/ \E k \in 1 .. m : entries[k].ip = ip /\ w \in ToSet(entries[k].dns)

LEMMA EnteredStep ==
  ASSUME NEW a \in Lines, NEW b \in Lines, NEW entries \in Seq(Enterable),
         NEW m \in Nat, m + 1 <= Len(entries), Entered(a, b, entries, m)
  PROVE  Entered(a, Enter(b, entries[m + 1]), entries, m + 1)
<1> DEFINE e == entries[m + 1]
           c == Enter(b, e)
<1>1. e \in Enterable /\ \A k \in 1 .. m : entries[k] \in Enterable
  OBVIOUS
<1>2. c \in Lines /\ Extends(b, c)
  BY <1>1, EnterExtends
<1>3. Extends(a, c)
  BY <1>2, ExtendsChains DEF Entered
<1>4. \A k \in 1 .. m + 1 : k = m + 1 \/ k \in 1 .. m
  OBVIOUS
<1>5. 1 .. m \subseteq 1 .. m + 1 /\ m + 1 \in 1 .. m + 1
  OBVIOUS
<1>6. /\ \A w \in ToSet(e.dns) \ {EMPTY} : KnownOn(c[e.ip], w)
      /\ \A ip \in Addresses :
           ToSet(c[ip]) \subseteq ToSet(b[ip]) \cup (IF ip = e.ip THEN ToSet(e.dns) ELSE {})
  BY <1>1, EnterKnown
<1> HIDE DEF c
<1>7. ASSUME NEW k \in 1 .. m + 1, NEW w \in ToSet(entries[k].dns) \ {EMPTY}
      PROVE  KnownOn(c[entries[k].ip], w)
  <2>1. CASE k = m + 1
    BY <2>1, <1>6, <1>7, Zenon
  <2>2. CASE k \in 1 .. m
    <3>1. KnownOn(b[entries[k].ip], w)
      BY <1>7, <2>2 DEF Entered
    <3>2. entries[k].ip \in Addresses
      BY <1>1, <2>2 DEF Enterable
    <3>3. /\ b[entries[k].ip] \in Seq(Words) /\ c[entries[k].ip] \in Seq(Words)
          /\ Grows(b[entries[k].ip], c[entries[k].ip])
      BY <1>2, <3>2 DEF Lines, Extends
    <3> QED
      BY <3>1, <3>3, StaysKnown
  <2> QED
    BY <1>4, <2>1, <2>2
<1>8. ASSUME NEW ip \in Addresses, NEW w \in ToSet(c[ip]) \ {EMPTY}
      PROVE  \/ w \in ToSet(a[ip])
             \/ \E k \in 1 .. m + 1 : entries[k].ip = ip /\ w \in ToSet(entries[k].dns)
  <2>1. w \in ToSet(b[ip]) \/ (ip = e.ip /\ w \in ToSet(e.dns))
    BY <1>6, <1>8, Zenon
  <2>2. CASE ip = e.ip /\ w \in ToSet(e.dns)
    BY <2>2, <1>5, Zenon
  <2>3. CASE w \in ToSet(b[ip])
    <3>1. \/ w \in ToSet(a[ip])
          \/ \E k \in 1 .. m : entries[k].ip = ip /\ w \in ToSet(entries[k].dns)
      BY <1>8, <2>3, Zenon DEF Entered
    <3> QED
      BY <3>1, <1>5, Zenon
  <2> QED
    BY <2>1, <2>2, <2>3
<1> QED
  BY <1>3, <1>7, <1>8, Zenon DEF Entered, c

LEMMA UpdateEntered ==
  ASSUME NEW current \in Lines, NEW r \in Requests, Entries(r) \in Seq(Enterable)
  PROVE  /\ Update(current, r) \in Lines
         /\ Entered(current, Update(current, r), Entries(r), Len(Entries(r)))
<1> DEFINE E == Entries(r)
           S == [m \in Nat |-> {b \in Lines : m <= Len(E) => Entered(current, b, E, m)}]
<1>1. S \in [Nat -> SUBSET Lines]
  OBVIOUS
<1>2. current \in S[0]
  <2>1. Extends(current, current)
    BY ExtendsSelf
  <2>2. \A k \in 1 .. 0 : FALSE
    OBVIOUS
  <2>3. Entered(current, current, E, 0)
    BY <2>1, <2>2, Zenon DEF Entered
  <2> QED
    BY <2>3
<1>3. ASSUME NEW m \in Nat, NEW b \in S[m], m + 1 <= Len(E)
      PROVE  Enter(b, E[m + 1]) \in S[m + 1]
  <2>1. b \in Lines /\ Entered(current, b, E, m)
    BY <1>3
  <2>2. Entered(current, Enter(b, E[m + 1]), E, m + 1)
    BY <1>3, <2>1, EnteredStep
  <2>3. Enter(b, E[m + 1]) \in Lines
    <3>1. E[m + 1] \in Enterable
      BY <1>3
    <3> QED
      BY <2>1, <3>1, EnterExtends
  <2> QED
    BY <2>2, <2>3
<1>4. Update(current, r) \in S[Len(E)]
  <2> HIDE DEF S
  <2> QED
    BY <1>1, <1>2, <1>3, UpdateInduct
<1>5. Len(E) \in Nat
  OBVIOUS
<1> QED
  BY <1>4, <1>5

LEMMA NamesOfEntries ==
  ASSUME NEW r \in Requests, Entries(r) \in Seq(Enterable), NEW ip, NEW w
  PROVE  w \in NamesFor(r, ip) <=>
           w # EMPTY /\ \E k \in 1 .. Len(Entries(r)) :
                           Entries(r)[k].ip = ip /\ w \in ToSet(Entries(r)[k].dns)
<1>1. DOMAIN Entries(r) = 1 .. Len(Entries(r))
  OBVIOUS
<1> QED
  BY <1>1, Zenon DEF NamesFor

-------------------------------------------------------------------------------
(* Types.                                                                  *)

TypeInv ==
  /\ lang \in {"node2x", "node1x", "java"}
  /\ lines \in Lines
  /\ asked \in [Addresses -> SUBSET Words]
  /\ DOMAIN orgs = Domains /\ orgs = [d \in DOMAIN orgs |-> orgs[d]]
  /\ \A d \in Domains : \A p \in DOMAIN orgs[d] : orgs[d][p].ip \in Addresses
  /\ once \subseteq Requests

LEMMA TypeInit == Init => TypeInv
<1> SUFFICES ASSUME Init PROVE TypeInv
  OBVIOUS
<1>1. lines \in Lines
  BY DEF Init, Lines
<1>2. asked \in [Addresses -> SUBSET Words]
  BY DEF Init
<1>3. DOMAIN orgs = Domains /\ orgs = [d \in DOMAIN orgs |-> orgs[d]]
  BY DEF Init
<1>4. \A d \in Domains : \A p \in DOMAIN orgs[d] : FALSE
  BY DEF Init, NoPeers
<1>5. once \subseteq Requests
  BY Zenon DEF Init
<1> QED
  BY <1>1, <1>2, <1>3, <1>4, <1>5, Zenon DEF TypeInv, Init

\* The object a registration leaves under its domain.
LEMMA Stored ==
  ASSUME TypeInv, NEW r \in Requests, Register(r)
  PROVE  /\ DOMAIN orgs' = Domains /\ orgs' = [d \in DOMAIN orgs' |-> orgs'[d]]
         /\ \A d \in Domains :
              \/ orgs'[d] = orgs[d]
              \/ /\ d = r.domain /\ r.fcn = "registerOrg"
                 /\ orgs'[d] = IF lang = "java" THEN PeersJava(r) ELSE PeersNode(r, orgs[d])
<1>1. CASE r.fcn = "registerOrderer"
  <2>1. orgs' = orgs
    BY <1>1, Zenon DEF Register
  <2> QED
    BY <2>1, Zenon DEF TypeInv
<1>2. CASE r.fcn # "registerOrderer"
  <2> DEFINE new == IF lang = "java" THEN PeersJava(r) ELSE PeersNode(r, orgs[r.domain])
  <2>1. orgs' = [orgs EXCEPT ![r.domain] = new]
    BY <1>2, Zenon DEF Register
  <2>2. r.fcn = "registerOrg" /\ r.domain \in Domains
    BY <1>2, RequestsAssumption
  <2> HIDE DEF new
  <2>3. DOMAIN orgs' = Domains /\ orgs' = [d \in DOMAIN orgs' |-> orgs'[d]]
    BY <2>1 DEF TypeInv
  <2>4. \A d \in Domains : orgs'[d] = IF d = r.domain THEN new ELSE orgs[d]
    BY <2>1 DEF TypeInv
  <2> QED
    BY <2>2, <2>3, <2>4, Zenon DEF new
<1> QED
  BY <1>1, <1>2

\* The peers of a registration,
LEMMA PeersOf ==
  ASSUME NEW r \in Requests
  PROVE  /\ DOMAIN NewPeers(r) =
              DOMAIN r.peers \cup (IF r.port = NONE THEN {} ELSE {PeerName(r)})
         /\ \A p \in DOMAIN NewPeers(r) :
              \/ r.port # NONE /\ p = PeerName(r) /\ NewPeers(r)[p] = Listing(r.ip, r.port)
              \/ p \in DOMAIN r.peers /\ NewPeers(r)[p] = Listing(r.peers[p], NONE)
<1> DEFINE listed == [p \in DOMAIN r.peers |-> Listing(r.peers[p], NONE)]
<1>1. /\ DOMAIN listed = DOMAIN r.peers
      /\ \A p \in DOMAIN r.peers : listed[p] = Listing(r.peers[p], NONE)
  BY Zenon
<1>2. NewPeers(r) =
        IF r.port = NONE THEN listed
        ELSE [p \in DOMAIN listed \cup {PeerName(r)} |->
                IF p = PeerName(r) THEN Listing(r.ip, r.port) ELSE listed[p]]
  BY Zenon DEF NewPeers
<1> HIDE DEF listed
<1>3. CASE r.port = NONE
  BY <1>1, <1>2, <1>3
<1>4. CASE r.port # NONE
  BY <1>1, <1>2, <1>4
<1> QED
  BY <1>3, <1>4

\* and of the object after it: the named one, a listed one, or one that was stored
\* before.
LEMMA PeersAfter ==
  ASSUME NEW r \in Requests, NEW stored
  PROVE  /\ DOMAIN PeersNode(r, stored) = DOMAIN stored \cup DOMAIN NewPeers(r)
         /\ \A p \in DOMAIN PeersNode(r, stored) :
              \/ r.port # NONE /\ p = PeerName(r) /\ PeersNode(r, stored)[p].ip = r.ip
              \/ p \in DOMAIN r.peers /\ PeersNode(r, stored)[p].ip = r.peers[p]
              \/ p \in DOMAIN stored /\ PeersNode(r, stored)[p] = stored[p]
<1> DEFINE new     == NewPeers(r)
           port(p) == IF new[p].port = NONE /\ p \in DOMAIN stored THEN stored[p].port
                      ELSE new[p].port
           all     == [p \in DOMAIN stored \cup DOMAIN new |->
                         IF p \in DOMAIN new THEN Listing(new[p].ip, port(p))
                         ELSE stored[p]]
<1>1. PeersNode(r, stored) = all
  BY Zenon DEF PeersNode
<1> HIDE DEF new, port
<1>2. DOMAIN all = DOMAIN stored \cup DOMAIN new
  BY Zenon
<1>3. ASSUME NEW p \in DOMAIN all
      PROVE  \/ p \in DOMAIN new /\ all[p].ip = new[p].ip
             \/ p \in DOMAIN stored /\ all[p] = stored[p]
  <2>1. \A x, y : Listing(x, y).ip = x
    BY DEF Listing
  <2> QED
    BY <1>2, <1>3, <2>1, Zenon
<1> HIDE DEF all
<1>4. ASSUME NEW p \in DOMAIN new
      PROVE  \/ r.port # NONE /\ p = PeerName(r) /\ new[p].ip = r.ip
             \/ p \in DOMAIN r.peers /\ new[p].ip = r.peers[p]
  <2>1. \A x, y : Listing(x, y).ip = x
    BY DEF Listing
  <2>2. \/ r.port # NONE /\ p = PeerName(r) /\ new[p] = Listing(r.ip, r.port)
        \/ p \in DOMAIN r.peers /\ new[p] = Listing(r.peers[p], NONE)
    BY <1>4, PeersOf, Zenon DEF new
  <2> QED
    BY <2>1, <2>2, Zenon
<1>5. \A p \in DOMAIN all :
        \/ r.port # NONE /\ p = PeerName(r) /\ all[p].ip = r.ip
        \/ p \in DOMAIN r.peers /\ all[p].ip = r.peers[p]
        \/ p \in DOMAIN stored /\ all[p] = stored[p]
  BY <1>3, <1>4, Zenon
<1> QED
  BY <1>1, <1>2, <1>5, Zenon DEF new

LEMMA TypeNext == TypeInv /\ [Next]_vars => TypeInv'
<1> SUFFICES ASSUME TypeInv, [Next]_vars PROVE TypeInv'
  OBVIOUS
<1>1. CASE UNCHANGED vars
  BY <1>1, Zenon DEF TypeInv, vars
<1>2. ASSUME NEW r \in Requests, Register(r) PROVE TypeInv'
  <2>1. lang' \in {"node2x", "node1x", "java"}
    BY <1>2, Zenon DEF TypeInv, Register
  <2>2. Entries(r) \in Seq(Enterable)
    BY EntriesTyped DEF TypeInv
  <2>3. lines' \in Lines
    BY <1>2, <2>2, UpdateEntered DEF TypeInv, Register
  <2>4. \A ip \in Addresses : NamesFor(r, ip) \subseteq Words
    <3> SUFFICES ASSUME NEW ip \in Addresses, NEW w \in NamesFor(r, ip) PROVE w \in Words
      BY Zenon
    <3>1. PICK k \in 1 .. Len(Entries(r)) : w \in ToSet(Entries(r)[k].dns)
      BY <2>2, NamesOfEntries, Zenon
    <3>2. Entries(r)[k] \in Enterable
      BY <2>2
    <3>3. Entries(r)[k].dns \in Seq(Words)
      BY <3>2 DEF Enterable
    <3> QED
      BY <3>1, <3>3 DEF ToSet
  <2>5. asked' \in [Addresses -> SUBSET Words]
    <3>1. asked' = [ip \in Addresses |-> asked[ip] \cup NamesFor(r, ip)]
      BY <1>2, Zenon DEF Register
    <3> QED
      BY <2>4, <3>1 DEF TypeInv
  <2>6. ASSUME NEW d \in Domains, NEW p \in DOMAIN orgs'[d]
        PROVE  orgs'[d][p].ip \in Addresses
    <3>1. CASE orgs'[d] = orgs[d]
      BY <2>6, <3>1, Zenon DEF TypeInv
    <3>2. CASE orgs'[d] # orgs[d]
      <4>1. /\ r.fcn = "registerOrg"
            /\ orgs'[d] = IF lang = "java" THEN PeersJava(r) ELSE PeersNode(r, orgs[d])
        BY <1>2, <3>2, Stored, Zenon
      <4>2. r.ip \in Addresses /\ \A q \in DOMAIN r.peers : r.peers[q] \in Addresses
        BY <4>1, RequestsAssumption
      <4>3. CASE lang = "java"
        <5>1. orgs'[d][p] = Listing(r.ip, r.port)
          BY <2>6, <4>1, <4>3, Zenon DEF PeersJava
        <5> QED
          BY <4>2, <5>1 DEF Listing
      <4>4. CASE lang # "java"
        <5>1. p \in DOMAIN PeersNode(r, orgs[d]) /\ orgs'[d][p] = PeersNode(r, orgs[d])[p]
          BY <2>6, <4>1, <4>4
        <5> DEFINE x == PeersNode(r, orgs[d])[p]
        <5>2. \/ x.ip = r.ip
              \/ p \in DOMAIN r.peers /\ x.ip = r.peers[p]
              \/ p \in DOMAIN orgs[d] /\ x = orgs[d][p]
          BY <5>1, PeersAfter
        <5>3. \A q \in DOMAIN orgs[d] : orgs[d][q].ip \in Addresses
          BY Zenon DEF TypeInv
        <5> QED
          BY <4>2, <5>1, <5>2, <5>3, Zenon
      <4> QED
        BY <4>3, <4>4
    <3> QED
      BY <3>1, <3>2
  <2>7. DOMAIN orgs' = Domains /\ orgs' = [d \in DOMAIN orgs' |-> orgs'[d]]
    BY <1>2, Stored, Zenon
  <2>8. once' \subseteq Requests
    BY <1>2, Zenon DEF TypeInv, Register
  <2> QED
    BY <2>1, <2>3, <2>5, <2>6, <2>7, <2>8, Zenon DEF TypeInv
<1> QED
  BY <1>1, <1>2 DEF Next

\* The lines and the names asked for are names of the domains, and whoever is
\* listed in an object is listed with an address.
THEOREM NamesTyped == Spec => []TypeOK
<1>1. TypeInv => TypeOK
  <2> SUFFICES ASSUME TypeInv PROVE TypeOK
    OBVIOUS
  <2>1. ASSUME NEW ip \in Addresses, NEW w \in ToSet(lines[ip]) \cup asked[ip]
        PROVE  w = EMPTY \/ w[3] \in Domains
    <3>1. lines[ip] \in Seq(Words) /\ asked[ip] \subseteq Words
      BY DEF TypeInv, Lines
    <3>2. w \in Words
      BY <2>1, <3>1 DEF ToSet
    <3> QED
      BY <3>2, WordDomain
  <2> QED
    BY <2>1, Zenon DEF TypeInv, TypeOK
<1> QED
  BY TypeInit, TypeNext, <1>1, PTL DEF Spec

-------------------------------------------------------------------------------
(* Names that were asked for.                                              *)

LEMMA KnownIs == ASSUME NEW ip, NEW w PROVE Known(ip, w) <=> KnownOn(lines[ip], w)
BY DEF Known, KnownOn

\* What a registration makes of the lines.
LEMMA Registered ==
  ASSUME TypeInv, NEW r \in Requests, Register(r)
  PROVE  /\ Entries(r) \in Seq(Enterable) /\ lines' \in Lines
         /\ Entered(lines, lines', Entries(r), Len(Entries(r)))
         /\ \A k \in 1 .. Len(Entries(r)) : \A w \in ToSet(Entries(r)[k].dns) :
              w # EMPTY => KnownOn(lines'[Entries(r)[k].ip], w)
<1>1. Entries(r) \in Seq(Enterable)
  BY EntriesTyped DEF TypeInv
<1>2. lines' = Update(lines, r) /\ lines \in Lines
  BY Zenon DEF Register, TypeInv
<1> DEFINE new == Update(lines, r)
<1>3. new \in Lines /\ Entered(lines, new, Entries(r), Len(Entries(r)))
  BY <1>1, <1>2, UpdateEntered
<1> HIDE DEF new
<1>4. \A k \in 1 .. Len(Entries(r)) : \A w \in ToSet(Entries(r)[k].dns) :
        w # EMPTY => KnownOn(new[Entries(r)[k].ip], w)
  <2> SUFFICES ASSUME NEW k \in 1 .. Len(Entries(r)), NEW w \in ToSet(Entries(r)[k].dns),
                      w # EMPTY
               PROVE  KnownOn(new[Entries(r)[k].ip], w)
    OBVIOUS
  <2>1. w \in ToSet(Entries(r)[k].dns) \ {EMPTY}
    OBVIOUS
  <2> QED
    BY <1>3, <2>1 DEF Entered
<1>5. lines' = new
  BY <1>2 DEF new
<1> QED
  BY <1>1, <1>3, <1>4, <1>5

LEMMA LineStaysKnown ==
  ASSUME TypeInv, NEW r \in Requests, Register(r), NEW ip \in Addresses, NEW w,
         KnownOn(lines[ip], w)
  PROVE  KnownOn(lines'[ip], w)
<1>1. lines' \in Lines /\ Extends(lines, lines') /\ lines \in Lines
  BY Registered DEF Entered, TypeInv
<1>2. lines[ip] \in Seq(Words) /\ lines'[ip] \in Seq(Words) /\ Grows(lines[ip], lines'[ip])
  BY <1>1 DEF Lines, Extends
<1> QED
  BY <1>2, StaysKnown

LEMMA AskedNext == TypeInv /\ NamesResolvable /\ [Next]_vars => NamesResolvable'
<1> SUFFICES ASSUME TypeInv, NamesResolvable, [Next]_vars PROVE NamesResolvable'
  OBVIOUS
<1>1. CASE UNCHANGED vars
  BY <1>1, Zenon DEF NamesResolvable, Known, vars
<1>2. ASSUME NEW r \in Requests, Register(r) PROVE NamesResolvable'
  <2> DEFINE E == Entries(r)
  <2>1. E \in Seq(Enterable) /\ lines' \in Lines /\ Entered(lines, lines', E, Len(E))
    BY <1>2, Registered
  <2>2. asked' = [ip \in Addresses |-> asked[ip] \cup NamesFor(r, ip)]
    BY <1>2, Zenon DEF Register
  <2>3. ASSUME NEW ip \in Addresses, NEW w \in ToSet(lines'[ip]) \ {EMPTY}
        PROVE  w \in asked'[ip]
    <3>1. \/ w \in ToSet(lines[ip])
          \/ \E k \in 1 .. Len(E) : E[k].ip = ip /\ w \in ToSet(E[k].dns)
      BY <2>1, <2>3, Zenon DEF Entered
    <3>2. w \in ToSet(lines[ip]) => w \in asked[ip]
      BY <2>3, Zenon DEF NamesResolvable
    <3>3. w \in NamesFor(r, ip) \/ w \in asked[ip]
      BY <2>1, <2>3, <3>1, <3>2, NamesOfEntries, Zenon
    <3> QED
      BY <2>2, <3>3
  <2>4. ASSUME NEW ip \in Addresses, NEW w \in asked'[ip] PROVE KnownOn(lines'[ip], w)
    <3>1. CASE w \in asked[ip]
      <4>1. KnownOn(lines[ip], w)
        BY <3>1, KnownIs, Zenon DEF NamesResolvable
      <4> QED
        BY <1>2, <4>1, LineStaysKnown
    <3>2. CASE w \in NamesFor(r, ip)
      <4>1. w # EMPTY /\ \E k \in 1 .. Len(E) : E[k].ip = ip /\ w \in ToSet(E[k].dns)
        BY <2>1, <3>2, NamesOfEntries
      <4>2. PICK k \in 1 .. Len(E) : E[k].ip = ip /\ w \in ToSet(E[k].dns)
        BY <4>1, Zenon
      <4>3. KnownOn(lines'[E[k].ip], w)
        BY <1>2, <4>1, <4>2, Registered
      <4> QED
        BY <4>2, <4>3
    <3> QED
      BY <2>2, <2>4, <3>1, <3>2
  <2>5. \A ip \in Addresses :
          ToSet(lines'[ip]) \ {EMPTY} \subseteq asked'[ip]
    BY <2>3, Zenon
  <2>6. \A ip \in Addresses : \A w \in asked'[ip] : Known(ip, w)'
    BY <2>4, Zenon DEF Known, KnownOn
  <2> QED
    BY <2>5, <2>6, Zenon DEF NamesResolvable
<1> QED
  BY <1>1, <1>2 DEF Next

\* A name that was asked for is on the line of its address, or hidden by a longer one
\* that is; and nothing is there that was not asked for.
THEOREM AskedIsKnown == Spec => []NamesResolvable
<1>1. Init => NamesResolvable
  <2> SUFFICES ASSUME Init PROVE NamesResolvable
    OBVIOUS
  <2>1. \A ip \in Addresses : lines[ip] = <<>> /\ asked[ip] = {}
    BY DEF Init
  <2>2. ToSet(<<>>) = {}
    BY DEF ToSet
  <2> QED
    BY <2>1, <2>2, Zenon DEF NamesResolvable
<1> QED
  BY TypeInit, TypeNext, AskedNext, <1>1, PTL DEF Spec

-------------------------------------------------------------------------------
(* Peers that are listed.                                                  *)

Within(x, s) == \E i \in 1 .. Len(s) : s[i] = x

LEMMA WithinJoined ==
  ASSUME NEW T, NEW s \in Seq(T), NEW t \in Seq(T), NEW x, Within(x, s) \/ Within(x, t)
  PROVE  Within(x, s \o t)
<1>1. CASE Within(x, s)
  <2>1. PICK i \in 1 .. Len(s) : s[i] = x
    BY <1>1 DEF Within
  <2>2. i \in 1 .. Len(s \o t) /\ (s \o t)[i] = x
    BY <2>1
  <2> QED
    BY <2>2, Zenon DEF Within
<1>2. CASE Within(x, t)
  <2>1. PICK i \in 1 .. Len(t) : t[i] = x
    BY <1>2 DEF Within
  <2>2. Len(s) + i \in 1 .. Len(s \o t) /\ (s \o t)[Len(s) + i] = x
    BY <2>1
  <2> QED
    BY <2>2, Zenon DEF Within
<1> QED
  BY <1>1, <1>2

Separator == IF lang = "node1x" THEN "." ELSE "-"

Named(r) == IF lang = "java" THEN JavaPeer(r) ELSE PeerName(r)

\* An entry of a registration has the word.
HasWord(r, ip, w) ==
  \E e \in Enterable : Within(e, Entries(r)) /\ e.ip = ip /\ w \in ToSet(e.dns)

LEMMA PeerHasWord ==
  ASSUME NEW r \in Requests, r.fcn = "registerOrg", r.port # NONE, NEW h \in HostsOf(r),
         NEW seps \in Seps, NEW sep, Within(sep, seps)
  PROVE  \E e \in Enterable : /\ Within(e, Peer(r, h, seps)) /\ e.ip = r.ip
                              /\ <<h, sep, r.domain>> \in ToSet(e.dns)
<1> DEFINE dns == [i \in DOMAIN seps |-> <<h, seps[i], r.domain>>]
           e == Entry(r.ip, dns)
<1>1. Peer(r, h, seps) = <<e>> /\ Peer(r, h, seps) \in Seq(Enterable)
  BY PeerTyped, Zenon DEF Peer
<1>2. PICK i \in 1 .. Len(seps) : seps[i] = sep
  BY DEF Within
<1>3. i \in DOMAIN seps
  BY <1>2 DEF Seps
<1>4. <<h, sep, r.domain>> \in ToSet(dns)
  <2>1. i \in DOMAIN dns /\ dns[i] = <<h, sep, r.domain>>
    BY <1>2, <1>3, Zenon
  <2> HIDE DEF dns
  <2> QED
    BY <2>1, Zenon DEF ToSet
<1>5. e.ip = r.ip /\ e.dns = dns
  BY DEF Entry
<1> HIDE DEF e, dns
<1>6. 1 \in 1 .. Len(<<e>>) /\ <<e>>[1] = e
  OBVIOUS
<1>7. e \in Enterable
  BY <1>1, <1>6
<1> QED
  BY <1>1, <1>4, <1>5, <1>6, <1>7, Zenon DEF Within

LEMMA ListedHasWord ==
  ASSUME NEW r \in Requests, r.fcn = "registerOrg", NEW sep \in {".", "-"},
         NEW p \in DOMAIN r.peers
  PROVE  \E e \in Enterable : /\ Within(e, Listed(r, sep)) /\ e.ip = r.peers[p]
                              /\ <<p, sep, r.domain>> \in ToSet(e.dns)
<1> DEFINE names == SetToSeq(DOMAIN r.peers)
           e == Entry(r.peers[p], <<<<p, sep, r.domain>>>>)
<1>1. IsFiniteSet(DOMAIN r.peers)
  BY RequestsAssumption
<1>2. names \in Seq(DOMAIN r.peers) /\ \E i \in 1 .. Len(names) : names[i] = p
  BY <1>1, SequenceOfSet
<1>3. PICK i \in 1 .. Len(names) : names[i] = p
  BY <1>2
<1> HIDE DEF names
<1>4. DOMAIN names = 1 .. Len(names) /\ Len(names) \in Nat
  BY <1>2
<1>5. Listed(r, sep) =
        [j \in 1 .. Len(names) |-> Entry(r.peers[names[j]], <<<<names[j], sep, r.domain>>>>)]
  BY <1>4, Zenon DEF Listed, names
<1>6. Listed(r, sep)[i] = e
  BY <1>3, <1>5, Zenon
<1> DEFINE l == Listed(r, sep)
<1>7. l \in Seq(Enterable) /\ DOMAIN l = 1 .. Len(names)
  BY <1>5, ListedTyped
<1>8. l[i] = e
  BY <1>6
<1>9. e.ip = r.peers[p] /\ <<p, sep, r.domain>> \in ToSet(e.dns)
  <2>1. e.ip = r.peers[p] /\ e.dns = <<<<p, sep, r.domain>>>>
    BY DEF Entry
  <2>2. \A x : 1 \in DOMAIN <<x>> /\ <<x>>[1] = x
    OBVIOUS
  <2> QED
    BY <2>1, <2>2, Zenon DEF ToSet
<1> HIDE DEF l, e
<1>10. i \in 1 .. Len(l) /\ e \in Enterable
  BY <1>7, <1>8
<1>11. Within(e, l)
  BY <1>8, <1>10 DEF Within
<1> QED
  BY <1>9, <1>10, <1>11, Zenon DEF l

\* The named peer of a registration with a port has an entry, with every chaincode.
LEMMA NamedHasWord ==
  ASSUME TypeInv, NEW r \in Requests, r.fcn = "registerOrg", r.port # NONE
  PROVE  HasWord(r, r.ip, <<Named(r), Separator, r.domain>>)
<1>1. PeerName(r) \in HostsOf(r) /\ JavaPeer(r) \in HostsOf(r)
  BY DEF HostsOf
<1>2. \A x, y : Within(x, <<x>>) /\ Within(x, <<y, x>>)
  BY DEF Within
<1>3. <<".", "-">> \in Seps /\ <<".">> \in Seps /\ <<"-">> \in Seps
  <2>1. /\ Len(<<".", "-">>) = 2 /\ Len(<<".">>) = 1 /\ Len(<<"-">>) = 1
        /\ Len(<<>>) = 0
    OBVIOUS
  <2>2. <<".", "-">> # <<>> /\ <<".">> # <<>> /\ <<"-">> # <<>>
    BY <2>1
  <2> QED
    BY <2>2 DEF Seps
<1>4. r.fcn # "registerOrderer"
  OBVIOUS
<1>5. /\ <<Www(r)>> \in Seq(Enterable)
      /\ Listed(r, "-") \in Seq(Enterable) /\ Listed(r, ".") \in Seq(Enterable)
  BY WwwTyped, ListedTyped
<1>6. CASE lang = "java"
  <2> DEFINE part == Peer(r, JavaPeer(r), <<"-">>)
  <2>1. PICK e \in Enterable : /\ Within(e, part) /\ e.ip = r.ip
                               /\ <<JavaPeer(r), "-", r.domain>> \in ToSet(e.dns)
    BY <1>1, <1>2, <1>3, PeerHasWord
  <2>2. Entries(r) = part /\ Named(r) = JavaPeer(r) /\ Separator = "-"
    BY <1>4, <1>6 DEF Entries, OrgJava, Named, Separator
  <2> QED
    BY <2>1, <2>2, Zenon DEF HasWord
<1>7. CASE lang = "node2x"
  <2> DEFINE part == Peer(r, PeerName(r), <<".", "-">>)
  <2>1. PICK e \in Enterable : /\ Within(e, part) /\ e.ip = r.ip
                               /\ <<PeerName(r), "-", r.domain>> \in ToSet(e.dns)
    BY <1>1, <1>2, <1>3, PeerHasWord
  <2>2. /\ Entries(r) = <<Www(r)>> \o part \o Listed(r, "-")
        /\ Named(r) = PeerName(r) /\ Separator = "-"
    BY <1>4, <1>7 DEF Entries, OrgNode2x, Named, Separator
  <2>3. part \in Seq(Enterable) /\ <<Www(r)>> \o part \in Seq(Enterable)
    BY <1>1, <1>3, <1>5, PeerTyped, Joined, Zenon
  <2>4. Within(e, Entries(r))
    BY <1>5, <2>1, <2>2, <2>3, WithinJoined, Zenon
  <2> QED
    BY <2>1, <2>2, <2>4, Zenon DEF HasWord
<1>8. CASE lang = "node1x"
  <2> DEFINE part == Peer(r, PeerName(r), <<".">>)
  <2>1. PICK e \in Enterable : /\ Within(e, part) /\ e.ip = r.ip
                               /\ <<PeerName(r), ".", r.domain>> \in ToSet(e.dns)
    BY <1>1, <1>2, <1>3, PeerHasWord
  <2>2. /\ Entries(r) = <<Www(r)>> \o part \o Listed(r, ".")
        /\ Named(r) = PeerName(r) /\ Separator = "."
    BY <1>4, <1>8 DEF Entries, OrgNode1x, Named, Separator
  <2>3. part \in Seq(Enterable) /\ <<Www(r)>> \o part \in Seq(Enterable)
    BY <1>1, <1>3, <1>5, PeerTyped, Joined, Zenon
  <2>4. Within(e, Entries(r))
    BY <1>5, <2>1, <2>2, <2>3, WithinJoined, Zenon
  <2> QED
    BY <2>1, <2>2, <2>4, Zenon DEF HasWord
<1> QED
  BY <1>6, <1>7, <1>8 DEF TypeInv

\* So has every peer in the list, in Node.js.
LEMMA ListHasWord ==
  ASSUME TypeInv, NEW r \in Requests, r.fcn = "registerOrg", lang # "java",
         NEW p \in DOMAIN r.peers
  PROVE  HasWord(r, r.peers[p], <<p, Separator, r.domain>>)
<1>1. Separator \in {".", "-"}
  BY DEF Separator
<1>2. PICK e \in Enterable : /\ Within(e, Listed(r, Separator)) /\ e.ip = r.peers[p]
                             /\ <<p, Separator, r.domain>> \in ToSet(e.dns)
  BY <1>1, ListedHasWord
<1>3. \E part \in Seq(Enterable) : Entries(r) = part \o Listed(r, Separator)
  <2>1. PeerName(r) \in HostsOf(r)
    BY DEF HostsOf
  <2>2. <<".", "-">> \in Seps /\ <<".">> \in Seps
    <3>1. Len(<<".", "-">>) = 2 /\ Len(<<".">>) = 1 /\ Len(<<>>) = 0
      OBVIOUS
    <3>2. <<".", "-">> # <<>> /\ <<".">> # <<>>
      BY <3>1
    <3> QED
      BY <3>2 DEF Seps
  <2>3. r.fcn # "registerOrderer"
    OBVIOUS
  <2>4. CASE lang = "node2x"
    <3>1. <<Www(r)>> \o Peer(r, PeerName(r), <<".", "-">>) \in Seq(Enterable)
      BY <2>1, <2>2, WwwTyped, PeerTyped, Joined, Zenon
    <3>2. Entries(r) = <<Www(r)>> \o Peer(r, PeerName(r), <<".", "-">>)
                         \o Listed(r, Separator)
      BY <2>3, <2>4 DEF Entries, OrgNode2x, Separator
    <3> QED
      BY <3>1, <3>2, Zenon
  <2>5. CASE lang = "node1x"
    <3>1. <<Www(r)>> \o Peer(r, PeerName(r), <<".">>) \in Seq(Enterable)
      BY <2>1, <2>2, WwwTyped, PeerTyped, Joined, Zenon
    <3>2. Entries(r) = <<Www(r)>> \o Peer(r, PeerName(r), <<".">>) \o Listed(r, Separator)
      BY <2>3, <2>5 DEF Entries, OrgNode1x, Separator
    <3> QED
      BY <3>1, <3>2, Zenon
  <2> QED
    BY <2>4, <2>5 DEF TypeInv
<1>4. Listed(r, Separator) \in Seq(Enterable)
  BY <1>1, ListedTyped
<1>5. Within(e, Entries(r))
  BY <1>2, <1>3, <1>4, WithinJoined, Zenon
<1> QED
  BY <1>2, <1>5, Zenon DEF HasWord

\* An entry with the word makes it known.
LEMMA WordKnown ==
  ASSUME TypeInv, NEW r \in Requests, Register(r), NEW ip, NEW h, NEW sep,
         HasWord(r, ip, <<h, sep, r.domain>>)
  PROVE  KnownOn(lines'[ip], <<h, sep, r.domain>>)
<1>1. PICK e \in Enterable : /\ Within(e, Entries(r)) /\ e.ip = ip
                             /\ <<h, sep, r.domain>> \in ToSet(e.dns)
  BY Zenon DEF HasWord
<1>2. PICK k \in 1 .. Len(Entries(r)) : Entries(r)[k] = e
  BY <1>1 DEF Within
<1>3. <<h, sep, r.domain>> # EMPTY
  <2>1. r.domain # ""
    BY RequestsAssumption, PrefixAssumption
  <2> QED
    BY <2>1 DEF EMPTY
<1>4. <<h, sep, r.domain>> \in ToSet(Entries(r)[k].dns)
  BY <1>1, <1>2, Zenon
<1>5. KnownOn(lines'[Entries(r)[k].ip], <<h, sep, r.domain>>)
  BY <1>3, <1>4, Registered
<1> QED
  BY <1>1, <1>2, <1>5

LEMMA ListedNext == TypeInv /\ PeersNamed /\ [Next]_vars => PeersNamed'
<1> SUFFICES ASSUME TypeInv, PeersNamed, [Next]_vars PROVE PeersNamed'
  OBVIOUS
<1>1. CASE UNCHANGED vars
  BY <1>1, Zenon DEF PeersNamed, Known, vars
<1>2. ASSUME NEW r \in Requests, Register(r) PROVE PeersNamed'
  <2>1. lang' = lang
    BY <1>2, Zenon DEF Register
  <2>2. ASSUME NEW d \in Domains, NEW p \in DOMAIN orgs'[d],
               lang # "java" \/ orgs'[d][p].port # NONE
        PROVE  KnownOn(lines'[orgs'[d][p].ip], <<p, Separator, d>>)
    <3>1. ASSUME p \in DOMAIN orgs[d], orgs'[d][p] = orgs[d][p]
          PROVE  KnownOn(lines'[orgs'[d][p].ip], <<p, Separator, d>>)
      <4>1. lang # "java" \/ orgs[d][p].port # NONE
        BY <2>2, <3>1, Zenon
      <4>2. Known(orgs[d][p].ip, <<p, Separator, d>>)
        BY <3>1, <4>1, Zenon DEF PeersNamed, Separator
      <4>3. orgs[d][p].ip \in Addresses
        BY <3>1, Zenon DEF TypeInv
      <4>4. KnownOn(lines[orgs[d][p].ip], <<p, Separator, d>>)
        BY <4>2, KnownIs, Zenon
      <4> QED
        BY <1>2, <3>1, <4>3, <4>4, LineStaysKnown, Zenon
    <3>2. CASE orgs'[d] = orgs[d]
      BY <2>2, <3>1, <3>2, Zenon
    <3>3. CASE orgs'[d] # orgs[d]
      <4>1. /\ d = r.domain /\ r.fcn = "registerOrg"
            /\ orgs'[d] = IF lang = "java" THEN PeersJava(r) ELSE PeersNode(r, orgs[d])
        BY <1>2, <3>3, Stored, Zenon
      <4>2. ASSUME r.port # NONE, p = Named(r), orgs'[d][p].ip = r.ip
            PROVE  KnownOn(lines'[orgs'[d][p].ip], <<p, Separator, d>>)
        <5>1. HasWord(r, r.ip, <<p, Separator, r.domain>>)
          BY <4>1, <4>2, NamedHasWord, Zenon
        <5> QED
          BY <1>2, <4>1, <4>2, <5>1, WordKnown, Zenon
      <4>3. ASSUME lang # "java", p \in DOMAIN r.peers, orgs'[d][p].ip = r.peers[p]
            PROVE  KnownOn(lines'[orgs'[d][p].ip], <<p, Separator, d>>)
        <5>1. HasWord(r, r.peers[p], <<p, Separator, r.domain>>)
          BY <4>1, <4>3, ListHasWord, Zenon
        <5> QED
          BY <1>2, <4>1, <4>3, <5>1, WordKnown, Zenon
      <4>4. CASE lang = "java"
        <5>1. p = JavaPeer(r) /\ orgs'[d][p] = Listing(r.ip, r.port)
          BY <2>2, <4>1, <4>4 DEF PeersJava
        <5>2. orgs'[d][p].ip = r.ip /\ orgs'[d][p].port = r.port
          BY <5>1 DEF Listing
        <5>3. p = Named(r)
          BY <4>4, <5>1, Zenon DEF Named
        <5> QED
          BY <2>2, <4>2, <4>4, <5>2, <5>3, Zenon
      <4>5. CASE lang # "java"
        <5>1. p \in DOMAIN PeersNode(r, orgs[d]) /\ orgs'[d][p] = PeersNode(r, orgs[d])[p]
          BY <2>2, <4>1, <4>5
        <5> DEFINE x == PeersNode(r, orgs[d])[p]
        <5>2. \/ r.port # NONE /\ p = PeerName(r) /\ x.ip = r.ip
              \/ p \in DOMAIN r.peers /\ x.ip = r.peers[p]
              \/ p \in DOMAIN orgs[d] /\ x = orgs[d][p]
          BY <5>1, PeersAfter
        <5>3. PeerName(r) = Named(r)
          BY <4>5, Zenon DEF Named
        <5> QED
          BY <3>1, <4>2, <4>3, <4>5, <5>1, <5>2, <5>3, Zenon
      <4> QED
        BY <4>4, <4>5
    <3> QED
      BY <3>2, <3>3
  <2>3. ASSUME NEW d \in Domains, NEW p \in DOMAIN orgs'[d],
               lang' # "java" \/ orgs'[d][p].port # NONE
        PROVE  Known(orgs[d][p].ip, <<p, IF lang = "node1x" THEN "." ELSE "-", d>>)'
    <3>1. KnownOn(lines'[orgs'[d][p].ip], <<p, IF lang' = "node1x" THEN "." ELSE "-", d>>)
      BY <2>1, <2>2, <2>3, Zenon DEF Separator
    <3> QED
      BY <3>1, Zenon DEF Known, KnownOn
  <2> QED
    BY <2>3, Zenon DEF PeersNamed
<1> QED
  BY <1>1, <1>2 DEF Next

LEMMA KeptNext == TypeInv /\ PeersKept /\ [Next]_vars => PeersKept'
<1> SUFFICES ASSUME TypeInv, PeersKept, [Next]_vars PROVE PeersKept'
  OBVIOUS
<1>1. CASE UNCHANGED vars
  BY <1>1, Zenon DEF PeersKept, vars
<1>2. ASSUME NEW r \in Requests, Register(r) PROVE PeersKept'
  <2>1. lang' = lang /\ once' = once \cup {r}
    BY <1>2, Zenon DEF Register
  <2>2. ASSUME lang # "java", NEW q \in Requests, q \in once \/ q = r,
               q.fcn = "registerOrg"
        PROVE  DOMAIN NewPeers(q) \subseteq DOMAIN orgs'[q.domain]
    <3>1. q.domain \in Domains
      BY RequestsAssumption
    <3>2. \/ orgs'[q.domain] = orgs[q.domain]
          \/ r.domain = q.domain /\ orgs'[q.domain] = PeersNode(r, orgs[q.domain])
      BY <1>2, <2>2, <3>1, Stored, Zenon
    <3>3. DOMAIN orgs[q.domain] \subseteq DOMAIN orgs'[q.domain]
      <4>1. DOMAIN PeersNode(r, orgs[q.domain]) = DOMAIN orgs[q.domain] \cup DOMAIN NewPeers(r)
        BY PeersAfter, Zenon
      <4> QED
        BY <3>2, <4>1, Zenon
    <3>4. CASE q \in once
      <4>1. DOMAIN NewPeers(q) \subseteq DOMAIN orgs[q.domain]
        BY <2>2, <3>4, Zenon DEF PeersKept
      <4> QED
        BY <3>3, <4>1, Zenon
    <3>5. CASE q = r
      <4>1. r.fcn # "registerOrderer"
        BY <2>2, <3>5
      <4>2. orgs' = [orgs EXCEPT ![r.domain] = PeersNode(r, orgs[r.domain])]
        BY <1>2, <2>2, <4>1, Zenon DEF Register
      <4> DEFINE new == PeersNode(r, orgs[r.domain])
      <4>3. orgs'[r.domain] = new
        <5> HIDE DEF new
        <5>1. orgs' = [orgs EXCEPT ![r.domain] = new]
          BY <4>2 DEF new
        <5>2. \A d \in Domains : orgs'[d] = IF d = r.domain THEN new ELSE orgs[d]
          BY <5>1 DEF TypeInv
        <5> QED
          BY <3>1, <3>5, <5>2, Zenon
      <4>4. DOMAIN new = DOMAIN orgs[r.domain] \cup DOMAIN NewPeers(r)
        BY PeersAfter, Zenon
      <4> QED
        BY <3>5, <4>3, <4>4, Zenon
    <3> QED
      BY <2>2, <3>4, <3>5
  <2>3. once' \subseteq Requests
    BY <2>1, Zenon DEF TypeInv
  <2> QED
    BY <2>1, <2>2, <2>3, Zenon DEF PeersKept
<1> QED
  BY <1>1, <1>2 DEF Next

\* A peer that is listed in the object of its organisation has a name on the line of
\* the address it is listed with; and in Node.js every peer that a registration has
\* named or listed is there, whatever is registered afterwards.
THEOREM ListedIsKnown == Spec => []PeersResolvable
<1>1. Init => PeersNamed
  <2> SUFFICES ASSUME Init PROVE PeersNamed
    OBVIOUS
  <2>1. \A d \in Domains : \A p \in DOMAIN orgs[d] : FALSE
    BY DEF Init, NoPeers
  <2> QED
    BY <2>1, Zenon DEF PeersNamed
<1>2. Init => PeersKept
  BY Zenon DEF Init, PeersKept
<1>3. PeersNamed /\ PeersKept => PeersResolvable
  BY DEF PeersResolvable
<1> QED
  BY TypeInit, TypeNext, ListedNext, KeptNext, <1>1, <1>2, <1>3, PTL DEF Spec

-------------------------------------------------------------------------------
(* Registrations that are repeated.                                        *)

\* Making the entry again changes nothing.
Settled(current, e) ==
  \/ Includes(current[e.ip], e.dns)
  \/ current[e.ip] = <<>> /\ e.dns = <<EMPTY>>

\* The entry is made for good, if it is made at all.
Ready(current, e) ==
  lang = "java" \/ current[e.ip] # <<>> \/ e.dns = <<EMPTY>>

LEMMA ExtendedIncludes ==
  ASSUME NEW line \in Seq(Words), NEW dns \in Seq(Words) \ {<<>>},
         lang = "java" \/ line # <<>>
  PROVE  Includes(line \o dns, dns)
<1> DEFINE from == IF lang = "java" THEN 1 ELSE 2
           l == line \o dns
           i == Len(line) + 1
<1>1. Len(line) \in Nat /\ Len(dns) \in Nat \ {0} /\ (line # <<>> => Len(line) # 0)
  OBVIOUS
<1>2. Len(l) = Len(line) + Len(dns) /\ \A j \in 1 .. Len(dns) : l[Len(line) + j] = dns[j]
  OBVIOUS
<1> HIDE DEF l
<1>3. from = 1 \/ (from = 2 /\ line # <<>>)
  OBVIOUS
<1> HIDE DEF from
<1>4. i \in from .. Len(l) - Len(dns) + 1
  BY <1>1, <1>2, <1>3
<1>5. \A j \in 1 .. Len(dns) : l[i + j - 1] = dns[j]
  <2>1. \A j \in 1 .. Len(dns) : i + j - 1 = Len(line) + j
    BY <1>1
  <2> HIDE DEF i
  <2> QED
    BY <1>2, <2>1
<1>6. Len(dns) \in 1 .. Len(dns) /\ \A j \in 1 .. Len(dns) - 1 : j \in 1 .. Len(dns)
  BY <1>1
<1>7. Begins(dns[Len(dns)], l[i + Len(dns) - 1])
  BY <1>5, <1>6 DEF Begins
<1> HIDE DEF i
<1> QED
  BY <1>4, <1>5, <1>6, <1>7, Zenon DEF Includes, from, l

\* Line of the address of an entry, after another one.
LEMMA EnterLine ==
  ASSUME NEW current \in Lines, NEW e \in Enterable, NEW ip \in Addresses
  PROVE  Enter(current, e)[ip] =
           IF ip = e.ip /\ ~Includes(current[e.ip], e.dns)
           THEN Extend(current[e.ip], e.dns) ELSE current[ip]
<1>1. CASE Includes(current[e.ip], e.dns)
  BY <1>1, Zenon DEF Enter
<1>2. CASE ~Includes(current[e.ip], e.dns)
  <2> DEFINE x == Extend(current[e.ip], e.dns)
  <2>1. Enter(current, e) = [current EXCEPT ![e.ip] = x]
    BY <1>2, Zenon DEF Enter
  <2> HIDE DEF x
  <2>2. Enter(current, e)[ip] = IF ip = e.ip THEN x ELSE current[ip]
    BY <2>1 DEF Lines
  <2> QED
    BY <1>2, <2>2, Zenon DEF x
<1> QED
  BY <1>1, <1>2

LEMMA EnterSettles ==
  ASSUME NEW current \in Lines, NEW e \in Enterable, Ready(current, e)
  PROVE  Settled(Enter(current, e), e)
<1> DEFINE line == current[e.ip]
           new  == Enter(current, e)[e.ip]
<1>1. e.ip \in Addresses /\ e.dns \in Seq(Words) \ {<<>>} /\ line \in Seq(Words)
  BY DEF Enterable, Lines
<1>2. new = IF ~Includes(line, e.dns) THEN Extend(line, e.dns) ELSE line
  BY <1>1, EnterLine
<1>3. lang = "java" \/ line # <<>> \/ e.dns = <<EMPTY>>
  BY Zenon DEF Ready
<1> SUFFICES Includes(new, e.dns) \/ (new = <<>> /\ e.dns = <<EMPTY>>)
  BY Zenon DEF Settled
<1> HIDE DEF line, new
<1>4. CASE Includes(line, e.dns)
  BY <1>2, <1>4, Zenon
<1>5. CASE ~Includes(line, e.dns) /\ line = <<>> /\ e.dns = <<EMPTY>>
  BY <1>2, <1>5, Zenon DEF Extend
<1>6. CASE ~Includes(line, e.dns) /\ ~(line = <<>> /\ e.dns = <<EMPTY>>)
  <2>1. new = line \o e.dns
    BY <1>2, <1>6, Zenon DEF Extend
  <2>2. lang = "java" \/ line # <<>>
    BY <1>3, <1>6, Zenon
  <2> QED
    BY <1>1, <2>1, <2>2, ExtendedIncludes
<1> QED
  BY <1>4, <1>5, <1>6

\* What is settled stays so,
LEMMA StaysSettled ==
  ASSUME NEW current \in Lines, NEW e \in Enterable, NEW f \in Enterable,
         Settled(current, e), Ready(current, f)
  PROVE  Settled(Enter(current, f), e)
<1> DEFINE line == current[e.ip]
           new  == Enter(current, f)[e.ip]
<1>1. e.ip \in Addresses /\ f.ip \in Addresses /\ e.dns \in Seq(Words) \ {<<>>}
  BY DEF Enterable
<1>2. line \in Seq(Words) /\ new \in Seq(Words) /\ Grows(line, new)
  <2>1. Enter(current, f) \in Lines /\ Extends(current, Enter(current, f))
    BY EnterExtends
  <2> QED
    BY <1>1, <2>1 DEF Lines, Extends
<1>3. Includes(line, e.dns) \/ (line = <<>> /\ e.dns = <<EMPTY>>)
  BY Zenon DEF Settled
<1> SUFFICES Includes(new, e.dns) \/ (new = <<>> /\ e.dns = <<EMPTY>>)
  BY Zenon DEF Settled
<1>4. new = IF e.ip = f.ip /\ ~Includes(current[f.ip], f.dns)
            THEN Extend(current[f.ip], f.dns) ELSE line
  BY <1>1, EnterLine
<1>5. CASE Includes(line, e.dns)
  <2> HIDE DEF line, new
  <2> QED
    BY <1>1, <1>2, <1>5, StaysIncluded
<1>6. CASE line = <<>> /\ e.dns = <<EMPTY>> /\ lang # "java"
  <2>1. e.ip = f.ip => f.dns = <<EMPTY>>
    BY <1>6 DEF Ready
  <2>2. new = <<>>
    BY <1>4, <1>6, <2>1 DEF Extend
  <2> QED
    BY <1>6, <2>2
<1>7. CASE line = <<>> /\ e.dns = <<EMPTY>> /\ lang = "java"
  <2> HIDE DEF line, new
  <2> SUFFICES ASSUME new # <<>> PROVE Includes(new, <<EMPTY>>)
    BY <1>7, Zenon
  <2>1. Len(new) \in Nat \ {0}
    BY <1>2
  <2>2. Len(<<EMPTY>>) = 1 /\ <<EMPTY>>[1] = EMPTY
    OBVIOUS
  <2>3. 1 \in 1 .. Len(new) - 1 + 1 /\ (\A j \in 1 .. 1 - 1 : FALSE)
    BY <2>1
  <2>4. Begins(EMPTY, new[1 + 1 - 1])
    BY DEF Begins
  <2> QED
    BY <1>7, <2>2, <2>3, <2>4, Zenon DEF Includes
<1> QED
  BY <1>3, <1>5, <1>6, <1>7

\* and making the entry again changes nothing.
LEMMA SettledEnter ==
  ASSUME NEW current \in Lines, NEW e \in Enterable, Settled(current, e)
  PROVE  Enter(current, e) = current
<1>1. CASE Includes(current[e.ip], e.dns)
  BY <1>1, Zenon DEF Enter
<1>2. CASE ~Includes(current[e.ip], e.dns)
  <2>1. current[e.ip] = <<>> /\ e.dns = <<EMPTY>>
    BY <1>2, Zenon DEF Settled
  <2>2. Extend(current[e.ip], e.dns) = current[e.ip]
    BY <2>1, Zenon DEF Extend
  <2>3. Enter(current, e) = [current EXCEPT ![e.ip] = current[e.ip]]
    BY <1>2, <2>2, Zenon DEF Enter
  <2> QED
    BY <2>3 DEF Lines
<1> QED
  BY <1>1, <1>2

LEMMA StaysReady ==
  ASSUME NEW current \in Lines, NEW e \in Enterable, NEW f \in Enterable, Ready(current, e)
  PROVE  Ready(Enter(current, f), e)
<1>1. e.ip \in Addresses
  BY DEF Enterable
<1>2. Enter(current, f) \in Lines /\ Extends(current, Enter(current, f))
  BY EnterExtends
<1> DEFINE line == current[e.ip]
           new  == Enter(current, f)[e.ip]
<1>3. line \in Seq(Words) /\ new \in Seq(Words) /\ Grows(line, new)
  BY <1>1, <1>2 DEF Lines, Extends
<1>4. line # <<>> => new # <<>>
  <2> HIDE DEF line, new
  <2> SUFFICES ASSUME line # <<>>, new = <<>> PROVE FALSE
    OBVIOUS
  <2>1. Len(line) # 0 /\ Len(line) \in Nat /\ Len(new) = 0
    BY <1>3
  <2> QED
    BY <1>3, <2>1 DEF Grows
<1> QED
  BY <1>4, Zenon DEF Ready

\* Once an entry has been made, it is ready.
LEMMA EnterReady ==
  ASSUME NEW current \in Lines, NEW e \in Enterable
  PROVE  Ready(Enter(current, e), e)
<1> DEFINE line == current[e.ip]
           new  == Enter(current, e)[e.ip]
<1>1. e.ip \in Addresses /\ e.dns \in Seq(Words) \ {<<>>} /\ line \in Seq(Words)
  BY DEF Enterable, Lines
<1>2. new = IF ~Includes(line, e.dns) THEN Extend(line, e.dns) ELSE line
  BY <1>1, EnterLine
<1>3. Len(e.dns) \in Nat \ {0}
  BY <1>1
<1> SUFFICES ASSUME e.dns # <<EMPTY>> PROVE new # <<>>
  BY Zenon DEF Ready
<1>4. CASE ~Includes(line, e.dns)
  <2>1. new = line \o e.dns
    BY <1>2, <1>4, Zenon DEF Extend
  <2> HIDE DEF new, line
  <2>2. Len(new) # 0
    BY <1>1, <1>3, <2>1
  <2> QED
    BY <2>2
<1>5. CASE Includes(line, e.dns)
  <2> HIDE DEF new, line
  <2>1. Len(line) # 0
    BY <1>1, <1>3, <1>5 DEF Includes
  <2> QED
    BY <1>2, <1>5, <2>1
<1> QED
  BY <1>4, <1>5

\* A registration readies its entries,
LEMMA UpdateReadies ==
  ASSUME NEW current \in Lines, NEW r, Entries(r) \in Seq(Enterable)
  PROVE  /\ Update(current, r) \in Lines
         /\ \A k \in 1 .. Len(Entries(r)) : Ready(Update(current, r), Entries(r)[k])
<1> DEFINE E == Entries(r)
           P(m, b) == \A k \in 1 .. m : Ready(b, E[k])
           S == [m \in Nat |-> {b \in Lines : m <= Len(E) => P(m, b)}]
<1>1. S \in [Nat -> SUBSET Lines]
  OBVIOUS
<1>2. current \in S[0]
  OBVIOUS
<1>3. ASSUME NEW m \in Nat, NEW b \in S[m], m + 1 <= Len(E)
      PROVE  Enter(b, E[m + 1]) \in S[m + 1]
  <2>1. b \in Lines /\ P(m, b) /\ \A k \in 1 .. m + 1 : E[k] \in Enterable
    BY <1>3
  <2>2. m + 1 \in 1 .. m + 1 /\ \A k \in 1 .. m + 1 : k = m + 1 \/ k \in 1 .. m
    OBVIOUS
  <2> DEFINE c == Enter(b, E[m + 1])
  <2>3. c \in Lines /\ Ready(c, E[m + 1])
    BY <2>1, <2>2, EnterReady, EnterExtends
  <2>4. \A k \in 1 .. m : Ready(c, E[k])
    BY <2>1, <2>2, StaysReady
  <2> HIDE DEF c
  <2>5. P(m + 1, c)
    BY <2>2, <2>3, <2>4
  <2> QED
    BY <2>3, <2>5 DEF c
<1>4. Update(current, r) \in S[Len(E)]
  <2> HIDE DEF S
  <2> QED
    BY <1>1, <1>2, <1>3, UpdateInduct
<1>5. Len(E) \in Nat
  OBVIOUS
<1> QED
  BY <1>4, <1>5

\* settles them when they are ready,
LEMMA UpdateSettles ==
  ASSUME NEW current \in Lines, NEW r, Entries(r) \in Seq(Enterable),
         \A k \in 1 .. Len(Entries(r)) : Ready(current, Entries(r)[k])
  PROVE  \A k \in 1 .. Len(Entries(r)) : Settled(Update(current, r), Entries(r)[k])
<1> DEFINE E == Entries(r)
           P(m, b) == /\ \A k \in 1 .. Len(E) : Ready(b, E[k])
                      /\ \A k \in 1 .. m : Settled(b, E[k])
           S == [m \in Nat |-> {b \in Lines : m <= Len(E) => P(m, b)}]
<1>1. S \in [Nat -> SUBSET Lines]
  OBVIOUS
<1>2. current \in S[0]
  OBVIOUS
<1>3. ASSUME NEW m \in Nat, NEW b \in S[m], m + 1 <= Len(E)
      PROVE  Enter(b, E[m + 1]) \in S[m + 1]
  <2>1. b \in Lines /\ P(m, b) /\ \A k \in 1 .. Len(E) : E[k] \in Enterable
    BY <1>3
  <2>2. /\ m + 1 \in 1 .. Len(E) /\ \A k \in 1 .. m : k \in 1 .. Len(E)
        /\ \A k \in 1 .. m + 1 : k = m + 1 \/ k \in 1 .. m
    BY <1>3
  <2> DEFINE c == Enter(b, E[m + 1])
  <2>3. c \in Lines /\ Settled(c, E[m + 1])
    BY <2>1, <2>2, EnterSettles, EnterExtends
  <2>4. \A k \in 1 .. m : Settled(c, E[k])
    BY <2>1, <2>2, StaysSettled
  <2>5. \A k \in 1 .. Len(E) : Ready(c, E[k])
    BY <2>1, <2>2, StaysReady
  <2> HIDE DEF c
  <2>6. P(m + 1, c)
    BY <2>2, <2>3, <2>4, <2>5
  <2> QED
    BY <2>3, <2>6 DEF c
<1>4. Update(current, r) \in S[Len(E)]
  <2> HIDE DEF S
  <2> QED
    BY <1>1, <1>2, <1>3, UpdateInduct
<1>5. Len(E) \in Nat
  OBVIOUS
<1> QED
  BY <1>4, <1>5

\* and changes nothing when they are settled.
LEMMA UpdateSettled ==
  ASSUME NEW current \in Lines, NEW r, Entries(r) \in Seq(Enterable),
         \A k \in 1 .. Len(Entries(r)) : Settled(current, Entries(r)[k])
  PROVE  Update(current, r) = current
<1> DEFINE E == Entries(r)
           S == [m \in Nat |-> {current}]
<1>1. S \in [Nat -> SUBSET Lines] /\ current \in S[0]
  OBVIOUS
<1>2. ASSUME NEW m \in Nat, NEW b \in S[m], m + 1 <= Len(E)
      PROVE  Enter(b, E[m + 1]) \in S[m + 1]
  <2>1. m + 1 \in 1 .. Len(E) /\ b = current
    BY <1>2
  <2>2. Enter(current, E[m + 1]) = current
    BY <2>1, SettledEnter
  <2> QED
    BY <2>1, <2>2
<1>3. Update(current, r) \in S[Len(E)]
  <2> HIDE DEF S
  <2> QED
    BY <1>1, <1>2, UpdateInduct
<1>4. Len(E) \in Nat
  OBVIOUS
<1> QED
  BY <1>3, <1>4

\* An entry is there for good, or is the empty one.
Firm(current, e) == Includes(current[e.ip], e.dns) \/ e.dns = <<EMPTY>>

\* What holds for good after one registration, and after two.
Repeats(current, o, t) ==
  /\ t \subseteq o
  /\ \A r \in o : \A k \in 1 .. Len(Entries(r)) :
       /\ Ready(current, Entries(r)[k])
       /\ lang = "java" => Settled(current, Entries(r)[k])
  /\ \A r \in t : \A k \in 1 .. Len(Entries(r)) : Firm(current, Entries(r)[k])

RepeatInv == Repeats(lines, once, twice)

LEMMA UpdateKeepsReady ==
  ASSUME NEW current \in Lines, NEW r, Entries(r) \in Seq(Enterable),
         NEW e \in Enterable, Ready(current, e)
  PROVE  Ready(Update(current, r), e)
<1> DEFINE S == [m \in Nat |-> {b \in Lines : Ready(b, e)}]
<1>1. S \in [Nat -> SUBSET Lines] /\ current \in S[0]
  OBVIOUS
<1>2. ASSUME NEW m \in Nat, NEW b \in S[m], m + 1 <= Len(Entries(r))
      PROVE  Enter(b, Entries(r)[m + 1]) \in S[m + 1]
  <2>1. b \in Lines /\ Ready(b, e) /\ Entries(r)[m + 1] \in Enterable
    BY <1>2
  <2>2. Enter(b, Entries(r)[m + 1]) \in Lines /\ Ready(Enter(b, Entries(r)[m + 1]), e)
    BY <2>1, StaysReady, EnterExtends
  <2> QED
    BY <2>2
<1>3. Update(current, r) \in S[Len(Entries(r))]
  <2> HIDE DEF S
  <2> QED
    BY <1>1, <1>2, UpdateInduct
<1>4. Len(Entries(r)) \in Nat
  OBVIOUS
<1> QED
  BY <1>3, <1>4

\* In Java every entry is ready at any time.
LEMMA UpdateKeepsSettled ==
  ASSUME NEW current \in Lines, NEW r, Entries(r) \in Seq(Enterable),
         NEW e \in Enterable, Settled(current, e), lang = "java"
  PROVE  Settled(Update(current, r), e)
<1> DEFINE S == [m \in Nat |-> {b \in Lines : Settled(b, e)}]
<1>1. S \in [Nat -> SUBSET Lines] /\ current \in S[0]
  OBVIOUS
<1>2. ASSUME NEW m \in Nat, NEW b \in S[m], m + 1 <= Len(Entries(r))
      PROVE  Enter(b, Entries(r)[m + 1]) \in S[m + 1]
  <2>1. b \in Lines /\ Settled(b, e) /\ Entries(r)[m + 1] \in Enterable
    BY <1>2
  <2>2. Ready(b, Entries(r)[m + 1])
    BY Zenon DEF Ready
  <2>3. Enter(b, Entries(r)[m + 1]) \in Lines /\ Settled(Enter(b, Entries(r)[m + 1]), e)
    BY <2>1, <2>2, StaysSettled, EnterExtends
  <2> QED
    BY <2>3
<1>3. Update(current, r) \in S[Len(Entries(r))]
  <2> HIDE DEF S
  <2> QED
    BY <1>1, <1>2, UpdateInduct
<1>4. Len(Entries(r)) \in Nat
  OBVIOUS
<1> QED
  BY <1>3, <1>4

LEMMA UpdateKeepsFirm ==
  ASSUME NEW current \in Lines, NEW r \in Requests, Entries(r) \in Seq(Enterable),
         NEW e \in Enterable, Firm(current, e)
  PROVE  Firm(Update(current, r), e)
<1> DEFINE new == Update(current, r)
<1>1. new \in Lines /\ Extends(current, new)
  BY UpdateEntered DEF Entered
<1> HIDE DEF new
<1>2. e.ip \in Addresses /\ e.dns \in Seq(Words) \ {<<>>}
  BY DEF Enterable
<1>3. /\ current[e.ip] \in Seq(Words) /\ new[e.ip] \in Seq(Words)
      /\ Grows(current[e.ip], new[e.ip])
  BY <1>1, <1>2 DEF Lines, Extends
<1>4. Includes(current[e.ip], e.dns) => Includes(new[e.ip], e.dns)
  BY <1>2, <1>3, StaysIncluded
<1>5. Firm(new, e)
  BY <1>4, Zenon DEF Firm
<1> QED
  BY <1>5 DEF new

LEMMA SettledIsFirm ==
  ASSUME NEW current, NEW e, Settled(current, e) PROVE Firm(current, e)
BY Zenon DEF Settled, Firm

\* The same lines, but for a blank after a line of one word.
Almost(a, b) ==
  \A ip \in Addresses :
    b[ip] = a[ip] \/ (Len(a[ip]) = 1 /\ b[ip] = Append(a[ip], EMPTY))

\* The empty entry is found on a line of two words.
LEMMA BlankIncluded ==
  ASSUME NEW line \in Seq(Words), Len(line) > 1
  PROVE  Includes(line, <<EMPTY>>)
<1>1. Len(<<EMPTY>>) = 1 /\ <<EMPTY>>[1] = EMPTY
  OBVIOUS
<1>2. /\ 2 \in (IF lang = "java" THEN 1 ELSE 2) .. Len(line) - 1 + 1
      /\ \A j \in 1 .. 1 - 1 : FALSE
  OBVIOUS
<1>3. Begins(EMPTY, line[2 + 1 - 1])
  BY DEF Begins
<1> QED
  BY <1>1, <1>2, <1>3, Zenon DEF Includes

LEMMA Appended ==
  ASSUME NEW T, NEW s \in Seq(T), NEW w \in T
  PROVE  Len(Append(s, w)) = Len(s) + 1 /\ s \o <<w>> = Append(s, w)
OBVIOUS

LEMMA FirmEnter ==
  ASSUME NEW a \in Lines, NEW b \in Lines, Almost(a, b), NEW e \in Enterable, Firm(b, e)
  PROVE  Almost(a, Enter(b, e))
<1> SUFFICES ASSUME NEW ip \in Addresses
             PROVE  LET x == Enter(b, e)[ip]
                    IN  x = a[ip] \/ (Len(a[ip]) = 1 /\ x = Append(a[ip], EMPTY))
  BY Zenon DEF Almost
<1> DEFINE x == Enter(b, e)[ip]
           s == a[ip]
           t == b[ip]
<1>1. s \in Seq(Words) /\ t \in Seq(Words)
  BY DEF Lines
<1>2. t = s \/ (Len(s) = 1 /\ t = Append(s, EMPTY))
  BY Zenon DEF Almost
<1>3. x = IF ip = e.ip /\ ~Includes(b[e.ip], e.dns) THEN Extend(b[e.ip], e.dns) ELSE t
  BY EnterLine
<1>4. x = t \/ (ip = e.ip /\ ~Includes(b[e.ip], e.dns) /\ x = Extend(b[e.ip], e.dns))
  BY <1>3, Zenon
<1>5. x = t \/ (~Includes(t, <<EMPTY>>) /\ x = Extend(t, <<EMPTY>>))
  BY <1>4, Zenon DEF Firm
<1> HIDE DEF x, s, t
<1>6. CASE x # t
  <2>1. Len(t) <= 1 /\ x = Extend(t, <<EMPTY>>)
    BY <1>1, <1>5, <1>6, BlankIncluded
  <2>2. t # <<>>
    BY <1>6, <2>1, Zenon DEF Extend
  <2>3. Len(t) = 1
    BY <1>1, <2>1, <2>2
  <2>4. x = t \o <<EMPTY>>
    BY <2>1, <2>2, Zenon DEF Extend
  <2>5. t = s
    <3> SUFFICES ASSUME Len(s) = 1, t = Append(s, EMPTY) PROVE FALSE
      BY <1>2
    <3>1. EMPTY \in Words
      BY DEF Words
    <3>2. Len(t) = Len(s) + 1
      BY <1>1, <3>1, Appended
    <3> QED
      BY <2>3, <3>2
  <2>6. t \o <<EMPTY>> = Append(t, EMPTY)
    <3>1. EMPTY \in Words
      BY DEF Words
    <3> QED
      BY <1>1, <3>1, Appended
  <2> QED
    BY <2>3, <2>4, <2>5, <2>6 DEF x, s
<1>7. CASE x = t
  BY <1>2, <1>7 DEF x, s
<1> QED
  BY <1>6, <1>7

LEMMA FirmUpdate ==
  ASSUME NEW current \in Lines, NEW r \in Requests, Entries(r) \in Seq(Enterable),
         \A k \in 1 .. Len(Entries(r)) : Firm(current, Entries(r)[k])
  PROVE  Almost(current, Update(current, r))
<1> DEFINE E == Entries(r)
           P(b) == /\ Almost(current, b)
                   /\ \A k \in 1 .. Len(E) : Firm(b, E[k])
           S == [m \in Nat |-> {b \in Lines : P(b)}]
<1>1. S \in [Nat -> SUBSET Lines] /\ current \in S[0]
  BY DEF Almost
<1>2. ASSUME NEW m \in Nat, NEW b \in S[m], m + 1 <= Len(E)
      PROVE  Enter(b, E[m + 1]) \in S[m + 1]
  <2> DEFINE e == E[m + 1]
             c == Enter(b, e)
  <2>1. b \in Lines /\ P(b) /\ m + 1 \in 1 .. Len(E) /\ e \in Enterable
    BY <1>2
  <2>2. c \in Lines /\ Extends(b, c)
    BY <2>1, EnterExtends
  <2>3. Almost(current, c)
    BY <2>1, FirmEnter
  <2> HIDE DEF c
  <2>4. ASSUME NEW k \in 1 .. Len(E) PROVE Firm(c, E[k])
    <3>1. Firm(b, E[k])
      BY <2>1
    <3>2. E[k] \in Enterable
      OBVIOUS
    <3>3. E[k].ip \in Addresses /\ E[k].dns \in Seq(Words) \ {<<>>}
      BY <3>2 DEF Enterable
    <3>4. /\ b[E[k].ip] \in Seq(Words) /\ c[E[k].ip] \in Seq(Words)
          /\ Grows(b[E[k].ip], c[E[k].ip])
      BY <2>1, <2>2, <3>3 DEF Lines, Extends
    <3>5. Includes(b[E[k].ip], E[k].dns) => Includes(c[E[k].ip], E[k].dns)
      BY <3>3, <3>4, StaysIncluded
    <3> QED
      BY <3>1, <3>5, Zenon DEF Firm
  <2> QED
    BY <2>2, <2>3, <2>4 DEF c
<1>3. Update(current, r) \in S[Len(E)]
  <2> HIDE DEF S
  <2> QED
    BY <1>1, <1>2, UpdateInduct
<1>4. Len(E) \in Nat
  OBVIOUS
<1> QED
  BY <1>3, <1>4

\* A registration makes its entries hold, and keeps what holds.
LEMMA RepeatsStep ==
  ASSUME TypeInv, Repeats(lines, once, twice), NEW r \in Requests
  PROVE  Repeats(Update(lines, r), once \cup {r},
                 IF r \in once THEN twice \cup {r} ELSE twice)
<1> DEFINE new == Update(lines, r)
           t   == IF r \in once THEN twice \cup {r} ELSE twice
<1>1. lines \in Lines /\ once \subseteq Requests /\ twice \subseteq once
  BY Zenon DEF TypeInv, Repeats
<1>2. \A q \in Requests : Entries(q) \in Seq(Enterable)
  BY EntriesTyped DEF TypeInv
<1>3. \A q \in Requests : \A k \in 1 .. Len(Entries(q)) : Entries(q)[k] \in Enterable
  <2> SUFFICES ASSUME NEW q \in Requests, NEW k \in 1 .. Len(Entries(q))
               PROVE  Entries(q)[k] \in Enterable
    OBVIOUS
  <2>1. Entries(q) \in Seq(Enterable)
    BY <1>2
  <2> QED
    BY <2>1
<1>4. \A k \in 1 .. Len(Entries(r)) : Ready(new, Entries(r)[k])
  BY <1>1, <1>2, UpdateReadies
<1>5. ASSUME \A k \in 1 .. Len(Entries(r)) : Ready(lines, Entries(r)[k])
      PROVE  \A k \in 1 .. Len(Entries(r)) : Settled(new, Entries(r)[k])
  BY <1>1, <1>2, <1>5, UpdateSettles
<1>6. ASSUME NEW q \in once, NEW k \in 1 .. Len(Entries(q))
      PROVE  /\ Ready(new, Entries(q)[k])
             /\ lang = "java" => Settled(new, Entries(q)[k])
  <2>1. /\ Ready(lines, Entries(q)[k]) /\ Entries(q)[k] \in Enterable
        /\ lang = "java" => Settled(lines, Entries(q)[k])
    BY <1>1, <1>3, Zenon DEF Repeats
  <2> QED
    BY <1>1, <1>2, <2>1, UpdateKeepsReady, UpdateKeepsSettled
<1>7. ASSUME NEW q \in twice, NEW k \in 1 .. Len(Entries(q))
      PROVE  Firm(new, Entries(q)[k])
  <2>1. Firm(lines, Entries(q)[k]) /\ Entries(q)[k] \in Enterable
    BY <1>1, <1>3, Zenon DEF Repeats
  <2> QED
    BY <1>1, <1>2, <2>1, UpdateKeepsFirm
<1>8. ASSUME lang = "java", NEW k \in 1 .. Len(Entries(r)) PROVE Settled(new, Entries(r)[k])
  BY <1>5, <1>8, Zenon DEF Ready
<1>9. ASSUME r \in once, NEW k \in 1 .. Len(Entries(r)) PROVE Firm(new, Entries(r)[k])
  <2>1. \A j \in 1 .. Len(Entries(r)) : Ready(lines, Entries(r)[j])
    BY <1>9, Zenon DEF Repeats
  <2>2. Settled(new, Entries(r)[k])
    BY <1>5, <1>9, <2>1
  <2> QED
    BY <2>2, SettledIsFirm
<1> HIDE DEF new
<1>10. ASSUME NEW q \in once \cup {r}, NEW k \in 1 .. Len(Entries(q))
       PROVE  /\ Ready(new, Entries(q)[k])
              /\ lang = "java" => Settled(new, Entries(q)[k])
  BY <1>4, <1>6, <1>8, <1>10, Zenon
<1>11. ASSUME NEW q \in t, NEW k \in 1 .. Len(Entries(q)) PROVE Firm(new, Entries(q)[k])
  <2>1. q \in twice \/ (q = r /\ r \in once)
    BY <1>11
  <2> QED
    BY <1>7, <1>9, <1>11, <2>1, Zenon
<1>12. t \subseteq once \cup {r}
  BY <1>1
<1>13. Repeats(new, once \cup {r}, t)
  BY <1>10, <1>11, <1>12, Zenon DEF Repeats
<1> QED
  BY <1>13 DEF new

LEMMA RepeatsInit == Init => RepeatInv
<1> SUFFICES ASSUME Init PROVE RepeatInv
  OBVIOUS
<1>1. once = {} /\ twice = {}
  BY DEF Init
<1> QED
  BY <1>1, Zenon DEF RepeatInv, Repeats

LEMMA RepeatsNext == TypeInv /\ RepeatInv /\ [Next]_vars => RepeatInv'
<1> SUFFICES ASSUME TypeInv, RepeatInv, [Next]_vars PROVE RepeatInv'
  OBVIOUS
<1>1. lang' = lang
  BY Zenon DEF Next, Register, vars
<1>2. Repeats(lines', once', twice')
  <2>1. CASE UNCHANGED vars
    BY <2>1, Zenon DEF RepeatInv, vars
  <2>2. ASSUME NEW r \in Requests, Register(r) PROVE Repeats(lines', once', twice')
    <3>1. Repeats(Update(lines, r), once \cup {r},
                  IF r \in once THEN twice \cup {r} ELSE twice)
      BY RepeatsStep DEF RepeatInv
    <3> QED
      BY <2>2, <3>1, Zenon DEF Register
  <2> QED
    BY <2>1, <2>2 DEF Next
<1>3. ASSUME NEW r PROVE Entries(r)' = Entries(r)
  BY <1>1 DEF Entries
<1>4. ASSUME NEW e PROVE Ready(lines, e)' <=> Ready(lines', e)
  BY <1>1 DEF Ready
<1>5. ASSUME NEW e PROVE Settled(lines, e)' <=> Settled(lines', e)
  BY <1>1 DEF Settled, Includes
<1>6. ASSUME NEW e PROVE Firm(lines, e)' <=> Firm(lines', e)
  BY <1>1 DEF Firm, Includes
<1> QED
  BY <1>1, <1>2, <1>3, <1>4, <1>5, <1>6, Zenon DEF RepeatInv, Repeats

\* What has been registered twice is not entered again, but for the blank that the
\* empty entry adds to a line of one word; in Java, what has been registered once.
THEOREM SecondSettles == Spec => []RepeatsSettle
<1>1. TypeInv /\ RepeatInv => RepeatsSettle
  <2> SUFFICES ASSUME TypeInv, RepeatInv PROVE RepeatsSettle
    OBVIOUS
  <2>1. once \subseteq Requests /\ twice \subseteq once /\ lines \in Lines
    BY Zenon DEF TypeInv, RepeatInv, Repeats
  <2>2. \A r \in Requests : Entries(r) \in Seq(Enterable)
    BY EntriesTyped DEF TypeInv
  <2>3. ASSUME NEW r \in twice PROVE Almost(lines, Update(lines, r))
    <3>1. \A k \in 1 .. Len(Entries(r)) : Firm(lines, Entries(r)[k])
      BY Zenon DEF RepeatInv, Repeats
    <3> QED
      BY <2>1, <2>2, <3>1, FirmUpdate
  <2>4. ASSUME lang = "java", NEW r \in once PROVE Update(lines, r) = lines
    <3>1. \A k \in 1 .. Len(Entries(r)) : Settled(lines, Entries(r)[k])
      BY <2>4, Zenon DEF RepeatInv, Repeats
    <3> QED
      BY <2>1, <2>2, <3>1, UpdateSettled
  <2> QED
    BY <2>3, <2>4, Zenon DEF RepeatsSettle, Almost
<1> QED
  BY TypeInit, TypeNext, RepeatsInit, RepeatsNext, <1>1, PTL DEF Spec

================================================================================
