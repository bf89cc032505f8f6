-------------------------- MODULE RaftConsentersProofs --------------------------
(***************************************************************************)
(* Proofs about the Raft scripts, for any hosts, orderers, operations,     *)
(* runs and faults:                                                        *)
(*                                                                         *)
(*   RaftTypes       the configuration and the files keep their types;     *)
(*   UnmixedAtomic   the scripts do not take back each other's changes;    *)
(*   NoneTwice       nor list an orderer twice, unless it was added by the *)
(*                   scripts that append only;                             *)
(*   StaysAligned    where nothing interferes with a removal, the two      *)
(*                   lists keep the same order;                            *)
(*                                                                         *)
(* the last three unless a file of an earlier script is mixed into an      *)
(* update after a failed command.                                          *)
(*                                                                         *)
(* The argument: an update says from which versions of its two parts it    *)
(* was computed.  As long as nothing is mixed in, it is one operation      *)
(* applied to the configuration that had those versions, and a part that   *)
(* still has its version has not changed since.                            *)
(***************************************************************************)
EXTENDS RaftConsenters, WellFoundedInduction, TLAPS

-------------------------------------------------------------------------------
(* Numbers.                                                                *)

\* A set of numbers has a least one.
LEMMA Least ==
  ASSUME NEW X, X \subseteq Nat, X # {}
  PROVE  \E m \in X : \A k \in X : m <= k
<1>1. \E m \in X : \A k \in X : ~ (<<k, m>> \in OpToRel(<,Nat))
  BY NatLessThanWellFounded, WFMin
<1>2. ASSUME NEW m \in X, \A k \in X : ~ (<<k, m>> \in OpToRel(<,Nat))
      PROVE  \A k \in X : m <= k
  <2>1. \A k \in X : ~(k < m)
    BY <1>2 DEF OpToRel
  <2> QED
    BY <2>1
<1> QED
  BY <1>1, <1>2

\* What holds for 0 and goes on from a number to the next one holds for all.
LEMMA Induct ==
  ASSUME NEW S, 0 \in S, \A n \in Nat : n \in S => n + 1 \in S
  PROVE  Nat \subseteq S
<1> SUFFICES ASSUME ~(Nat \subseteq S) PROVE FALSE
  OBVIOUS
<1> DEFINE X == Nat \ S
<1>1. PICK m \in X : \A k \in X : m <= k
  BY Least
<1>2. m # 0 /\ m - 1 \in Nat /\ m - 1 \notin X
  BY <1>1
<1> QED
  BY <1>1, <1>2

-------------------------------------------------------------------------------
(* What a filter leaves of a sequence.                                     *)

\* k[n] is what a filter has kept of the first n elements, up to m.
IsKept(k, s, gone, m) ==
  /\ k[0] = <<>>
  /\ \A n \in Nat : n < m =>
       k[n + 1] = IF s[n + 1] \in gone THEN k[n] ELSE Append(k[n], s[n + 1])

\* There is such a function,
LEMMA KeptExists ==
  ASSUME NEW T, NEW s \in Seq(T), NEW gone
  PROVE  \E k \in [0 .. Len(s) -> Seq(T)] : IsKept(k, s, gone, Len(s))
<1> DEFINE P(m) == \E k \in [0 .. m -> Seq(T)] : IsKept(k, s, gone, m)
<1> DEFINE S == {m \in Nat : m <= Len(s) => P(m)}
<1>1. 0 \in S
  <2>1. [n \in 0 .. 0 |-> <<>>] \in [0 .. 0 -> Seq(T)]
    OBVIOUS
  <2>2. IsKept([n \in 0 .. 0 |-> <<>>], s, gone, 0)
    BY DEF IsKept
  <2> QED
    BY <2>1, <2>2
<1>2. ASSUME NEW m \in Nat, m \in S PROVE m + 1 \in S
  <2> SUFFICES ASSUME m + 1 <= Len(s) PROVE P(m + 1)
    OBVIOUS
  <2>1. PICK k \in [0 .. m -> Seq(T)] : IsKept(k, s, gone, m)
    BY <1>2
  <2> DEFINE next == IF s[m + 1] \in gone THEN k[m] ELSE Append(k[m], s[m + 1])
             l == [n \in 0 .. m + 1 |-> IF n = m + 1 THEN next ELSE k[n]]
  <2>2. next \in Seq(T)
    OBVIOUS
  <2>3. l \in [0 .. m + 1 -> Seq(T)]
    <3> HIDE DEF next
    <3> QED
      BY <2>2
  <2>4. l[m + 1] = next /\ \A n \in 0 .. m : l[n] = k[n]
    <3> HIDE DEF next
    <3> QED
      OBVIOUS
  <2>5. IsKept(l, s, gone, m + 1)
    <3> HIDE DEF l
    <3>1. l[0] = <<>>
      BY <2>1, <2>4 DEF IsKept
    <3>2. ASSUME NEW n \in Nat, n < m + 1
          PROVE  l[n + 1] = IF s[n + 1] \in gone THEN l[n] ELSE Append(l[n], s[n + 1])
      <4>1. CASE n = m
        BY <4>1, <2>4
      <4>2. CASE n < m
        <5>1. n \in 0 .. m /\ n + 1 \in 0 .. m
          BY <4>2
        <5> QED
          BY <4>2, <5>1, <2>1, <2>4 DEF IsKept
      <4> QED
        BY <4>1, <4>2, <3>2
    <3> QED
      BY <3>1, <3>2 DEF IsKept
  <2> QED
    BY <2>3, <2>5
<1>3. Nat \subseteq S
  <2> HIDE DEF S
  <2> QED
    BY <1>1, <1>2, Induct
<1> QED
  BY <1>3

\* and the one the model defines is one.
LEMMA KeptIsKept ==
  ASSUME NEW T, NEW s \in Seq(T), NEW gone
  PROVE  IsKept(R!Kept(s, gone), s, gone, Len(s))
<1> DEFINE F(k) == [n \in 0 .. Len(s) |-> IF n = 0 THEN <<>>
             ELSE IF s[n] \in gone THEN k[n - 1] ELSE Append(k[n - 1], s[n])]
<1>1. PICK k \in [0 .. Len(s) -> Seq(T)] : IsKept(k, s, gone, Len(s))
  BY KeptExists
<1>2. k = F(k)
  <2> SUFFICES ASSUME NEW n \in 0 .. Len(s) PROVE k[n] = F(k)[n]
    BY <1>1
  <2>1. CASE n = 0
    BY <2>1, <1>1 DEF IsKept
  <2>2. CASE n # 0
    <3>1. n - 1 \in Nat /\ n - 1 < Len(s) /\ (n - 1) + 1 = n
      BY <2>2
    <3>2. k[n] = IF s[n] \in gone THEN k[n - 1] ELSE Append(k[n - 1], s[n])
      BY <1>1, <3>1 DEF IsKept
    <3> QED
      BY <3>2, <2>2
  <2> QED
    BY <2>1, <2>2
<1>3. R!Kept(s, gone) = CHOOSE j : j = F(j)
  BY DEF R!Kept
<1>4. R!Kept(s, gone) = F(R!Kept(s, gone))
  BY <1>2, <1>3
<1> DEFINE j == R!Kept(s, gone)
<1>5. j = F(j)
  BY <1>4
<1> HIDE DEF j
<1>6. j[0] = <<>>
  BY <1>5
<1>7. ASSUME NEW n \in Nat, n < Len(s)
      PROVE  j[n + 1] = IF s[n + 1] \in gone THEN j[n] ELSE Append(j[n], s[n + 1])
  <2>1. n + 1 \in 0 .. Len(s) /\ n + 1 # 0 /\ (n + 1) - 1 = n
    BY <1>7
  <2>2. j[n + 1] = F(j)[n + 1]
    BY <1>5
  <2> QED
    BY <2>1, <2>2
<1> QED
  BY <1>6, <1>7 DEF IsKept, j

\* What the filter has kept of the first m elements: those that are not gone, each
\* from a place of its own.
KeptWell(t, T, s, gone, m) ==
  /\ t \in Seq(T)
  /\ \A i \in 1 .. Len(t) : t[i] \notin gone
  /\ \E f \in [1 .. Len(t) -> 1 .. m] :
       \A i, j \in 1 .. Len(t) : t[i] = s[f[i]] /\ (f[i] = f[j] => i = j)

\* One more element.
LEMMA KeptStep ==
  ASSUME NEW T, NEW s \in Seq(T), NEW gone, NEW m \in Nat, m + 1 <= Len(s), NEW t,
         KeptWell(t, T, s, gone, m)
  PROVE  KeptWell(IF s[m + 1] \in gone THEN t ELSE Append(t, s[m + 1]), T, s, gone, m + 1)
<1>1. PICK f \in [1 .. Len(t) -> 1 .. m] :
        \A i, j \in 1 .. Len(t) : t[i] = s[f[i]] /\ (f[i] = f[j] => i = j)
  BY DEF KeptWell
<1>2. CASE s[m + 1] \in gone
  <2>1. f \in [1 .. Len(t) -> 1 .. m + 1]
    OBVIOUS
  <2>2. t \in Seq(T) /\ \A i \in 1 .. Len(t) : t[i] \notin gone
    BY DEF KeptWell
  <2>3. \E h \in [1 .. Len(t) -> 1 .. m + 1] :
          \A i, j \in 1 .. Len(t) : t[i] = s[h[i]] /\ (h[i] = h[j] => i = j)
    BY <1>1, <2>1, Zenon
  <2>4. KeptWell(t, T, s, gone, m + 1)
    BY <2>2, <2>3, Zenon DEF KeptWell
  <2> QED
    BY <1>2, <2>4
<1>3. CASE s[m + 1] \notin gone
  <2> DEFINE u == Append(t, s[m + 1])
             g == [i \in 1 .. Len(t) + 1 |-> IF i = Len(t) + 1 THEN m + 1 ELSE f[i]]
  <2>1. /\ u \in Seq(T) /\ Len(u) = Len(t) + 1 /\ u[Len(t) + 1] = s[m + 1]
        /\ \A i \in 1 .. Len(t) : u[i] = t[i]
    BY DEF KeptWell
  <2>2. ASSUME NEW i \in 1 .. Len(u) PROVE u[i] \notin gone
    <3> HIDE DEF u, g
    <3>1. i = Len(t) + 1 \/ i \in 1 .. Len(t)
      BY <2>1
    <3>2. \A k \in 1 .. Len(t) : t[k] \notin gone
      BY DEF KeptWell
    <3> QED
      BY <1>3, <2>1, <3>1, <3>2
  <2>4. g \in [1 .. Len(u) -> 1 .. m + 1]
    <3> HIDE DEF u
    <3> QED
      BY <2>1
  <2>5. ASSUME NEW i \in 1 .. Len(u), NEW j \in 1 .. Len(u)
        PROVE  u[i] = s[g[i]] /\ (g[i] = g[j] => i = j)
    <3> HIDE DEF u
    <3>1. \A n \in 1 .. Len(u) : n = Len(t) + 1 \/ n \in 1 .. Len(t)
      BY <2>1
    <3>2. g[Len(t) + 1] = m + 1 /\ \A n \in 1 .. Len(t) : g[n] = f[n] /\ f[n] # m + 1
      OBVIOUS
    <3> HIDE DEF g
    <3> QED
      BY <1>1, <2>1, <3>1, <3>2
  <2>6. \E h \in [1 .. Len(u) -> 1 .. m + 1] :
          \A i, j \in 1 .. Len(u) : u[i] = s[h[i]] /\ (h[i] = h[j] => i = j)
    <3> HIDE DEF u, g
    <3> QED
      BY <2>4, <2>5
  <2>8. KeptWell(u, T, s, gone, m + 1)
    <3> HIDE DEF u, g
    <3> QED
      BY <2>1, <2>2, <2>6 DEF KeptWell
  <2> QED
    BY <1>3, <2>8
<1> QED
  BY <1>2, <1>3

\* All elements.
LEMMA FilterWell ==
  ASSUME NEW T, NEW s \in Seq(T), NEW gone
  PROVE  KeptWell(R!Filter(s, gone), T, s, gone, Len(s))
<1> DEFINE k == R!Kept(s, gone)
           S == {m \in Nat : m <= Len(s) => KeptWell(k[m], T, s, gone, m)}
<1> HIDE DEF k
<1>1. 0 \in S
  <2>1. k[0] = <<>>
    BY KeptIsKept DEF IsKept, k
  <2>2. [i \in 1 .. 0 |-> 1] \in [1 .. 0 -> 1 .. 0]
    OBVIOUS
  <2>3. \A i \in 1 .. Len(<<>>) : FALSE
    OBVIOUS
  <2>4. \E f \in [1 .. Len(<<>>) -> 1 .. 0] :
          \A i, j \in 1 .. Len(<<>>) : <<>>[i] = s[f[i]] /\ (f[i] = f[j] => i = j)
    <3>1. Len(<<>>) = 0
      OBVIOUS
    <3> QED
      BY <2>2, <2>3, <3>1
  <2>5. <<>> \in Seq(T)
    OBVIOUS
  <2>6. KeptWell(<<>>, T, s, gone, 0)
    BY <2>3, <2>4, <2>5, Zenon DEF KeptWell
  <2> QED
    BY <2>1, <2>6
<1>2. ASSUME NEW m \in Nat, m \in S PROVE m + 1 \in S
  <2> SUFFICES ASSUME m + 1 <= Len(s) PROVE KeptWell(k[m + 1], T, s, gone, m + 1)
    OBVIOUS
  <2>1. KeptWell(k[m], T, s, gone, m)
    BY <1>2
  <2>2. k[m + 1] = IF s[m + 1] \in gone THEN k[m] ELSE Append(k[m], s[m + 1])
    BY KeptIsKept DEF IsKept, k
  <2> QED
    BY <2>1, <2>2, KeptStep
<1>3. Nat \subseteq S
  <2> HIDE DEF S
  <2> QED
    BY <1>1, <1>2, Induct
<1> QED
  BY <1>3 DEF R!Filter, k

-------------------------------------------------------------------------------
(* The lists.                                                              *)

\* Taking hosts out of a list.
LEMMA WithoutWell ==
  ASSUME NEW T, NEW list \in Seq(T), NEW hosts
  PROVE  /\ R!Without(list, hosts) \in Seq(T)
         /\ \A i \in DOMAIN R!Without(list, hosts) : R!Without(list, hosts)[i] \notin hosts
         /\ \A h : Once(h, list) => Once(h, R!Without(list, hosts))
<1> DEFINE s == R!Without(list, hosts)
<1>1. KeptWell(s, T, list, hosts, Len(list))
  BY FilterWell, Zenon DEF R!Without
<1> HIDE DEF s
<1>2. s \in Seq(T) /\ \A i \in 1 .. Len(s) : s[i] \notin hosts
  BY <1>1 DEF KeptWell
<1>3. DOMAIN s = 1 .. Len(s) /\ DOMAIN list = 1 .. Len(list)
  BY <1>2
<1>4. PICK f \in [1 .. Len(s) -> 1 .. Len(list)] :
        \A i, j \in 1 .. Len(s) : s[i] = list[f[i]] /\ (f[i] = f[j] => i = j)
  BY <1>1 DEF KeptWell
<1>5. ASSUME NEW h, Once(h, list) PROVE Once(h, s)
  <2> SUFFICES ASSUME NEW i \in 1 .. Len(s), NEW j \in 1 .. Len(s), s[i] = h, s[j] = h
               PROVE  i = j
    BY <1>3 DEF Once
  <2>1. f[i] \in DOMAIN list /\ f[j] \in DOMAIN list /\ list[f[i]] = h /\ list[f[j]] = h
    BY <1>3, <1>4
  <2>2. f[i] = f[j]
    BY <2>1, <1>5, Zenon DEF Once
  <2> QED
    BY <1>4, <2>2
<1> QED
  BY <1>2, <1>3, <1>5 DEF s

\* Taking out the entry of an index.
LEMMA WithoutIndexWell ==
  ASSUME NEW T, NEW list \in Seq(T), NEW i
  PROVE  /\ R!WithoutIndex(list, i) \in Seq(T)
         /\ \A h : Once(h, list) => Once(h, R!WithoutIndex(list, i))
<1>1. CASE i \notin DOMAIN list
  BY <1>1 DEF R!WithoutIndex
<1>2. CASE i \in DOMAIN list
  <2> DEFINE a == SubSeq(list, 1, i - 1)
             b == SubSeq(list, i + 1, Len(list))
             s == R!WithoutIndex(list, i)
  <2>1. s = a \o b
    BY <1>2 DEF R!WithoutIndex, RemoveAt, R!RemoveAt
  <2>2. i \in 1 .. Len(list) /\ Len(list) \in Nat
    BY <1>2
  <2>3. /\ a \in Seq(T) /\ Len(a) = i - 1 /\ \A k \in 1 .. i - 1 : a[k] = list[k]
    BY <2>2
  <2>4. /\ b \in Seq(T) /\ Len(b) = Len(list) - i
        /\ \A k \in 1 .. Len(list) - i : b[k] = list[i + k]
    BY <2>2
  <2> HIDE DEF a, b, s
  <2>5. s \in Seq(T) /\ Len(s) = Len(list) - 1
    BY <2>1, <2>2, <2>3, <2>4
  <2>6. \A k \in 1 .. Len(s) : s[k] = IF k < i THEN list[k] ELSE list[k + 1]
    <3> SUFFICES ASSUME NEW k \in 1 .. Len(s)
                 PROVE  s[k] = IF k < i THEN list[k] ELSE list[k + 1]
      OBVIOUS
    <3>1. CASE k < i
      <4>1. k \in 1 .. Len(a)
        BY <2>2, <2>3, <3>1
      <4> QED
        BY <2>1, <2>3, <2>4, <3>1, <4>1
    <3>2. CASE ~(k < i)
      <4>1. k - Len(a) \in 1 .. Len(b) /\ ~(k \in 1 .. Len(a))
        BY <2>2, <2>3, <2>4, <2>5, <3>2
      <4>2. s[k] = b[k - Len(a)]
        BY <2>1, <2>3, <2>4, <4>1
      <4>3. b[k - Len(a)] = list[i + (k - Len(a))] /\ i + (k - Len(a)) = k + 1
        BY <2>2, <2>3, <2>4, <4>1
      <4> QED
        BY <3>2, <4>2, <4>3
    <3> QED
      BY <3>1, <3>2
  <2>7. ASSUME NEW h, Once(h, list) PROVE Once(h, s)
    <3> SUFFICES ASSUME NEW k \in 1 .. Len(s), NEW l \in 1 .. Len(s), s[k] = h, s[l] = h
                 PROVE  k = l
      BY <2>5 DEF Once
    <3> DEFINE m(n) == IF n < i THEN n ELSE n + 1
    <3>1. /\ m(k) \in DOMAIN list /\ m(l) \in DOMAIN list
          /\ list[m(k)] = h /\ list[m(l)] = h
      BY <2>2, <2>5, <2>6
    <3>2. m(k) = m(l)
      <4> HIDE DEF m
      <4> QED
        BY <3>1, <2>7 DEF Once
    <3> QED
      BY <3>2, <2>2
  <2> QED
    BY <2>5, <2>7 DEF s
<1> QED
  BY <1>1, <1>2

\* Appending to a list that does not have the host.
LEMMA AppendWell ==
  ASSUME NEW T, NEW list \in Seq(T), NEW h \in T
  PROVE  /\ Append(list, h) \in Seq(T)
         /\ \A g : Once(g, list) /\ (g = h => \A i \in DOMAIN list : list[i] # h)
                     => Once(g, Append(list, h))
<1> DEFINE s == Append(list, h)
<1>1. s \in Seq(T) /\ Len(s) = Len(list) + 1 /\ s[Len(list) + 1] = h
      /\ \A i \in 1 .. Len(list) : s[i] = list[i]
  OBVIOUS
<1>2. DOMAIN list = 1 .. Len(list) /\ Len(list) \in Nat
  OBVIOUS
<1> HIDE DEF s
<1>3. ASSUME NEW g, Once(g, list), g = h => \A i \in DOMAIN list : list[i] # h
      PROVE  Once(g, s)
  <2> SUFFICES ASSUME NEW i \in 1 .. Len(s), NEW j \in 1 .. Len(s), s[i] = g, s[j] = g
               PROVE  i = j
    BY <1>1 DEF Once
  <2>1. \A k \in 1 .. Len(s) : k = Len(list) + 1 \/ k \in 1 .. Len(list)
    BY <1>1, <1>2
  <2>2. CASE g = h
    BY <1>1, <1>2, <1>3, <2>1, <2>2
  <2>3. CASE g # h
    <3>1. i \in DOMAIN list /\ j \in DOMAIN list /\ list[i] = g /\ list[j] = g
      BY <1>1, <1>2, <2>1, <2>3
    <3> QED
      BY <3>1, <1>3 DEF Once
  <2> QED
    BY <2>2, <2>3
<1> QED
  BY <1>1, <1>3 DEF s

-------------------------------------------------------------------------------
(* Configurations and files.                                               *)

HasParts(c) == c = [msps |-> c.msps, consenters |-> c.consenters, addresses |-> c.addresses]

\* A configuration has its parts, and is not one of the other things a file can hold.
LEMMA ConfigParts ==
  ASSUME NEW c \in Configs
  PROVE  /\ HasParts(c) /\ IsConfig(c)
         /\ c.msps \in SUBSET Hosts /\ c.consenters \in Seq(Hosts)
         /\ c.addresses \in Seq(Hosts)
<1>1. HasParts(c) /\ c.msps \in SUBSET Hosts /\ c.consenters \in Seq(Hosts)
      /\ c.addresses \in Seq(Hosts)
  BY DEF Configs, HasParts
<1>2. IsConfig(c)
  BY FilesAssumption DEF IsConfig
<1> QED
  BY <1>1, <1>2

LEMMA MakeConfig ==
  ASSUME NEW m \in SUBSET Hosts, NEW c \in Seq(Hosts), NEW a \in Seq(Hosts)
  PROVE  [msps |-> m, consenters |-> c, addresses |-> a] \in Configs
BY DEF Configs

\* The host of an operation.
LEMMA HostKnown ==
  ASSUME NEW o \in Ops, o.kind \notin {"dropAddress", "dropConsenter"}
  PROVE  o.host \in Hosts /\ o.host \in Alike(o.host)
<1>1. "host" \in DOMAIN o /\ o.host \in Alike(o.host)
  BY OpsAssumption
<1> QED
  BY <1>1 DEF Hosts

\* An operation makes a configuration of a configuration.
LEMMA AfterIn ==
  ASSUME NEW o \in Ops, NEW c \in Configs
  PROVE  R!After(o, c) \in Configs
<1>1. HasParts(c) /\ c.msps \in SUBSET Hosts /\ c.consenters \in Seq(Hosts)
      /\ c.addresses \in Seq(Hosts)
  BY ConfigParts
<1>2. o.kind \in Kinds
  BY OpsAssumption
<1>3. CASE o.kind \in {"dropAddress", "dropConsenter"}
  <2>1. /\ R!WithoutIndex(c.addresses, o.index) \in Seq(Hosts)
        /\ R!WithoutIndex(c.consenters, o.index) \in Seq(Hosts)
    BY <1>1, WithoutIndexWell
  <2>2. CASE o.kind = "dropAddress"
    <3>1. R!After(o, c) = [msps |-> c.msps, consenters |-> c.consenters,
                           addresses |-> R!WithoutIndex(c.addresses, o.index)]
      BY <1>1, <2>2 DEF R!After, HasParts
    <3> QED
      BY <1>1, <2>1, <3>1, MakeConfig
  <2>3. CASE o.kind = "dropConsenter"
    <3>1. R!After(o, c) = [msps |-> c.msps, addresses |-> c.addresses,
                           consenters |-> R!WithoutIndex(c.consenters, o.index)]
      BY <1>1, <2>3 DEF R!After, HasParts
    <3> QED
      BY <1>1, <2>1, <3>1 DEF Configs
  <2> QED
    BY <1>3, <2>2, <2>3
<1>4. CASE o.kind \notin {"dropAddress", "dropConsenter"}
  <2>1. o.host \in Hosts
    BY <1>4, HostKnown
  <2> DEFINE h == o.host
  <2>2. /\ R!Without(c.consenters, {h}) \in Seq(Hosts)
        /\ R!Without(c.addresses, Alike(h)) \in Seq(Hosts)
    BY <1>1, WithoutWell
  <2>3. /\ c.msps \cup {h} \in SUBSET Hosts
        /\ Append(c.consenters, h) \in Seq(Hosts) /\ Append(c.addresses, h) \in Seq(Hosts)
        /\ Append(R!Without(c.consenters, {h}), h) \in Seq(Hosts)
        /\ Append(R!Without(c.addresses, Alike(h)), h) \in Seq(Hosts)
    BY <1>1, <2>1, <2>2
  <2>4. CASE o.kind = "full"
    <3>1. R!After(o, c) =
            [msps |-> c.msps \cup {h},
             consenters |-> Append(R!Without(c.consenters, {h}), h),
             addresses |-> Append(R!Without(c.addresses, Alike(h)), h)]
      BY <2>4 DEF R!After
    <3> QED
      BY <2>3, <3>1, MakeConfig
  <2>5. CASE o.kind \in {"msp", "consenter", "endpoint"}
    <3>1. R!After(o, c) =
            [msps |-> IF o.kind = "msp" THEN c.msps \cup {h} ELSE c.msps,
             consenters |-> IF o.kind = "consenter" THEN Append(c.consenters, h)
                            ELSE c.consenters,
             addresses |-> IF o.kind = "endpoint" THEN Append(c.addresses, h)
                           ELSE c.addresses]
      BY <1>1, <2>5 DEF R!After, HasParts
    <3> QED
      BY <1>1, <2>3, <3>1, MakeConfig
  <2> QED
    BY <1>2, <1>4, <2>4, <2>5 DEF Kinds
<1> QED
  BY <1>3, <1>4

\* What an operation makes of a part depends on that part only.
LEMMA AfterParts ==
  ASSUME NEW o, o.kind \in Kinds, NEW c, NEW d, HasParts(c), HasParts(d)
  PROVE  /\ R!SameGroup(c, d) => R!SameGroup(R!After(o, c), R!After(o, d))
         /\ c.addresses = d.addresses => R!After(o, c).addresses = R!After(o, d).addresses
<1>1. CASE o.kind = "full"
  BY <1>1 DEF R!After, R!SameGroup
<1>2. CASE o.kind = "msp"
  BY <1>2 DEF R!After, R!SameGroup, HasParts
<1>3. CASE o.kind = "consenter"
  BY <1>3 DEF R!After, R!SameGroup, HasParts
<1>4. CASE o.kind = "endpoint"
  BY <1>4 DEF R!After, R!SameGroup, HasParts
<1>5. CASE o.kind = "dropAddress"
  BY <1>5 DEF R!After, R!SameGroup, HasParts
<1>6. CASE o.kind = "dropConsenter"
  BY <1>6 DEF R!After, R!SameGroup, HasParts
<1> QED
  BY <1>1, <1>2, <1>3, <1>4, <1>5, <1>6 DEF Kinds

\* An operation lists no host once more but the one that a plain script appends.
LEMMA AfterOnce ==
  ASSUME NEW o \in Ops, NEW c \in Configs, NEW h,
         o.kind \in {"consenter", "endpoint"} => o.host # h
  PROVE  /\ Once(h, c.consenters) => Once(h, R!After(o, c).consenters)
         /\ Once(h, c.addresses) => Once(h, R!After(o, c).addresses)
<1>1. HasParts(c) /\ c.consenters \in Seq(Hosts) /\ c.addresses \in Seq(Hosts)
  BY ConfigParts
<1>2. o.kind \in Kinds
  BY OpsAssumption
<1>3. CASE o.kind = "full"
  <2> DEFINE cons == R!Without(c.consenters, {o.host})
             addrs == R!Without(c.addresses, Alike(o.host))
  <2>1. o.host \in Hosts /\ o.host \in Alike(o.host)
    BY <1>3, HostKnown
  <2>2. /\ cons \in Seq(Hosts) /\ \A i \in DOMAIN cons : cons[i] # o.host
        /\ Once(h, c.consenters) => Once(h, cons)
    <3>1. cons \in Seq(Hosts) /\ (\A i \in DOMAIN cons : cons[i] \notin {o.host})
          /\ (Once(h, c.consenters) => Once(h, cons))
      BY <1>1, WithoutWell, Zenon
    <3> HIDE DEF cons
    <3> QED
      BY <3>1
  <2>3. /\ addrs \in Seq(Hosts) /\ \A i \in DOMAIN addrs : addrs[i] # o.host
        /\ Once(h, c.addresses) => Once(h, addrs)
    <3>1. addrs \in Seq(Hosts) /\ (\A i \in DOMAIN addrs : addrs[i] \notin Alike(o.host))
          /\ (Once(h, c.addresses) => Once(h, addrs))
      BY <1>1, WithoutWell, Zenon
    <3> HIDE DEF addrs
    <3> QED
      BY <2>1, <3>1, Zenon
  <2>4. /\ R!After(o, c).consenters = Append(cons, o.host)
        /\ R!After(o, c).addresses = Append(addrs, o.host)
    BY <1>3 DEF R!After
  <2> HIDE DEF cons, addrs
  <2>5. Once(h, cons) => Once(h, Append(cons, o.host))
    BY <2>1, <2>2, AppendWell, Zenon
  <2>6. Once(h, addrs) => Once(h, Append(addrs, o.host))
    BY <2>1, <2>3, AppendWell, Zenon
  <2> QED
    BY <2>2, <2>3, <2>4, <2>5, <2>6
<1>4. CASE o.kind = "msp"
  BY <1>1, <1>4 DEF R!After, HasParts
<1>5. CASE o.kind = "consenter"
  <2>1. o.host \in Hosts /\ o.host # h
    BY <1>5, HostKnown
  <2>2. /\ R!After(o, c).consenters = Append(c.consenters, o.host)
        /\ R!After(o, c).addresses = c.addresses
    BY <1>1, <1>5 DEF R!After, HasParts
  <2>3. Once(h, c.consenters) => Once(h, Append(c.consenters, o.host))
    BY <1>1, <2>1, AppendWell, Zenon
  <2> QED
    BY <2>2, <2>3
<1>6. CASE o.kind = "endpoint"
  <2>1. o.host \in Hosts /\ o.host # h
    BY <1>6, HostKnown
  <2>2. /\ R!After(o, c).consenters = c.consenters
        /\ R!After(o, c).addresses = Append(c.addresses, o.host)
    BY <1>1, <1>6 DEF R!After, HasParts
  <2>3. Once(h, c.addresses) => Once(h, Append(c.addresses, o.host))
    BY <1>1, <2>1, AppendWell, Zenon
  <2> QED
    BY <2>2, <2>3
<1>7. CASE o.kind = "dropAddress"
  <2>1. /\ R!After(o, c).consenters = c.consenters
        /\ R!After(o, c).addresses = R!WithoutIndex(c.addresses, o.index)
    BY <1>1, <1>7 DEF R!After, HasParts
  <2> QED
    BY <1>1, <2>1, WithoutIndexWell
<1>8. CASE o.kind = "dropConsenter"
  <2>1. /\ R!After(o, c).consenters = R!WithoutIndex(c.consenters, o.index)
        /\ R!After(o, c).addresses = c.addresses
    BY <1>1, <1>8 DEF R!After, HasParts
  <2> QED
    BY <1>1, <2>1, WithoutIndexWell
<1> QED
  BY <1>2, <1>3, <1>4, <1>5, <1>6, <1>7, <1>8 DEF Kinds

\* A full add of a host that no other name ends with leaves the lists equal.
LEMMA AfterAligned ==
  ASSUME NEW o \in Ops, NEW c \in Configs, c.consenters = c.addresses,
         o.kind = "msp" \/ (o.kind = "full" /\ Alike(o.host) = {o.host})
  PROVE  R!After(o, c).consenters = R!After(o, c).addresses
<1>1. HasParts(c)
  BY ConfigParts
<1>2. CASE o.kind = "msp"
  BY <1>1, <1>2 DEF R!After, HasParts
<1>3. CASE o.kind = "full"
  BY <1>3 DEF R!After
<1> QED
  BY <1>2, <1>3

-------------------------------------------------------------------------------
(* The edits.                                                              *)

HasFiles(f) ==
  f = [withMsp |-> f.withMsp, withoutConsenter |-> f.withoutConsenter,
       withoutAddress |-> f.withoutAddress, withConsenter |-> f.withConsenter,
       updated |-> f.updated, update |-> f.update]

Updates == [ver : Versions, from : Configs, to : Configs] \cup {ABSENT}

LEMMA FilesParts ==
  ASSUME NEW f \in Files
  PROVE  /\ HasFiles(f)
         /\ f.withMsp \in Configs \cup NoConfig /\ f.withoutConsenter \in Configs \cup {ABSENT}
         /\ f.withoutAddress \in Configs \cup {ABSENT}
         /\ f.withConsenter \in Configs \cup {ABSENT}
         /\ f.updated \in Configs \cup NoConfig /\ f.update \in Updates
BY DEF Files, HasFiles, Updates

\* Files with one of them written.
LEMMA WriteUpdated ==
  ASSUME NEW f \in Files, NEW u \in Configs \cup NoConfig
  PROVE  LET g == [f EXCEPT !.updated = u]
         IN  g \in Files /\ g.updated = u /\ g.update = f.update
BY DEF Files

LEMMA WriteUpdate ==
  ASSUME NEW f \in Files, NEW x \in Updates
  PROVE  LET g == [f EXCEPT !.update = x]
         IN  g \in Files /\ g.update = x
BY DEF Files, Updates

\* What is no configuration, of the contents of a file.
LEMMA NoConfigs ==
  ASSUME NEW c \in Configs \cup NoConfig, IsConfig(c)
  PROVE  c \in Configs
BY DEF IsConfig

LEMMA InsertedIn ==
  ASSUME NEW c \in Configs \cup NoConfig, NEW h \in Hosts, NEW works \in BOOLEAN
  PROVE  Inserted(c, h, works) \in Configs \cup NoConfig
<1>1. CASE works /\ IsConfig(c)
  <2>1. c \in Configs
    BY <1>1, NoConfigs
  <2>2. HasParts(c) /\ c.msps \in SUBSET Hosts /\ c.consenters \in Seq(Hosts)
        /\ c.addresses \in Seq(Hosts)
    BY <2>1, ConfigParts
  <2>3. Inserted(c, h, works)
          = [msps |-> c.msps \cup {h}, consenters |-> c.consenters, addresses |-> c.addresses]
    BY <1>1, <2>2 DEF Inserted, HasParts
  <2>4. c.msps \cup {h} \in SUBSET Hosts
    BY <2>2
  <2> QED
    BY <2>2, <2>3, <2>4, MakeConfig
<1>2. CASE ~(works /\ IsConfig(c))
  <2>1. Inserted(c, h, works) \in {EMPTY, GARBAGE}
    BY <1>2 DEF Inserted
  <2> QED
    BY <2>1 DEF NoConfig
<1> QED
  BY <1>1, <1>2

\* The commands that leave the earlier output if they fail.
LEMMA FilteredIn ==
  ASSUME NEW c \in Configs \cup NoConfig, NEW S, NEW output \in Configs \cup S,
         NEW list, list \in {"consenters", "addresses"}, NEW hosts, NEW works
  PROVE  Filtered(c, output, list, hosts, works) \in Configs \cup S
<1>1. CASE works /\ IsConfig(c)
  <2>1. c \in Configs
    BY <1>1, NoConfigs
  <2>2. HasParts(c) /\ c.msps \in SUBSET Hosts /\ c.consenters \in Seq(Hosts)
        /\ c.addresses \in Seq(Hosts)
    BY <2>1, ConfigParts
  <2>3. /\ R!Without(c.consenters, hosts) \in Seq(Hosts)
        /\ R!Without(c.addresses, hosts) \in Seq(Hosts)
    BY <2>2, WithoutWell
  <2>4. Filtered(c, output, list, hosts, works) =
          [msps |-> c.msps,
           consenters |-> IF list = "consenters" THEN R!Without(c.consenters, hosts)
                          ELSE c.consenters,
           addresses |-> IF list = "addresses" THEN R!Without(c.addresses, hosts)
                         ELSE c.addresses]
    BY <1>1, <2>2 DEF Filtered, HasParts
  <2> QED
    BY <2>2, <2>3, <2>4, MakeConfig
<1>2. CASE ~(works /\ IsConfig(c))
  BY <1>2 DEF Filtered
<1> QED
  BY <1>1, <1>2

LEMMA MergedIn ==
  ASSUME NEW c \in Configs \cup NoConfig, NEW S, NEW output \in Configs \cup S,
         NEW list, list \in {"consenters", "addresses"}, NEW h \in Hosts, NEW works
  PROVE  Merged(c, output, list, h, works) \in Configs \cup S
<1>1. CASE works /\ IsConfig(c)
  <2>1. c \in Configs
    BY <1>1, NoConfigs
  <2>2. HasParts(c) /\ c.msps \in SUBSET Hosts /\ c.consenters \in Seq(Hosts)
        /\ c.addresses \in Seq(Hosts)
    BY <2>1, ConfigParts
  <2>3. Append(c.consenters, h) \in Seq(Hosts) /\ Append(c.addresses, h) \in Seq(Hosts)
    BY <2>2
  <2>4. Merged(c, output, list, h, works) =
          [msps |-> c.msps,
           consenters |-> IF list = "consenters" THEN Append(c.consenters, h)
                          ELSE c.consenters,
           addresses |-> IF list = "addresses" THEN Append(c.addresses, h)
                         ELSE c.addresses]
    BY <1>1, <2>2 DEF Merged, HasParts
  <2> QED
    BY <2>2, <2>3, <2>4, MakeConfig
<1>2. CASE ~(works /\ IsConfig(c))
  BY <1>2 DEF Merged
<1> QED
  BY <1>1, <1>2

\* An edit keeps the types of the files, and leaves update.json alone.
LEMMA EditKeeps ==
  ASSUME NEW o \in Ops, NEW c \in Configs \cup {EMPTY}, NEW f \in Files, NEW failing
  PROVE  /\ Edit(o, c, f, failing).files \in Files
         /\ Edit(o, c, f, failing).files.update = f.update
         /\ Edit(o, c, f, failing).complete \in BOOLEAN
         /\ Edit(o, c, f, failing).stale \in BOOLEAN
<1>1. c \in Configs \cup NoConfig
  BY DEF NoConfig
<1>2. /\ HasFiles(f)
      /\ f.withMsp \in Configs \cup NoConfig /\ f.withoutConsenter \in Configs \cup {ABSENT}
      /\ f.withoutAddress \in Configs \cup {ABSENT}
      /\ f.withConsenter \in Configs \cup {ABSENT}
      /\ f.updated \in Configs \cup NoConfig /\ f.update \in Updates
  BY FilesParts
<1>3. CASE o.kind = "full"
  <2> DEFINE h        == o.host
             msp      == Inserted(c, h, failing # "insert")
             noCons   == Filtered(msp, f.withoutConsenter, "consenters", {h},
                                  failing # "removeConsenter")
             noAddr   == Filtered(noCons, f.withoutAddress, "addresses", Alike(h),
                                  failing # "removeAddress")
             merged   == failing # "mergeConsenter" /\ IsConfig(noAddr)
             cons     == Merged(noAddr, f.withConsenter, "consenters", h, merged)
             complete == merged /\ failing # "mergeAddress"
             updated  == Merged(cons, f.updated, "addresses", h, complete)
  <2>1. h \in Hosts
    BY <1>3, HostKnown
  <2>2. msp \in Configs \cup NoConfig
    BY <1>1, <2>1, InsertedIn
  <2>3. noCons \in Configs \cup {ABSENT}
    <3> HIDE DEF msp, h
    <3> QED
      BY <1>2, <2>2, FilteredIn
  <2>4. noAddr \in Configs \cup {ABSENT}
    <3>1. noCons \in Configs \cup NoConfig
      BY <2>3 DEF NoConfig
    <3> HIDE DEF noCons, h
    <3> QED
      BY <1>2, <3>1, FilteredIn
  <2>5. cons \in Configs \cup {ABSENT}
    <3>1. noAddr \in Configs \cup NoConfig
      BY <2>4 DEF NoConfig
    <3> HIDE DEF noAddr, merged, h
    <3> QED
      BY <1>2, <2>1, <3>1, MergedIn
  <2>6. updated \in Configs \cup NoConfig
    <3>1. cons \in Configs \cup NoConfig
      BY <2>5 DEF NoConfig
    <3> HIDE DEF cons, complete, h
    <3> QED
      BY <1>2, <2>1, <3>1, MergedIn
  <2>7. Edit(o, c, f, failing) =
          [files    |-> [f EXCEPT !.withMsp = msp, !.withoutConsenter = noCons,
                                  !.withoutAddress = noAddr, !.withConsenter = cons,
                                  !.updated = updated],
           complete |-> complete,
           stale    |-> failing \in {"insert", "removeConsenter", "removeAddress"}]
    BY <1>3 DEF Edit, FullAdd
  <2>8. complete \in BOOLEAN
    OBVIOUS
  <2> HIDE DEF msp, noCons, noAddr, cons, updated, complete
  <2>9. Edit(o, c, f, failing).files \in Files /\ Edit(o, c, f, failing).files.update = f.update
    <3> DEFINE g == [f EXCEPT !.withMsp = msp, !.withoutConsenter = noCons,
                              !.withoutAddress = noAddr, !.withConsenter = cons,
                              !.updated = updated]
    <3>1. g \in Files /\ g.update = f.update
      BY <2>2, <2>3, <2>4, <2>5, <2>6 DEF Files
    <3>2. Edit(o, c, f, failing).files = g
      BY <2>7
    <3> QED
      BY <3>1, <3>2
  <2>10. /\ Edit(o, c, f, failing).complete \in BOOLEAN
         /\ Edit(o, c, f, failing).stale \in BOOLEAN
    BY <2>7, <2>8
  <2> QED
    BY <2>9, <2>10
<1>4. CASE o.kind # "full"
  <2> DEFINE works == failing = "none"
             adds  == o.kind \in {"consenter", "endpoint"}
             made  == IF o.kind = "msp" THEN Inserted(c, o.host, works)
                      ELSE IF works /\ IsConfig(c) THEN R!After(o, c)
                      ELSE IF ~adds THEN EMPTY
                      ELSE IF works THEN GARBAGE ELSE f.updated
  <2>1. made \in Configs \cup NoConfig
    <3>1. CASE o.kind = "msp"
      <4>1. o.host \in Hosts
        BY <3>1, HostKnown
      <4> QED
        BY <1>1, <3>1, <4>1, InsertedIn
    <3>2. CASE o.kind # "msp" /\ works /\ IsConfig(c)
      <4>1. c \in Configs
        BY <1>1, <3>2, NoConfigs
      <4> QED
        BY <3>2, <4>1, AfterIn
    <3>3. CASE o.kind # "msp" /\ ~(works /\ IsConfig(c))
      <4>1. made \in {EMPTY, GARBAGE, f.updated}
        BY <3>3
      <4> HIDE DEF made
      <4> QED
        BY <1>2, <4>1 DEF NoConfig
    <3> QED
      BY <3>1, <3>2, <3>3
  <2>2. Edit(o, c, f, failing) =
          [files |-> [f EXCEPT !.updated = made], complete |-> TRUE,
           stale |-> adds /\ ~works]
    BY <1>4 DEF Edit, OtherEdit
  <2> HIDE DEF made
  <2>3. Edit(o, c, f, failing).files \in Files /\ Edit(o, c, f, failing).files.update = f.update
    <3> DEFINE g == [f EXCEPT !.updated = made]
    <3>1. g \in Files /\ g.update = f.update
      BY <2>1, WriteUpdated
    <3>2. Edit(o, c, f, failing).files = g
      BY <2>2
    <3> QED
      BY <3>1, <3>2
  <2>4. /\ Edit(o, c, f, failing).complete \in BOOLEAN
        /\ Edit(o, c, f, failing).stale \in BOOLEAN
    BY <2>2
  <2> QED
    BY <2>3, <2>4
<1> QED
  BY <1>3, <1>4

\* The chain of commands of a full add, where none has failed, and none has been
\* replaced by the output of an earlier script, does what it should.
LEMMA FullAddDoes ==
  ASSUME NEW h \in Hosts, NEW c \in Configs, NEW f \in Files, NEW failing,
         FullAdd(h, c, f, failing).complete, ~FullAdd(h, c, f, failing).stale
  PROVE  FullAdd(h, c, f, failing).files.updated = R!After([kind |-> "full", host |-> h], c)
<1> DEFINE msp    == [msps |-> c.msps \cup {h}, consenters |-> c.consenters,
                      addresses |-> c.addresses]
           noCons == [msp EXCEPT !.consenters = R!Without(@, {h})]
           noAddr == [noCons EXCEPT !.addresses = R!Without(@, Alike(h))]
           cons   == [noAddr EXCEPT !.consenters = Append(@, h)]
<1>1. /\ failing \notin {"insert", "removeConsenter", "removeAddress"}
      /\ failing # "mergeConsenter" /\ failing # "mergeAddress"
  BY DEF FullAdd
<1>2. IsConfig(c) /\ IsConfig(msp) /\ IsConfig(noCons) /\ IsConfig(noAddr) /\ IsConfig(cons)
  <2>1. HasParts(c) /\ IsConfig(c) /\ c.msps \cup {h} \in SUBSET Hosts
        /\ c.consenters \in Seq(Hosts) /\ c.addresses \in Seq(Hosts)
    BY ConfigParts
  <2>2. msp \in Configs
    BY <2>1, MakeConfig
  <2>3. /\ R!Without(c.consenters, {h}) \in Seq(Hosts)
        /\ R!Without(c.addresses, Alike(h)) \in Seq(Hosts)
    BY <2>1, WithoutWell
  <2>4. /\ noCons = [msp EXCEPT !.consenters = R!Without(c.consenters, {h})]
        /\ noCons \in Configs
    BY <2>2, <2>3 DEF Configs
  <2>5. /\ noAddr = [noCons EXCEPT !.addresses = R!Without(c.addresses, Alike(h))]
        /\ noAddr.consenters = R!Without(c.consenters, {h})
        /\ noAddr \in Configs
    <3>1. noAddr = [noCons EXCEPT !.addresses = R!Without(c.addresses, Alike(h))]
          /\ noAddr.consenters = R!Without(c.consenters, {h})
      OBVIOUS
    <3> HIDE DEF noCons, noAddr
    <3> QED
      BY <2>3, <2>4, <3>1 DEF Configs
  <2>6. cons \in Configs
    <3>1. Append(noAddr.consenters, h) \in Seq(Hosts)
      BY <2>3, <2>5
    <3> HIDE DEF noAddr
    <3> QED
      BY <2>5, <3>1 DEF Configs
  <2> HIDE DEF msp, noCons, noAddr, cons
  <2> QED
    BY <2>1, <2>2, <2>4, <2>5, <2>6, ConfigParts
<1>3. Inserted(c, h, TRUE) = msp
  <2>1. HasParts(c)
    BY ConfigParts
  <2> QED
    BY <1>2, <2>1 DEF Inserted, HasParts
<1>4. Filtered(msp, f.withoutConsenter, "consenters", {h}, TRUE) = noCons
  BY <1>2 DEF Filtered
<1>5. Filtered(noCons, f.withoutAddress, "addresses", Alike(h), TRUE) = noAddr
  BY <1>2 DEF Filtered
<1>6. Merged(noAddr, f.withConsenter, "consenters", h, TRUE) = cons
  BY <1>2 DEF Merged
<1>7. Merged(cons, f.updated, "addresses", h, TRUE)
        = [cons EXCEPT !.addresses = Append(@, h)]
  BY <1>2 DEF Merged
<1>8. FullAdd(h, c, f, failing).files.updated = [cons EXCEPT !.addresses = Append(@, h)]
  <2>1. /\ (failing # "insert") = TRUE /\ (failing # "removeConsenter") = TRUE
        /\ (failing # "removeAddress") = TRUE
        /\ (failing # "mergeConsenter" /\ IsConfig(noAddr)) = TRUE
        /\ (failing # "mergeConsenter" /\ IsConfig(noAddr) /\ failing # "mergeAddress") = TRUE
    BY <1>1, <1>2
  <2>2. HasFiles(f)
    BY FilesParts
  <2> HIDE DEF msp, noCons, noAddr, cons
  <2> QED
    BY <2>1, <2>2, <1>3, <1>4, <1>5, <1>6, <1>7 DEF FullAdd, HasFiles
<1> QED
  BY <1>8 DEF R!After

\* The same for the other scripts.
LEMMA OtherEditDoes ==
  ASSUME NEW o, o.kind \in Kinds \ {"full"}, NEW c \in Configs, NEW f \in Files, NEW failing,
         IsConfig(OtherEdit(o, c, f, failing).files.updated),
         ~OtherEdit(o, c, f, failing).stale
  PROVE  OtherEdit(o, c, f, failing).files.updated = R!After(o, c)
<1>1. IsConfig(c) /\ HasParts(c) /\ HasFiles(f)
  BY ConfigParts, FilesParts
<1>2. CASE failing = "none"
  BY <1>1, <1>2 DEF OtherEdit, Inserted, R!After, HasFiles, HasParts
<1>3. CASE failing # "none"
  BY <1>1, <1>3 DEF OtherEdit, Inserted, IsConfig, HasFiles, NoConfig
<1> QED
  BY <1>2, <1>3

\* An edit of a configuration, without failures, is the operation.
LEMMA EditDoes ==
  ASSUME NEW o \in Ops, NEW c \in Configs, NEW f \in Files, NEW failing,
         Edit(o, c, f, failing).complete, ~Edit(o, c, f, failing).stale,
         IsConfig(Edit(o, c, f, failing).files.updated)
  PROVE  Edit(o, c, f, failing).files.updated = R!After(o, c)
<1>1. CASE o.kind = "full"
  <2>1. Edit(o, c, f, failing) = FullAdd(o.host, c, f, failing) /\ o.host \in Hosts
    BY <1>1, HostKnown DEF Edit
  <2>2. Edit(o, c, f, failing).files.updated = R!After([kind |-> "full", host |-> o.host], c)
    BY <2>1, FullAddDoes
  <2> QED
    BY <1>1, <2>2 DEF R!After
<1>2. CASE o.kind # "full"
  <2>1. Edit(o, c, f, failing) = OtherEdit(o, c, f, failing) /\ o.kind \in Kinds \ {"full"}
    BY <1>2, OpsAssumption DEF Edit
  <2> QED
    BY <2>1, OtherEditDoes
<1> QED
  BY <1>1, <1>2

\* Hence a new update is one operation on the configuration that was fetched.
LEMMA ComputedRight ==
  ASSUME orderers \in Configs, NEW o \in Ops, NEW c \in {EMPTY, orderers},
         NEW f \in Files, NEW failing,
         Edit(o, c, f, failing).complete, ~Edit(o, c, f, failing).stale,
         Computed(c, Edit(o, c, f, failing).files) # f.update
  PROVE  Computed(c, Edit(o, c, f, failing).files)
           = [ver |-> ver, from |-> orderers, to |-> R!After(o, orderers)]
<1> DEFINE e == Edit(o, c, f, failing)
<1>1. e.files.update = f.update
  BY EditKeeps
<1>2. /\ IsConfig(c) /\ IsConfig(e.files.updated)
      /\ Computed(c, e.files) = [ver |-> ver, from |-> c, to |-> e.files.updated]
  BY <1>1 DEF Computed
<1>3. c = orderers
  BY <1>2 DEF IsConfig, NoConfig
<1>4. e.files.updated = R!After(o, c)
  BY <1>2, <1>3, EditDoes
<1> QED
  BY <1>2, <1>3, <1>4

\* An update has a type, whether it is new or not.
LEMMA ComputedIn ==
  ASSUME orderers \in Configs, ver \in Versions, NEW f \in Files, NEW c \in {EMPTY, orderers}
  PROVE  Computed(c, f) \in Updates
<1>1. f.update \in Updates /\ f.updated \in Configs \cup NoConfig
  BY FilesParts
<1>2. CASE IsConfig(c) /\ IsConfig(f.updated) /\ c # f.updated
  <2>1. c = orderers
    BY <1>2 DEF IsConfig, NoConfig
  <2>2. f.updated \in Configs
    BY <1>1, <1>2, NoConfigs
  <2> QED
    BY <1>2, <2>1, <2>2 DEF Computed, Updates
<1>3. CASE ~(IsConfig(c) /\ IsConfig(f.updated) /\ c # f.updated)
  BY <1>1, <1>3 DEF Computed
<1> QED
  BY <1>2, <1>3

-------------------------------------------------------------------------------
(* The inductive invariant.                                                *)

\* Whoever lists a host by a plain script has said so: p is the set of the hosts.
Asked(o, p) == o.kind \in {"consenter", "endpoint"} => o.host \in p

\* An update is one operation on the configuration it was computed from, and a part
\* of that whose version is the orderer's is what the orderer has.
Right(u, c, v, p) ==
  u # ABSENT =>
    /\ u.ver.group <= v.group /\ u.ver.addresses <= v.addresses
    /\ \E o \in Ops : u.to = R!After(o, u.from) /\ Asked(o, p)
    /\ u.ver.group = v.group => R!SameGroup(u.from, c)
    /\ u.ver.addresses = v.addresses => u.from.addresses = c.addresses

\* What a script submits, or goes on to, was asked for.
Requested == \A w \in Workers : pc[w] # "idle" => op[w] \in Ops

UpdatesRight == mixed \/ \A w \in Workers : Right(files[w].update, orderers, ver, plain)

RaftInv == TypeOK /\ Requested /\ UpdatesRight

\* The invariant holds in the beginning.
LEMMA RaftInit == Init => RaftInv
<1> SUFFICES ASSUME Init PROVE RaftInv
  OBVIOUS
<1>1. /\ orderers \in Configs /\ ver \in Versions
  <2>1. ToSet(Founders) \in SUBSET Hosts
    BY DEF Hosts
  <2>2. Founders \in Seq(Hosts)
    <3> DEFINE S == ToSet(Founders)
    <3>1. Founders \in Seq(S)
      BY FoundersAssumption
    <3> HIDE DEF S
    <3>2. S \in SUBSET Hosts
      BY <2>1 DEF S
    <3>3. /\ Len(Founders) \in Nat /\ Founders = [i \in 1 .. Len(Founders) |-> Founders[i]]
          /\ \A i \in 1 .. Len(Founders) : Founders[i] \in Hosts
      BY <3>1, <3>2
    <3> QED
      BY <3>3
  <2>3. orderers \in Configs
    BY <2>1, <2>2, MakeConfig DEF Init
  <2> QED
    BY <2>3 DEF Init, Versions
<1>2. /\ files \in [Workers -> Files]
      /\ \A w \in Workers : files[w].update = ABSENT
  <2> DEFINE f == [withMsp |-> ABSENT, withoutConsenter |-> ABSENT,
                   withoutAddress |-> ABSENT, withConsenter |-> ABSENT,
                   updated |-> ABSENT, update |-> ABSENT]
  <2>1. f \in Files /\ f.update = ABSENT
    BY DEF Files, NoConfig
  <2>2. files = [w \in Workers |-> f]
    BY DEF Init
  <2> HIDE DEF f
  <2> QED
    BY <2>1, <2>2
<1>3. /\ op \in [Workers -> Ops \cup {ABSENT}] /\ pc \in [Workers -> {"idle", "submit", "second"}]
      /\ \A w \in Workers : pc[w] = "idle"
  BY DEF Init
<1>4. /\ plain \subseteq Hosts /\ fulls \subseteq Hosts
      /\ mixed \in BOOLEAN /\ broken \in BOOLEAN
      /\ runs \in 0 .. MaxRuns /\ faults \in 0 .. MaxFaults /\ lost \in 0 .. MaxLost
  <2>1. /\ plain = {} /\ fulls = {} /\ mixed = FALSE /\ broken = FALSE
        /\ runs = 0 /\ faults = 0 /\ lost = 0
    BY DEF Init
  <2>2. runs \in 0 .. MaxRuns /\ faults \in 0 .. MaxFaults /\ lost \in 0 .. MaxLost
    BY <2>1, BoundsAssumption
  <2>3. mixed \in BOOLEAN /\ broken \in BOOLEAN
    BY <2>1, Zenon
  <2> QED
    BY <2>1, <2>2, <2>3
<1>5. TypeOK
  BY <1>1, <1>2, <1>3, <1>4 DEF TypeOK
<1>6. Requested
  BY <1>3 DEF Requested
<1>7. UpdatesRight
  BY <1>2 DEF UpdatesRight, Right
<1> QED
  BY <1>5, <1>6, <1>7 DEF RaftInv

\* What a script does up to the envelope, one of the two ways it can end.
PrepareEnds(w, o, next, failing) ==
  LET c      == IF failing = "fetch" THEN EMPTY ELSE orderers
      edit   == Edit(o, c, files[w], IF failing = "fetch" THEN "none" ELSE failing)
      update == Computed(c, edit.files)
  IN
  \/ /\ edit.complete
     /\ files' = [files EXCEPT ![w] = [edit.files EXCEPT !.update = update]]
     /\ pc' = [pc EXCEPT ![w] = "submit"]
     /\ mixed' = (mixed \/ (edit.stale /\ update # files[w].update))
  \/ /\ files' = [files EXCEPT ![w] = edit.files]
     /\ pc' = [pc EXCEPT ![w] = next]
     /\ mixed' = mixed

\* The files it leaves: its own, with an update that is the earlier one, or that of
\* the operation unless something is mixed in.
LEMMA PrepareWrites ==
  ASSUME TypeOK, NEW w \in Workers, NEW o \in Ops, NEW next, NEW failing,
         PrepareEnds(w, o, next, failing)
  PROVE  /\ files' \in [Workers -> Files] /\ mixed' \in BOOLEAN /\ (mixed => mixed')
         /\ \A v \in Workers \ {w} : files'[v] = files[v]
         /\ \/ mixed' \/ files'[w].update = files[w].update
            \/ /\ pc'[w] = "submit"
               /\ files'[w].update
                    = [ver |-> ver, from |-> orderers, to |-> R!After(o, orderers)]
<1> DEFINE c      == IF failing = "fetch" THEN EMPTY ELSE orderers
           how    == IF failing = "fetch" THEN "none" ELSE failing
           edit   == Edit(o, c, files[w], how)
           update == Computed(c, edit.files)
<1>1. /\ orderers \in Configs /\ ver \in Versions /\ files \in [Workers -> Files]
      /\ files[w] \in Files /\ mixed \in BOOLEAN /\ w \in DOMAIN pc
  BY DEF TypeOK
<1>2. c \in {EMPTY, orderers} /\ c \in Configs \cup {EMPTY}
  BY <1>1
<1>3. edit.files \in Files /\ edit.files.update = files[w].update
  <2> HIDE DEF c, how
  <2> QED
    BY <1>1, <1>2, EditKeeps
<1>4. CASE /\ edit.complete
           /\ files' = [files EXCEPT ![w] = [edit.files EXCEPT !.update = update]]
           /\ pc' = [pc EXCEPT ![w] = "submit"]
           /\ mixed' = (mixed \/ (edit.stale /\ update # files[w].update))
  <2> DEFINE g == [edit.files EXCEPT !.update = update]
  <2>1. update \in Updates
    <3> HIDE DEF c, edit
    <3> QED
      BY <1>1, <1>2, <1>3, ComputedIn
  <2>2. g \in Files /\ g.update = update
    <3> HIDE DEF edit, update
    <3> QED
      BY <1>3, <2>1, WriteUpdate
  <2>3. mixed' \in BOOLEAN /\ (mixed => mixed')
    <3> HIDE DEF edit, update
    <3>1. mixed' \in BOOLEAN
      BY <1>4, Zenon
    <3> QED
      BY <1>4, <3>1
  <2>4. /\ files' = [files EXCEPT ![w] = g] /\ pc'[w] = "submit"
    <3> HIDE DEF edit, update
    <3> QED
      BY <1>1, <1>4
  <2>5. mixed' \/ update = files[w].update
        \/ update = [ver |-> ver, from |-> orderers, to |-> R!After(o, orderers)]
    <3> SUFFICES ASSUME ~mixed', update # files[w].update
                 PROVE  update = [ver |-> ver, from |-> orderers, to |-> R!After(o, orderers)]
      OBVIOUS
    <3>1. ~edit.stale
      <4> HIDE DEF edit, update
      <4> QED
        BY <1>4
    <3> HIDE DEF c, how
    <3> QED
      BY <1>1, <1>2, <1>4, <3>1, ComputedRight
  <2> HIDE DEF g, update, edit
  <2> QED
    BY <1>1, <2>2, <2>3, <2>4, <2>5
<1>5. CASE /\ files' = [files EXCEPT ![w] = edit.files]
           /\ pc' = [pc EXCEPT ![w] = next]
           /\ mixed' = mixed
  <2> HIDE DEF edit
  <2> QED
    BY <1>1, <1>3, <1>5
<1> QED
  BY <1>4, <1>5 DEF PrepareEnds

\* How Prepare ends.
LEMMA PrepareIs ==
  ASSUME NEW w \in Workers, NEW o \in Ops, NEW next, Prepare(w, o, next)
  PROVE  \E failing \in {"none", "fetch"} \cup Commands(o) :
           /\ PrepareEnds(w, o, next, failing)
           /\ op' = [op EXCEPT ![w] = o]
           /\ faults' = (IF failing = "none" THEN faults ELSE faults + 1) /\ faults' <= MaxFaults
           /\ broken' = (broken \/ Overlapping'
                           \/ (IsRemoval(o) /\ (failing # "none" \/ pc'[w] # "submit")))
<1>1. PICK failing \in {"none", "fetch"} \cup Commands(o) :
        LET c      == IF failing = "fetch" THEN EMPTY ELSE orderers
            edit   == Edit(o, c, files[w], IF failing = "fetch" THEN "none" ELSE failing)
            update == Computed(c, edit.files)
        IN  /\ faults' = (IF failing = "none" THEN faults ELSE faults + 1)
            /\ faults' <= MaxFaults
            /\ op' = [op EXCEPT ![w] = o]
            /\ \/ /\ edit.complete
                  /\ files' = [files EXCEPT ![w] = [edit.files EXCEPT !.update = update]]
                  /\ pc' = [pc EXCEPT ![w] = "submit"]
                  /\ mixed' = (mixed \/ (edit.stale /\ update # files[w].update))
               \/ /\ files' = [files EXCEPT ![w] = edit.files]
                  /\ pc' = [pc EXCEPT ![w] = next]
                  /\ mixed' = mixed
            /\ broken' = (broken \/ Overlapping'
                            \/ (IsRemoval(o) /\ (failing # "none" \/ pc'[w] # "submit")))
  BY DEF Prepare
<1>2. PrepareEnds(w, o, next, failing)
  BY <1>1 DEF PrepareEnds
<1> QED
  BY <1>1, <1>2

\* It keeps the types.
LEMMA PrepareTypes ==
  ASSUME TypeOK, NEW w \in Workers, NEW o \in Ops, NEW next, Prepare(w, o, next),
         next = "idle" \/ (next = "second" /\ o.kind = "dropAddress")
  PROVE  /\ files' \in [Workers -> Files] /\ op' \in [Workers -> Ops \cup {ABSENT}]
         /\ pc' \in [Workers -> {"idle", "submit", "second"}]
         /\ \A v \in Workers : pc'[v] = "second" => op'[v].kind = "dropAddress"
         /\ mixed' \in BOOLEAN /\ broken' \in BOOLEAN /\ faults' \in 0 .. MaxFaults
         /\ op'[w] = o /\ (pc'[w] = "submit" \/ pc'[w] = next)
         /\ \A v \in Workers \ {w} : pc'[v] = pc[v] /\ op'[v] = op[v]
<1>1. PICK failing \in {"none", "fetch"} \cup Commands(o) :
           /\ PrepareEnds(w, o, next, failing)
           /\ op' = [op EXCEPT ![w] = o]
           /\ faults' = (IF failing = "none" THEN faults ELSE faults + 1) /\ faults' <= MaxFaults
           /\ broken' = (broken \/ Overlapping'
                           \/ (IsRemoval(o) /\ (failing # "none" \/ pc'[w] # "submit")))
  BY PrepareIs
<1>2. files' \in [Workers -> Files] /\ mixed' \in BOOLEAN
  BY <1>1, PrepareWrites
<1>3. pc' = [pc EXCEPT ![w] = "submit"] \/ pc' = [pc EXCEPT ![w] = next]
  BY <1>1 DEF PrepareEnds
<1>4. /\ op \in [Workers -> Ops \cup {ABSENT}] /\ pc \in [Workers -> {"idle", "submit", "second"}]
      /\ \A v \in Workers : pc[v] = "second" => op[v].kind = "dropAddress"
      /\ faults \in 0 .. MaxFaults /\ MaxFaults \in Nat
  BY BoundsAssumption DEF TypeOK
<1>5. /\ op' \in [Workers -> Ops \cup {ABSENT}] /\ op'[w] = o
      /\ \A v \in Workers \ {w} : op'[v] = op[v]
  BY <1>1, <1>4
<1>6. /\ pc' \in [Workers -> {"idle", "submit", "second"}]
      /\ pc'[w] = "submit" \/ pc'[w] = next
      /\ \A v \in Workers \ {w} : pc'[v] = pc[v]
  BY <1>3, <1>4
<1>7. broken' \in BOOLEAN
  BY <1>1, Zenon
<1>8. faults' \in 0 .. MaxFaults
  BY <1>1, <1>4
<1>9. \A v \in Workers : pc'[v] = "second" => op'[v].kind = "dropAddress"
  BY <1>4, <1>5, <1>6
<1> QED
  BY <1>2, <1>5, <1>6, <1>7, <1>8, <1>9

\* The invariant survives a script's editing.
LEMMA PrepareKeeps ==
  ASSUME RaftInv, NEW w \in Workers, NEW o \in Ops, NEW next, Prepare(w, o, next),
         next = "idle" \/ (next = "second" /\ o.kind = "dropAddress"),
         UNCHANGED <<orderers, ver, lost>>,
         runs' \in 0 .. MaxRuns, plain' \subseteq Hosts, fulls' \subseteq Hosts,
         plain \subseteq plain', Asked(o, plain')
  PROVE  RaftInv'
<1>1. TypeOK
  BY DEF RaftInv
<1>2. /\ files' \in [Workers -> Files] /\ op' \in [Workers -> Ops \cup {ABSENT}]
      /\ pc' \in [Workers -> {"idle", "submit", "second"}]
      /\ \A v \in Workers : pc'[v] = "second" => op'[v].kind = "dropAddress"
      /\ mixed' \in BOOLEAN /\ broken' \in BOOLEAN /\ faults' \in 0 .. MaxFaults
      /\ op'[w] = o /\ (pc'[w] = "submit" \/ pc'[w] = next)
      /\ \A v \in Workers \ {w} : pc'[v] = pc[v] /\ op'[v] = op[v]
  BY <1>1, PrepareTypes
<1>3. TypeOK'
  <2>1. orderers' \in Configs /\ ver' \in Versions /\ lost' \in 0 .. MaxLost
    BY <1>1 DEF TypeOK
  <2> QED
    BY <1>2, <2>1 DEF TypeOK
<1>4. Requested'
  BY <1>2 DEF RaftInv, Requested
<1>5. UpdatesRight'
  <2> SUFFICES ASSUME ~mixed', NEW v \in Workers
               PROVE  Right(files'[v].update, orderers', ver', plain')
    BY DEF UpdatesRight
  <2>1. PICK failing \in {"none", "fetch"} \cup Commands(o) : PrepareEnds(w, o, next, failing)
    BY PrepareIs
  <2>2. /\ mixed => mixed'
        /\ \A x \in Workers \ {w} : files'[x] = files[x]
        /\ \/ files'[w].update = files[w].update
           \/ files'[w].update
                = [ver |-> ver, from |-> orderers, to |-> R!After(o, orderers)]
    BY <1>1, <2>1, PrepareWrites
  <2>3. CASE files'[v].update = files[v].update
    <3>1. Right(files[v].update, orderers, ver, plain)
      BY <2>2 DEF RaftInv, UpdatesRight
    <3>2. \A p \in Ops : Asked(p, plain) => Asked(p, plain')
      BY DEF Asked
    <3> QED
      BY <2>3, <3>1, <3>2 DEF Right
  <2>4. CASE v = w /\ files'[w].update
                        = [ver |-> ver, from |-> orderers, to |-> R!After(o, orderers)]
    <3>1. ver.group \in Nat /\ ver.addresses \in Nat
      BY <1>1 DEF TypeOK, Versions
    <3> QED
      BY <2>4, <3>1 DEF Right, R!SameGroup
  <2> QED
    BY <2>2, <2>3, <2>4
<1> QED
  BY <1>3, <1>4, <1>5 DEF RaftInv

\* The orderer as one operation leaves it, if it makes a difference to a part.
Performs(o, c, d) ==
  /\ R!SameGroup(d, R!After(o, c)) \/ R!SameGroup(d, c)
  /\ d.addresses \in {c.addresses, R!After(o, c).addresses}

\* A submission that is accepted is one operation on the configuration as it is.
LEMMA AcceptDoes ==
  ASSUME TypeOK, NEW u \in Updates, Right(u, orderers, ver, plain),
         Acceptable(u), Accept(u)
  PROVE  \E o \in Ops : Asked(o, plain) /\ Performs(o, orderers, orderers')
<1>1. /\ u # ABSENT
      /\ GroupChanged(u) => u.ver.group = ver.group
      /\ AddressesChanged(u) => u.ver.addresses = ver.addresses
  BY DEF Acceptable, IsConfig, NoConfig
<1>2. u.from \in Configs /\ orderers \in Configs
  BY <1>1 DEF Updates, TypeOK
<1>3. PICK o \in Ops : u.to = R!After(o, u.from) /\ Asked(o, plain)
  BY <1>1 DEF Right
<1>4. HasParts(u.from) /\ HasParts(orderers) /\ o.kind \in Kinds
  BY <1>2, ConfigParts, OpsAssumption
<1>5. GroupChanged(u) => R!SameGroup(u.to, R!After(o, orderers))
  BY <1>1, <1>3, <1>4, AfterParts DEF Right
<1>6. AddressesChanged(u) => u.to.addresses = R!After(o, orderers).addresses
  BY <1>1, <1>3, <1>4, AfterParts DEF Right
<1>7. /\ R!SameGroup(orderers', IF GroupChanged(u) THEN u.to ELSE orderers)
      /\ orderers'.addresses = IF AddressesChanged(u) THEN u.to.addresses
                               ELSE orderers.addresses
  BY DEF Accept, R!SameGroup
<1>8. R!SameGroup(orderers', R!After(o, orderers)) \/ R!SameGroup(orderers', orderers)
  BY <1>5, <1>7 DEF R!SameGroup
<1>9. orderers'.addresses \in {orderers.addresses, R!After(o, orderers).addresses}
  BY <1>6, <1>7
<1> QED
  BY <1>3, <1>8, <1>9 DEF Performs

\* It keeps the types.
LEMMA AcceptTypes ==
  ASSUME TypeOK, NEW u \in Updates, u # ABSENT, Accept(u)
  PROVE  orderers' \in Configs /\ ver' \in Versions
<1>1. u.to \in Configs /\ orderers \in Configs /\ ver \in Versions
  BY DEF Updates, TypeOK
<1>2. ver' \in Versions
  BY <1>1 DEF Accept, Versions
<1>3. orderers' \in Configs
  <2> DEFINE group == IF GroupChanged(u) THEN u.to ELSE orderers
             addrs == IF AddressesChanged(u) THEN u.to ELSE orderers
  <2>1. group \in Configs /\ addrs \in Configs
    BY <1>1
  <2>2. orderers' = [msps |-> group.msps, consenters |-> group.consenters,
                     addresses |-> addrs.addresses]
    BY DEF Accept
  <2> HIDE DEF group, addrs
  <2>3. /\ group.msps \in SUBSET Hosts /\ group.consenters \in Seq(Hosts)
        /\ addrs.addresses \in Seq(Hosts)
    BY <2>1, ConfigParts
  <2> QED
    BY <2>2, <2>3, MakeConfig
<1> QED
  BY <1>2, <1>3

\* What a submission does.
LEMMA SubmitIs ==
  ASSUME RaftInv, NEW w \in Workers, Submit(w)
  PROVE  /\ TypeOK' /\ Requested'
         /\ files[w].update \in Updates
         /\ op[w] \in Ops /\ pc[w] = "submit" /\ pc'[w] = Then(op[w])
         /\ \A v \in Workers \ {w} : pc'[v] = pc[v]
         /\ UNCHANGED <<files, op, plain, fulls, mixed, runs, faults>>
         /\ \/ /\ Acceptable(files[w].update) /\ Accept(files[w].update)
               /\ files[w].update # ABSENT /\ broken' = broken
            \/ broken' = (broken \/ IsRemoval(op[w])) /\ UNCHANGED <<orderers, ver>>
<1> DEFINE u == files[w].update
<1>1. /\ TypeOK /\ files[w] \in Files /\ u \in Updates
  <2>1. files[w] \in Files
    BY DEF RaftInv, TypeOK
  <2> QED
    BY <2>1, FilesParts DEF RaftInv
<1> HIDE DEF u
<1>2. /\ pc[w] = "submit" /\ pc' = [pc EXCEPT ![w] = Then(op[w])]
      /\ UNCHANGED <<files, op, plain, fulls, mixed, runs, faults>>
  BY DEF Submit
<1>3. op[w] \in Ops /\ op'[w] = op[w]
  BY <1>2 DEF RaftInv, Requested
<1>4. /\ pc \in [Workers -> {"idle", "submit", "second"}]
      /\ \A v \in Workers : pc[v] = "second" => op[v].kind = "dropAddress"
  BY <1>1 DEF TypeOK
<1>5. /\ Then(op[w]) \in {"idle", "second"}
      /\ Then(op[w]) = "second" => op[w].kind = "dropAddress"
  BY DEF Then
<1>6. /\ pc' \in [Workers -> {"idle", "submit", "second"}]
      /\ pc'[w] = Then(op[w]) /\ \A v \in Workers \ {w} : pc'[v] = pc[v]
      /\ \A v \in Workers : pc'[v] = "second" => op'[v].kind = "dropAddress"
  BY <1>2, <1>3, <1>4, <1>5
<1>7. Requested'
  BY <1>2, <1>3, <1>6 DEF RaftInv, Requested
<1>8. \/ Acceptable(u) /\ Accept(u) /\ u # ABSENT /\ broken' = broken /\ lost' = lost
      \/ /\ broken' = (broken \/ IsRemoval(op[w])) /\ UNCHANGED <<orderers, ver>>
         /\ lost' = lost \/ (lost < MaxLost /\ lost' = lost + 1)
  <2>1. Acceptable(u) => u # ABSENT
    BY DEF Acceptable, IsConfig, NoConfig
  <2> QED
    BY <2>1 DEF Submit, u
<1>9. orderers' \in Configs /\ ver' \in Versions
  <2>1. CASE Accept(u) /\ u # ABSENT
    BY <1>1, <2>1, AcceptTypes
  <2>2. CASE UNCHANGED <<orderers, ver>>
    BY <1>1, <2>2 DEF TypeOK
  <2> QED
    BY <1>8, <2>1, <2>2
<1>10. broken' \in BOOLEAN
  <2>1. broken \in BOOLEAN
    BY <1>1 DEF TypeOK
  <2>2. CASE broken' = broken
    BY <2>1, <2>2
  <2>3. CASE broken' = (broken \/ IsRemoval(op[w]))
    BY <2>3, Zenon
  <2> QED
    BY <1>8, <2>2, <2>3
<1>11. lost' \in 0 .. MaxLost
  <2>1. lost \in 0 .. MaxLost /\ MaxLost \in Nat
    BY <1>1, BoundsAssumption DEF TypeOK
  <2> QED
    BY <1>8, <2>1
<1>12. TypeOK'
  BY <1>1, <1>2, <1>6, <1>9, <1>10, <1>11 DEF TypeOK
<1> QED
  BY <1>1, <1>2, <1>3, <1>6, <1>7, <1>8, <1>12 DEF u

\* A submission keeps the invariant, as it makes the updates computed before it out
\* of date.
LEMMA SubmitKeeps ==
  ASSUME RaftInv, NEW w \in Workers, Submit(w)
  PROVE  /\ RaftInv'
         /\ mixed' \/ UNCHANGED orderers
            \/ \E o \in Ops : Asked(o, plain) /\ Performs(o, orderers, orderers')
<1> DEFINE u == files[w].update
<1>1. /\ TypeOK /\ TypeOK' /\ Requested' /\ u \in Updates
      /\ UNCHANGED <<files, op, plain, fulls, mixed, runs, faults>>
      /\ \/ Acceptable(u) /\ Accept(u) /\ u # ABSENT
         \/ UNCHANGED <<orderers, ver>>
  BY SubmitIs DEF RaftInv
<1>2. CASE Acceptable(u) /\ Accept(u) /\ u # ABSENT
  <2>1. /\ ver'.group = ver.group + (IF GroupChanged(u) THEN 1 ELSE 0)
        /\ ver'.addresses = ver.addresses + (IF AddressesChanged(u) THEN 1 ELSE 0)
        /\ ver.group \in Nat /\ ver.addresses \in Nat
    BY <1>1, <1>2 DEF Accept, TypeOK, Versions
  <2>2. /\ R!SameGroup(orderers', IF GroupChanged(u) THEN u.to ELSE orderers)
        /\ orderers'.addresses = IF AddressesChanged(u) THEN u.to.addresses
                                 ELSE orderers.addresses
    BY <1>2 DEF Accept, R!SameGroup
  <2>3. ASSUME ~mixed, NEW v \in Workers
        PROVE  Right(files[v].update, orderers', ver', plain)
    <3> DEFINE x == files[v].update
    <3>1. Right(x, orderers, ver, plain)
      BY <2>3 DEF RaftInv, UpdatesRight
    <3>2. x \in Updates
      <4>1. files[v] \in Files
        BY <1>1 DEF TypeOK
      <4> QED
        BY <4>1, FilesParts
    <3> HIDE DEF x, u
    <3> SUFFICES ASSUME x # ABSENT PROVE Right(x, orderers', ver', plain)
      BY DEF Right, x
    <3>3. /\ x.ver.group \in Nat /\ x.ver.group <= ver.group
          /\ x.ver.addresses \in Nat /\ x.ver.addresses <= ver.addresses
          /\ \E o \in Ops : x.to = R!After(o, x.from) /\ Asked(o, plain)
          /\ x.ver.group = ver.group => R!SameGroup(x.from, orderers)
          /\ x.ver.addresses = ver.addresses => x.from.addresses = orderers.addresses
      BY <3>1, <3>2 DEF Right, Updates, Versions
    <3>4. x.ver.group = ver'.group => R!SameGroup(x.from, orderers')
      BY <2>1, <2>2, <3>3 DEF R!SameGroup
    <3>5. x.ver.addresses = ver'.addresses => x.from.addresses = orderers'.addresses
      BY <2>1, <2>2, <3>3
    <3>6. x.ver.group <= ver'.group /\ x.ver.addresses <= ver'.addresses
      BY <2>1, <3>3
    <3> QED
      BY <3>3, <3>4, <3>5, <3>6 DEF Right
  <2>4. UpdatesRight'
    BY <1>1, <2>3 DEF UpdatesRight
  <2>5. ASSUME ~mixed
        PROVE  \E o \in Ops : Asked(o, plain) /\ Performs(o, orderers, orderers')
    <3>1. Right(u, orderers, ver, plain)
      BY <2>5 DEF RaftInv, UpdatesRight
    <3> HIDE DEF u
    <3> QED
      BY <1>1, <1>2, <3>1, AcceptDoes
  <2> QED
    BY <1>1, <2>4, <2>5 DEF RaftInv
<1>3. CASE UNCHANGED <<orderers, ver>>
  <2>1. UpdatesRight'
    BY <1>1, <1>3 DEF RaftInv, UpdatesRight
  <2> QED
    BY <1>1, <1>3, <2>1 DEF RaftInv
<1> QED
  BY <1>1, <1>2, <1>3

\* The two ways a script prepares an update.
LEMMA RunIs ==
  ASSUME RaftInv, NEW w \in Workers, NEW o \in Ops, Run(w, o)
  PROVE  /\ Prepare(w, o, Then(o)) /\ pc[w] = "idle" /\ o.kind # "dropConsenter"
         /\ Then(o) = "idle" \/ (Then(o) = "second" /\ o.kind = "dropAddress")
         /\ UNCHANGED <<orderers, ver, lost>>
         /\ runs' \in 0 .. MaxRuns /\ plain' \subseteq Hosts /\ fulls' \subseteq Hosts
         /\ plain \subseteq plain' /\ Asked(o, plain')
         /\ fulls \subseteq fulls' /\ (o.kind = "full" => o.host \in fulls')
<1>1. /\ Prepare(w, o, Then(o)) /\ pc[w] = "idle" /\ o.kind # "dropConsenter"
      /\ runs < MaxRuns /\ runs' = runs + 1 /\ UNCHANGED <<orderers, ver, lost>>
      /\ plain' = (IF o.kind \in {"consenter", "endpoint"} THEN plain \cup {o.host} ELSE plain)
      /\ fulls' = (IF o.kind = "full" THEN fulls \cup {o.host} ELSE fulls)
  BY DEF Run
<1>2. runs \in 0 .. MaxRuns /\ plain \subseteq Hosts /\ fulls \subseteq Hosts
  BY DEF RaftInv, TypeOK
<1>3. runs' \in 0 .. MaxRuns
  BY <1>1, <1>2, BoundsAssumption
<1>4. o.kind \in {"consenter", "endpoint", "full"} => o.host \in Hosts
  BY HostKnown
<1>5. Then(o) = "idle" \/ (Then(o) = "second" /\ o.kind = "dropAddress")
  BY DEF Then
<1> QED
  BY <1>1, <1>2, <1>3, <1>4, <1>5 DEF Asked

LEMMA RunSecondIs ==
  ASSUME RaftInv, NEW w \in Workers, RunSecond(w)
  PROVE  \E o \in Ops :
           /\ o.kind = "dropConsenter" /\ o.index = op[w].index
           /\ Prepare(w, o, "idle") /\ pc[w] = "second" /\ op[w].kind = "dropAddress"
           /\ UNCHANGED <<orderers, ver, plain, fulls, runs, lost>>
<1> DEFINE o == [kind |-> "dropConsenter", index |-> op[w].index]
<1>1. /\ pc[w] = "second" /\ Prepare(w, o, "idle")
      /\ UNCHANGED <<orderers, ver, plain, fulls, runs, lost>>
  BY DEF RunSecond
<1>2. op[w] \in Ops /\ op[w].kind = "dropAddress"
  BY <1>1 DEF RaftInv, Requested, TypeOK
<1>3. o \in Ops
  BY <1>2, OpsAssumption
<1>4. o.kind = "dropConsenter" /\ o.index = op[w].index
  OBVIOUS
<1> HIDE DEF o
<1> QED
  BY <1>1, <1>2, <1>3, <1>4

\* Every step keeps the invariant, and is an operation that was asked for if it
\* changes the configuration.
LEMMA RaftNext ==
  RaftInv /\ [Next]_vars =>
    /\ RaftInv'
    /\ plain \subseteq plain'
    /\ mixed' \/ UNCHANGED orderers
       \/ \E o \in Ops : Asked(o, plain) /\ Performs(o, orderers, orderers')
<1> SUFFICES ASSUME RaftInv, [Next]_vars
             PROVE  /\ RaftInv' /\ plain \subseteq plain'
                    /\ mixed' \/ UNCHANGED orderers
                       \/ \E o \in Ops : Asked(o, plain) /\ Performs(o, orderers, orderers')
  OBVIOUS
<1>1. ASSUME NEW w \in Workers, NEW o \in Ops, Run(w, o)
      PROVE  RaftInv' /\ plain \subseteq plain' /\ UNCHANGED orderers
  BY <1>1, RunIs, PrepareKeeps
<1>2. ASSUME NEW w \in Workers, RunSecond(w)
      PROVE  RaftInv' /\ plain \subseteq plain' /\ UNCHANGED orderers
  <2>1. PICK o \in Ops :
           /\ o.kind = "dropConsenter" /\ o.index = op[w].index
           /\ Prepare(w, o, "idle") /\ pc[w] = "second" /\ op[w].kind = "dropAddress"
           /\ UNCHANGED <<orderers, ver, plain, fulls, runs, lost>>
    BY <1>2, RunSecondIs
  <2>2. /\ runs' \in 0 .. MaxRuns /\ plain' \subseteq Hosts /\ fulls' \subseteq Hosts
        /\ plain \subseteq plain' /\ Asked(o, plain')
    BY <2>1 DEF RaftInv, TypeOK, Asked
  <2> QED
    BY <2>1, <2>2, PrepareKeeps
<1>3. ASSUME NEW w \in Workers, Submit(w)
      PROVE  /\ RaftInv' /\ plain \subseteq plain'
             /\ mixed' \/ UNCHANGED orderers
                \/ \E o \in Ops : Asked(o, plain) /\ Performs(o, orderers, orderers')
  <2>1. plain' = plain
    BY <1>3 DEF Submit
  <2> QED
    BY <1>3, <2>1, SubmitKeeps
<1>4. CASE UNCHANGED vars
  <2>1. UNCHANGED <<orderers, ver, files, op, pc, plain, fulls, mixed, broken, runs, faults, lost>>
    BY <1>4 DEF vars, bounded
  <2>2. TypeOK'
    BY <2>1 DEF RaftInv, TypeOK
  <2>3. Requested' /\ UpdatesRight'
    BY <2>1 DEF RaftInv, Requested, UpdatesRight
  <2> QED
    BY <2>1, <2>2, <2>3 DEF RaftInv
<1> QED
  BY <1>1, <1>2, <1>3, <1>4 DEF Next

\* What is mixed in stays.
LEMMA MixedStays == TypeOK /\ [Next]_vars => (mixed => mixed')
<1> SUFFICES ASSUME TypeOK, [Next]_vars, mixed PROVE mixed'
  OBVIOUS
<1>1. ASSUME NEW w \in Workers, NEW o, NEW next, Prepare(w, o, next) PROVE mixed'
  BY <1>1 DEF Prepare
<1>2. ASSUME NEW w \in Workers, Submit(w) PROVE mixed'
  BY <1>2 DEF Submit
<1>3. CASE UNCHANGED vars
  BY <1>3 DEF vars
<1> QED
  BY <1>1, <1>2, <1>3 DEF Next, Run, RunSecond

-------------------------------------------------------------------------------
(* The types, the atomicity, and the lists without repetitions.            *)

\* The files of a host hold what the commands can have left there, and the two parts
\* of the configuration stay lists of known hosts (container-lib.sh:120-197).
THEOREM RaftTypes == Spec => []TypeOK
<1>1. RaftInv => TypeOK
  BY DEF RaftInv
<1> QED
  BY <1>1, RaftInit, RaftNext, PTL DEF Spec

\* Unless files are mixed, every change of the configuration is one requested
\* operation on the configuration as it is (container-lib.sh:120-197,
\* raft-full-add-new-consenter.sh:21-50).
THEOREM UnmixedAtomic == Spec => AtomicUnlessMixed
<1>1. RaftInv /\ [Next]_vars => RaftInv'
  BY RaftNext
<1>2. RaftInv /\ [Next]_vars => [mixed' \/ R!Next]_orderers
  BY RaftNext DEF R!Next, Performs
<1> QED
  BY <1>1, <1>2, RaftInit, PTL DEF Spec, AtomicUnlessMixed

\* Hosts that no plain script was run for are listed once.
OnceInv == RaftInv /\ ListedOnce

LEMMA OnceInit == Init => OnceInv
<1> SUFFICES ASSUME Init PROVE ListedOnce
  BY RaftInit DEF OnceInv
<1> SUFFICES ASSUME NEW h PROVE Once(h, Founders)
  BY DEF Init, ListedOnce
<1> QED
  BY FoundersAssumption DEF Once

LEMMA OnceNext == OnceInv /\ [Next]_vars => OnceInv'
<1> SUFFICES ASSUME OnceInv, [Next]_vars PROVE ListedOnce'
  BY RaftNext DEF OnceInv
<1>1. /\ RaftInv' /\ plain \subseteq plain'
      /\ mixed' \/ UNCHANGED orderers
         \/ \E o \in Ops : Asked(o, plain) /\ Performs(o, orderers, orderers')
  BY RaftNext DEF OnceInv
<1> SUFFICES ASSUME ~mixed', NEW h \in Hosts \ plain'
             PROVE  Once(h, orderers'.consenters) /\ Once(h, orderers'.addresses)
  BY DEF ListedOnce, Once
<1>2. orderers \in Configs
  BY DEF OnceInv, RaftInv, TypeOK
<1>3. Once(h, orderers.consenters) /\ Once(h, orderers.addresses)
  <2>1. ~mixed
    BY MixedStays DEF OnceInv, RaftInv
  <2> QED
    BY <1>1, <2>1 DEF OnceInv, ListedOnce
<1>4. CASE UNCHANGED orderers
  BY <1>3, <1>4
<1>5. CASE \E o \in Ops : Asked(o, plain) /\ Performs(o, orderers, orderers')
  <2>1. PICK o \in Ops : Asked(o, plain) /\ Performs(o, orderers, orderers')
    BY <1>5
  <2>2. o.kind \in {"consenter", "endpoint"} => o.host # h
    BY <1>1, <2>1 DEF Asked
  <2>3. /\ Once(h, R!After(o, orderers).consenters)
        /\ Once(h, R!After(o, orderers).addresses)
    BY <1>2, <1>3, <2>2, AfterOnce
  <2> QED
    BY <1>3, <2>1, <2>3 DEF Performs, R!SameGroup
<1> QED
  BY <1>1, <1>4, <1>5

\* No orderer is listed twice that was not added by the scripts that append to the
\* lists (raft-full-add-new-consenter.sh:27-40, raft-add-consenter.sh:25).
THEOREM NoneTwice == Spec => []ListedOnce
<1>1. OnceInv => ListedOnce
  BY DEF OnceInv
<1> QED
  BY <1>1, OnceInit, OnceNext, PTL DEF Spec

-------------------------------------------------------------------------------
(* The order of the lists.                                                 *)

\* Where nothing interferes with a removal.
Calm == ~mixed /\ ~broken /\ plain = {} /\ \A h \in fulls : Alike(h) = {h}

Equal(c) == c.consenters = c.addresses

\* The address of an index is out of its list, the consenter is still there.
Half(c, i) == c.addresses = R!WithoutIndex(c.consenters, i)

\* The update that a removal has prepared.
Fresh(u, o, c, v) == u = [ver |-> v, from |-> c, to |-> R!After(o, c)] /\ u.to # u.from

\* An update left from before: there is none, it makes no difference to the order, or
\* it is a removal's and will not be accepted any more.
Spent(u, v) ==
  \/ u = ABSENT
  \/ Equal(u.from) /\ Equal(u.to)
  \/ AddressesChanged(u) /\ u.ver.addresses < v.addresses
  \/ GroupChanged(u) /\ u.ver.group < v.group

Submitting(w, kind) == pc[w] = "submit" /\ op[w].kind = kind

\* The lists are equal but between the halves of a removal, which has the cluster to
\* itself.
Quiet ==
  /\ Removing = {} => Equal(orderers)
  /\ \A w \in Removing : \A v \in Workers \ {w} : pc[v] = "idle"
  /\ \A w \in Workers :
       /\ pc[w] = "second" => Half(orderers, op[w].index)
       /\ Submitting(w, "dropAddress") => Equal(orderers)
       /\ Submitting(w, "dropConsenter") => Half(orderers, op[w].index)
       /\ IF pc[w] = "submit" /\ IsRemoval(op[w])
          THEN Fresh(files[w].update, op[w], orderers, ver)
          ELSE Spent(files[w].update, ver)

AlignInv == RaftInv /\ (Calm => Quiet)

\* Versions only grow.
LEMMA SpentStays ==
  ASSUME NEW u \in Updates, NEW v \in Versions, NEW d \in Versions,
         v.group <= d.group, v.addresses <= d.addresses, Spent(u, v)
  PROVE  Spent(u, d)
<1>1. CASE u = ABSENT
  BY <1>1 DEF Spent
<1>2. CASE u # ABSENT
  <2>1. /\ u.ver.group \in Nat /\ u.ver.addresses \in Nat
        /\ v.group \in Nat /\ v.addresses \in Nat /\ d.group \in Nat /\ d.addresses \in Nat
    BY <1>2 DEF Updates, Versions
  <2> QED
    BY <1>2, <2>1 DEF Spent
<1> QED
  BY <1>1, <1>2

LEMMA AlignInit == Init => AlignInv
<1> SUFFICES ASSUME Init PROVE Quiet
  BY RaftInit DEF AlignInv
<1>1. /\ orderers.consenters = orderers.addresses
      /\ \A w \in Workers : pc[w] = "idle" /\ files[w].update = ABSENT
  BY DEF Init
<1> QED
  BY <1>1 DEF Quiet, Equal, Removing, Submitting, Spent

\* What is calm was calm before.
LEMMA CalmBefore == RaftInv /\ [Next]_vars /\ Calm' => Calm
<1> SUFFICES ASSUME RaftInv, [Next]_vars, Calm' PROVE Calm
  OBVIOUS
<1>1. ASSUME NEW w \in Workers, NEW o \in Ops, Run(w, o)
      PROVE  (broken => broken') /\ plain \subseteq plain' /\ fulls \subseteq fulls'
  <2>1. plain \subseteq plain' /\ fulls \subseteq fulls' /\ Prepare(w, o, Then(o))
    BY <1>1, RunIs
  <2> QED
    BY <2>1 DEF Prepare
<1>2. ASSUME NEW w \in Workers, RunSecond(w)
      PROVE  (broken => broken') /\ plain \subseteq plain' /\ fulls \subseteq fulls'
  BY <1>2 DEF RunSecond, Prepare
<1>3. ASSUME NEW w \in Workers, Submit(w)
      PROVE  (broken => broken') /\ plain \subseteq plain' /\ fulls \subseteq fulls'
  <2>1. /\ UNCHANGED <<plain, fulls>>
        /\ broken' = broken \/ broken' = (broken \/ IsRemoval(op[w]))
    BY <1>3, SubmitIs
  <2>2. broken => broken'
    BY <2>1, Zenon
  <2> QED
    BY <2>1, <2>2
<1>4. CASE UNCHANGED vars
  BY <1>4 DEF vars, Calm
<1>5. (broken => broken') /\ plain \subseteq plain' /\ fulls \subseteq fulls'
  <2>1. CASE UNCHANGED vars
    BY <2>1 DEF vars
  <2> QED
    BY <1>1, <1>2, <1>3, <2>1 DEF Next
<1>6. mixed => mixed'
  BY MixedStays DEF RaftInv
<1> QED
  BY <1>5, <1>6 DEF Calm

\* Without a failure, and with a difference, a removal has a new update.
LEMMA RemovalFresh ==
  ASSUME TypeOK, NEW w \in Workers, NEW o \in Ops, IsRemoval(o), NEW next, next # "submit",
         Prepare(w, o, next), ~broken'
  PROVE  pc'[w] = "submit" /\ ~Overlapping' /\ Fresh(files'[w].update, o, orderers, ver)
<1>1. PICK failing \in {"none", "fetch"} \cup Commands(o) :
        LET c      == IF failing = "fetch" THEN EMPTY ELSE orderers
            edit   == Edit(o, c, files[w], IF failing = "fetch" THEN "none" ELSE failing)
            update == Computed(c, edit.files)
            goesOn == edit.complete /\ ~NoDifference(c, edit.files.updated)
        IN  /\ \/ /\ goesOn \/ (edit.complete /\ o.kind \in {"full", "msp"} /\ IsConfig(c))
                  /\ files' = [files EXCEPT ![w] = [edit.files EXCEPT !.update = update]]
                  /\ pc' = [pc EXCEPT ![w] = "submit"]
               \/ /\ ~goesOn
                  /\ pc' = [pc EXCEPT ![w] = next]
            /\ broken' = (broken \/ Overlapping'
                            \/ (IsRemoval(o) /\ (failing # "none" \/ pc'[w] # "submit")))
  BY DEF Prepare
<1>2. failing = "none" /\ pc'[w] = "submit" /\ ~Overlapping'
  BY <1>1
<1> DEFINE edit   == Edit(o, orderers, files[w], "none")
           update == Computed(orderers, edit.files)
           g      == [edit.files EXCEPT !.update = update]
<1>3. /\ orderers \in Configs /\ ver \in Versions /\ files \in [Workers -> Files]
      /\ files[w] \in Files /\ DOMAIN pc = Workers
  BY DEF TypeOK
<1>4. /\ edit.complete /\ ~NoDifference(orderers, edit.files.updated)
      /\ files' = [files EXCEPT ![w] = g]
  <2>1. pc' # [pc EXCEPT ![w] = next]
    BY <1>2, <1>3
  <2>2. o.kind \notin {"full", "msp"}
    BY DEF IsRemoval
  <2> QED
    BY <1>1, <1>2, <2>1, <2>2
<1>5. edit.files \in Files /\ ~edit.stale
  <2>1. edit.files \in Files
    BY <1>3, EditKeeps
  <2>2. ~edit.stale
    BY DEF Edit, OtherEdit, IsRemoval
  <2> QED
    BY <2>1, <2>2
<1>6. IsConfig(orderers) /\ R!After(o, orderers) \in Configs /\ IsConfig(R!After(o, orderers))
  BY <1>3, AfterIn, ConfigParts
<1>7. edit.files.updated = R!After(o, orderers)
  <2>1. edit = OtherEdit(o, orderers, files[w], "none")
    BY DEF Edit, IsRemoval
  <2>2. HasFiles(files[w])
    BY <1>3, FilesParts
  <2>3. OtherEdit(o, orderers, files[w], "none").files
          = [files[w] EXCEPT !.updated = R!After(o, orderers)]
    BY <1>6 DEF OtherEdit, IsRemoval
  <2> HIDE DEF edit
  <2> QED
    BY <2>1, <2>2, <2>3 DEF HasFiles
<1>8. update = [ver |-> ver, from |-> orderers, to |-> R!After(o, orderers)]
      /\ R!After(o, orderers) # orderers
  <2> HIDE DEF edit
  <2> QED
    BY <1>4, <1>6, <1>7 DEF Computed, NoDifference
<1>9. files'[w].update = update
  <2>1. update \in Updates
    <3> HIDE DEF edit
    <3> QED
      BY <1>3, <1>5, ComputedIn
  <2>2. g.update = update
    <3> HIDE DEF edit, update
    <3> QED
      BY <1>5, <2>1, WriteUpdate
  <2> HIDE DEF g, update
  <2> QED
    BY <1>3, <1>4, <2>2
<1>10. Fresh(files'[w].update, o, orderers, ver)
  <2> HIDE DEF update
  <2> QED
    BY <1>8, <1>9 DEF Fresh
<1> QED
  BY <1>2, <1>10

\* The order survives the editing of a removal.
LEMMA RemovalQuiet ==
  ASSUME RaftInv, Quiet, NEW w \in Workers, NEW o \in Ops, NEW next, next # "submit",
         Prepare(w, o, next),
         \/ pc[w] = "idle" /\ o.kind = "dropAddress"
         \/ pc[w] = "second" /\ o.kind = "dropConsenter" /\ o.index = op[w].index,
         next = "idle" \/ (next = "second" /\ o.kind = "dropAddress"),
         UNCHANGED <<orderers, ver>>, Calm'
  PROVE  Quiet'
<1>1. TypeOK /\ IsRemoval(o) /\ ~broken'
  BY DEF RaftInv, IsRemoval, Calm
<1>2. pc'[w] = "submit" /\ ~Overlapping' /\ Fresh(files'[w].update, o, orderers, ver)
  BY <1>1, RemovalFresh
<1>3. op'[w] = o /\ \A v \in Workers \ {w} : pc'[v] = pc[v] /\ op'[v] = op[v]
  BY <1>1, PrepareTypes
<1>4. w \in Removing'
  BY <1>1, <1>2, <1>3 DEF Removing
<1>5. \A v \in Workers \ {w} : pc'[v] = "idle" /\ pc[v] = "idle"
  BY <1>2, <1>3, <1>4 DEF Overlapping
<1>6. Removing' \subseteq {w}
  BY <1>5 DEF Removing
<1>7. \A v \in Workers \ {w} : files'[v] = files[v]
  <2>1. \E failing \in {"none", "fetch"} \cup Commands(o) : PrepareEnds(w, o, next, failing)
    BY PrepareIs
  <2> QED
    BY <1>1, <2>1, PrepareWrites
<1>8. o.kind = "dropAddress" => Equal(orderers)
  <2>1. o.kind = "dropAddress" => Removing = {}
    BY <1>5 DEF Removing
  <2> QED
    BY <2>1 DEF Quiet
<1>9. o.kind = "dropConsenter" => Half(orderers, o.index)
  BY DEF Quiet
<1>10. \A v \in Workers \ {w} :
         Spent(files'[v].update, ver')
  BY <1>5, <1>7 DEF Quiet
<1>11. Fresh(files'[w].update, op'[w], orderers', ver') /\ IsRemoval(op'[w])
  BY <1>1, <1>2, <1>3
<1>12. /\ op'[w].kind = "dropAddress" => Equal(orderers')
       /\ op'[w].kind = "dropConsenter" => Half(orderers', op'[w].index)
  BY <1>3, <1>8, <1>9 DEF Equal, Half
<1> QED
  BY <1>2, <1>4, <1>5, <1>6, <1>10, <1>11, <1>12 DEF Quiet, Submitting

\* It survives the editing of the other scripts.
LEMMA AddQuiet ==
  ASSUME RaftInv, Quiet, NEW w \in Workers, NEW o \in Ops, Prepare(w, o, "idle"),
         pc[w] = "idle", ~IsRemoval(o), Asked(o, plain'),
         o.kind = "full" => o.host \in fulls',
         UNCHANGED <<orderers, ver>>, Calm'
  PROVE  Quiet'
<1>1. TypeOK /\ orderers \in Configs /\ ~broken' /\ ~mixed'
  BY DEF RaftInv, TypeOK, Calm
<1>2. PICK failing \in {"none", "fetch"} \cup Commands(o) :
        /\ PrepareEnds(w, o, "idle", failing)
        /\ broken' = (broken \/ Overlapping'
                        \/ (IsRemoval(o) /\ (failing # "none" \/ pc'[w] # "submit")))
  BY PrepareIs
<1>3. ~Overlapping'
  BY <1>1, <1>2
<1>4. /\ op'[w] = o /\ pc'[w] \in {"submit", "idle"}
      /\ \A v \in Workers \ {w} : pc'[v] = pc[v] /\ op'[v] = op[v]
  BY <1>1, PrepareTypes
<1>5. /\ \A v \in Workers \ {w} : files'[v] = files[v]
      /\ \/ files'[w].update = files[w].update
         \/ /\ pc'[w] = "submit"
            /\ files'[w].update = [ver |-> ver, from |-> orderers, to |-> R!After(o, orderers)]
  BY <1>1, <1>2, PrepareWrites
<1>6. Removing' = Removing /\ w \notin Removing
  BY <1>4 DEF Removing
<1>7. pc'[w] = "submit" => Removing = {}
  BY <1>3, <1>4, <1>6 DEF Overlapping
<1>8. o.kind = "msp" \/ (o.kind = "full" /\ Alike(o.host) = {o.host})
  BY OpsAssumption DEF Kinds, IsRemoval, Asked, Calm
<1>9. Spent(files'[w].update, ver')
  <2>1. CASE files'[w].update = files[w].update
    BY <2>1 DEF Quiet
  <2>2. CASE /\ pc'[w] = "submit"
             /\ files'[w].update
                  = [ver |-> ver, from |-> orderers, to |-> R!After(o, orderers)]
    <3>1. Equal(orderers)
      BY <1>7, <2>2 DEF Quiet
    <3>2. Equal(R!After(o, orderers))
      BY <1>1, <1>8, <3>1, AfterAligned DEF Equal
    <3> QED
      BY <2>2, <3>1, <3>2 DEF Spent
  <2> QED
    BY <1>5, <2>1, <2>2
<1>10. Removing' = {} => Equal(orderers')
  BY <1>6 DEF Quiet
<1>11. \A x \in Removing' : \A v \in Workers \ {x} : pc'[v] = "idle"
  BY <1>4, <1>6, <1>7 DEF Quiet
<1>12. ~(pc'[w] = "submit" /\ IsRemoval(op'[w])) /\ pc'[w] # "second"
       /\ ~Submitting(w, "dropAddress")' /\ ~Submitting(w, "dropConsenter")'
  BY <1>4 DEF Submitting, IsRemoval
<1>13. ASSUME NEW v \in Workers \ {w}
       PROVE  /\ pc'[v] = "second" => Half(orderers', op'[v].index)
              /\ Submitting(v, "dropAddress")' => Equal(orderers')
              /\ Submitting(v, "dropConsenter")' => Half(orderers', op'[v].index)
              /\ IF pc'[v] = "submit" /\ IsRemoval(op'[v])
                 THEN Fresh(files'[v].update, op'[v], orderers', ver')
                 ELSE Spent(files'[v].update, ver')
  <2>1. pc'[v] = pc[v] /\ op'[v] = op[v] /\ files'[v] = files[v]
    BY <1>4, <1>5
  <2> QED
    BY <2>1 DEF Quiet, Submitting
<1> QED
  BY <1>9, <1>10, <1>11, <1>12, <1>13 DEF Quiet

\* It survives the acceptance of a removal's update,
LEMMA SubmitRemovalQuiet ==
  ASSUME RaftInv, Quiet, NEW w \in Workers, Submit(w), IsRemoval(op[w]), Calm'
  PROVE  Quiet'
<1> DEFINE u == files[w].update
<1>1. /\ u \in Updates /\ op[w] \in Ops /\ pc[w] = "submit" /\ pc'[w] = Then(op[w])
      /\ \A v \in Workers \ {w} : pc'[v] = pc[v]
      /\ UNCHANGED <<files, op>>
      /\ Acceptable(u) /\ Accept(u)
  <2>1. broken' # (broken \/ IsRemoval(op[w]))
    BY DEF Calm
  <2> QED
    BY <2>1, SubmitIs
<1>2. Fresh(u, op[w], orderers, ver)
  BY <1>1 DEF Quiet
<1>3. w \in Removing /\ \A v \in Workers \ {w} : pc[v] = "idle" /\ pc'[v] = "idle"
  BY <1>1 DEF Removing, Quiet
<1>4. /\ orderers \in Configs /\ ver.group \in Nat /\ ver.addresses \in Nat
      /\ HasParts(orderers) /\ R!After(op[w], orderers) \in Configs
      /\ HasParts(R!After(op[w], orderers))
  <2>1. orderers \in Configs /\ ver \in Versions
    BY DEF RaftInv, TypeOK
  <2>2. R!After(op[w], orderers) \in Configs
    BY <1>1, <2>1, AfterIn
  <2> QED
    BY <2>1, <2>2, ConfigParts DEF Versions
<1>6. /\ orderers'.consenters = IF GroupChanged(u) THEN u.to.consenters
                                ELSE orderers.consenters
      /\ orderers'.addresses = IF AddressesChanged(u) THEN u.to.addresses
                               ELSE orderers.addresses
      /\ ver'.group = ver.group + (IF GroupChanged(u) THEN 1 ELSE 0)
      /\ ver'.addresses = ver.addresses + (IF AddressesChanged(u) THEN 1 ELSE 0)
  BY <1>1 DEF Accept
<1>5. \A v \in Workers \ {w} : Spent(files'[v].update, ver')
  <2>1. /\ ver \in Versions /\ ver' \in Versions
        /\ ver.group <= ver'.group /\ ver.addresses <= ver'.addresses
    BY <1>4, <1>6, SubmitIs DEF RaftInv, TypeOK, Versions
  <2>2. ASSUME NEW v \in Workers \ {w}
        PROVE  files[v].update \in Updates /\ Spent(files[v].update, ver)
    <3>1. files[v] \in Files
      BY DEF RaftInv, TypeOK
    <3> QED
      BY <1>3, <3>1, FilesParts DEF Quiet
  <2> QED
    BY <1>1, <2>1, <2>2, SpentStays
<1>7. /\ u.from = orderers /\ u.to = R!After(op[w], orderers) /\ u.ver = ver
      /\ u.to # u.from
  BY <1>2 DEF Fresh
<1> HIDE DEF u
<1>8. CASE op[w].kind = "dropAddress"
  <2>1. /\ u.to.msps = orderers.msps /\ u.to.consenters = orderers.consenters
        /\ u.to.addresses = R!WithoutIndex(orderers.addresses, op[w].index)
    BY <1>4, <1>7, <1>8 DEF R!After, HasParts
  <2>2. ~GroupChanged(u)
    BY <1>7, <2>1 DEF GroupChanged, R!SameGroup
  <2>3. AddressesChanged(u)
    BY <1>4, <1>7, <2>1 DEF AddressesChanged, HasParts
  <2>4. orderers'.addresses = R!WithoutIndex(orderers'.consenters, op[w].index)
    <3>1. Equal(orderers)
      BY <1>1, <1>8 DEF Quiet, Submitting
    <3> QED
      BY <1>6, <2>1, <2>2, <2>3, <3>1 DEF Equal
  <2>5. pc'[w] = "second"
    BY <1>1, <1>8 DEF Then
  <2>6. Spent(u, ver')
    BY <1>4, <1>6, <1>7, <2>3 DEF Spent
  <2>7. Removing' = {w}
    BY <1>1, <1>3, <2>5 DEF Removing
  <2> QED
    BY <1>1, <1>3, <1>5, <2>4, <2>5, <2>6, <2>7 DEF Quiet, Half, Submitting, u
<1>9. CASE op[w].kind = "dropConsenter"
  <2>1. /\ u.to.msps = orderers.msps /\ u.to.addresses = orderers.addresses
        /\ u.to.consenters = R!WithoutIndex(orderers.consenters, op[w].index)
    BY <1>4, <1>7, <1>9 DEF R!After, HasParts
  <2>2. ~AddressesChanged(u)
    BY <1>7, <2>1 DEF AddressesChanged
  <2>3. GroupChanged(u)
    BY <1>4, <1>7, <2>1 DEF GroupChanged, R!SameGroup, HasParts
  <2>4. Equal(orderers')
    <3>1. Half(orderers, op[w].index)
      BY <1>1, <1>9 DEF Quiet, Submitting
    <3> QED
      BY <1>6, <2>1, <2>2, <2>3, <3>1 DEF Equal, Half
  <2>5. pc'[w] = "idle"
    BY <1>1, <1>9 DEF Then
  <2>6. Spent(u, ver')
    BY <1>4, <1>6, <1>7, <2>3 DEF Spent
  <2>7. Removing' = {}
    BY <1>3, <2>5 DEF Removing
  <2> QED
    BY <1>1, <1>3, <1>5, <2>4, <2>5, <2>6, <2>7 DEF Quiet, Submitting, u
<1> QED
  BY <1>8, <1>9 DEF IsRemoval

\* and the one of another script's.
LEMMA SubmitAddQuiet ==
  ASSUME RaftInv, Quiet, NEW w \in Workers, Submit(w), ~IsRemoval(op[w]), Calm'
  PROVE  Quiet'
<1> DEFINE u == files[w].update
<1>1. /\ u \in Updates /\ op[w] \in Ops /\ pc[w] = "submit" /\ pc'[w] = "idle"
      /\ \A v \in Workers \ {w} : pc'[v] = pc[v]
      /\ UNCHANGED <<files, op, plain, fulls, mixed>>
      /\ \/ Acceptable(u) /\ Accept(u) /\ u # ABSENT
         \/ UNCHANGED <<orderers, ver>>
      /\ ver' \in Versions /\ ver \in Versions /\ TypeOK
  <2>1. Then(op[w]) = "idle"
    BY DEF Then, IsRemoval
  <2> QED
    BY <2>1, SubmitIs DEF RaftInv, TypeOK
<1>2. Removing = {} /\ Removing' = {}
  <2>1. \A v \in Removing : FALSE
    BY <1>1 DEF Quiet, Removing
  <2> QED
    BY <1>1, <2>1 DEF Removing
<1>3. Equal(orderers)
  BY <1>2 DEF Quiet
<1>4. Equal(orderers')
  <2>1. CASE UNCHANGED orderers
    BY <1>3, <2>1 DEF Equal
  <2>2. CASE Acceptable(u) /\ Accept(u) /\ u # ABSENT
    <3>1. /\ GroupChanged(u) => u.ver.group = ver.group
          /\ AddressesChanged(u) => u.ver.addresses = ver.addresses
      BY <2>2 DEF Acceptable
    <3>2. Spent(u, ver) /\ Right(u, orderers, ver, plain)
      BY <1>1 DEF Quiet, RaftInv, UpdatesRight, Calm
    <3>3. /\ u.from.consenters = u.from.addresses /\ u.to.consenters = u.to.addresses
          /\ GroupChanged(u) => u.from.consenters = orderers.consenters
          /\ AddressesChanged(u) => u.from.addresses = orderers.addresses
      <4>1. u.ver.group \in Nat /\ u.ver.addresses \in Nat
            /\ ver.group \in Nat /\ ver.addresses \in Nat
        BY <1>1, <2>2 DEF Updates, Versions
      <4> HIDE DEF u
      <4> QED
        BY <2>2, <3>1, <3>2, <4>1 DEF Spent, Right, Equal, R!SameGroup
    <3>4. /\ orderers'.consenters = IF GroupChanged(u) THEN u.to.consenters
                                    ELSE orderers.consenters
          /\ orderers'.addresses = IF AddressesChanged(u) THEN u.to.addresses
                                   ELSE orderers.addresses
      BY <2>2 DEF Accept
    <3>5. /\ ~GroupChanged(u) => u.from.consenters = u.to.consenters
          /\ ~AddressesChanged(u) => u.from.addresses = u.to.addresses
      BY DEF GroupChanged, AddressesChanged, R!SameGroup
    <3> HIDE DEF u
    <3> QED
      BY <1>3, <3>3, <3>4, <3>5 DEF Equal
  <2> QED
    BY <1>1, <2>1, <2>2
<1>5. ASSUME NEW v \in Workers PROVE Spent(files'[v].update, ver')
  <2>1. Spent(files[v].update, ver)
    BY <1>2 DEF Quiet, Removing
  <2>2. files[v].update \in Updates
    <3>1. files[v] \in Files
      BY <1>1 DEF TypeOK
    <3> QED
      BY <3>1, FilesParts
  <2>3. ver.group <= ver'.group /\ ver.addresses <= ver'.addresses
    BY <1>1 DEF Accept, Versions
  <2> QED
    BY <1>1, <2>1, <2>2, <2>3, SpentStays
<1>6. \A v \in Workers : ~(pc'[v] \in {"submit", "second"} /\ IsRemoval(op'[v]))
  BY <1>2 DEF Removing
<1>7. \A v \in Workers : pc'[v] = "second" => IsRemoval(op'[v])
  BY SubmitIs DEF TypeOK, IsRemoval
<1> QED
  BY <1>2, <1>4, <1>5, <1>6, <1>7 DEF Quiet, Submitting, IsRemoval

LEMMA AlignNext == AlignInv /\ [Next]_vars => AlignInv'
<1> SUFFICES ASSUME AlignInv, [Next]_vars, Calm' PROVE Quiet'
  BY RaftNext DEF AlignInv
<1>1. RaftInv /\ Quiet
  BY CalmBefore DEF AlignInv
<1>2. ASSUME NEW w \in Workers, NEW o \in Ops, Run(w, o) PROVE Quiet'
  <2>1. /\ Prepare(w, o, Then(o)) /\ pc[w] = "idle" /\ o.kind # "dropConsenter"
        /\ Then(o) = "idle" \/ (Then(o) = "second" /\ o.kind = "dropAddress")
        /\ UNCHANGED <<orderers, ver>>
        /\ Asked(o, plain') /\ (o.kind = "full" => o.host \in fulls')
    BY <1>1, <1>2, RunIs
  <2>2. CASE o.kind = "dropAddress"
    <3>1. Then(o) # "submit"
      BY <2>1
    <3> QED
      BY <1>1, <2>1, <2>2, <3>1, RemovalQuiet
  <2>3. CASE o.kind # "dropAddress"
    <3>1. ~IsRemoval(o) /\ Then(o) = "idle"
      BY <2>1, <2>3 DEF IsRemoval
    <3> QED
      BY <1>1, <2>1, <3>1, AddQuiet
  <2> QED
    BY <2>2, <2>3
<1>3. ASSUME NEW w \in Workers, RunSecond(w) PROVE Quiet'
  <2>1. PICK o \in Ops :
           /\ o.kind = "dropConsenter" /\ o.index = op[w].index
           /\ Prepare(w, o, "idle") /\ pc[w] = "second" /\ op[w].kind = "dropAddress"
           /\ UNCHANGED <<orderers, ver, plain, fulls, runs, lost>>
    BY <1>1, <1>3, RunSecondIs
  <2> QED
    BY <1>1, <2>1, RemovalQuiet
<1>4. ASSUME NEW w \in Workers, Submit(w) PROVE Quiet'
  BY <1>1, <1>4, SubmitRemovalQuiet, SubmitAddQuiet
<1>5. CASE UNCHANGED vars
  <2>1. UNCHANGED <<orderers, ver, files, op, pc>>
    BY <1>5 DEF vars
  <2> QED
    BY <1>1, <2>1 DEF Quiet, Removing, Submitting
<1> QED
  BY <1>2, <1>3, <1>4, <1>5 DEF Next

\* Where no plain script was run, and no removal is disturbed, the consenter and the
\* address of an orderer have the same place (raft-remove-consenter.sh:9-11).
THEOREM StaysAligned == Spec => []Aligned
<1>1. AlignInv => Aligned
  BY DEF AlignInv, Calm, Quiet, Aligned, Equal
<1> QED
  BY <1>1, AlignInit, AlignNext, PTL DEF Spec
===============================================================================
