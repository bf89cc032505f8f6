----------------------------- MODULE AccountsProofs -----------------------------
(***************************************************************************)
(* Proofs about the account chaincodes, all four of them, for any accounts,*)
(* peers, transactions and width of integers:                              *)
(*                                                                         *)
(*   TypeCorrect         the variables keep their types;                   *)
(*   CallsSerializable   the chaincode on its channel implements Bank;     *)
(*   NothingSpentTwice   the payer of a transfer has the amount when the   *)
(*                       transfer takes effect, where the chaincode looks; *)
(*   HistoryTrue         the history of the token contract explains every  *)
(*                       balance;                                          *)
(*   TransfersConserve   a transfer keeps the sum of the accounts.         *)
(*                                                                         *)
(* The argument: what a call results in depends only on the accounts that  *)
(* it reads, and a transaction is valid only if those have not changed     *)
(* since.  So it is computed, in effect, from the accounts as they are,    *)
(* and what it does to a sum is a matter of arithmetic modulo the width.   *)
(* The sums are the community modules', of which the first part states     *)
(* what a change of one element does to them.                              *)
(***************************************************************************)
EXTENDS Accounts, FiniteSetTheorems, WellFoundedInduction, TLAPS

-------------------------------------------------------------------------------
(* Numbers.                                                                *)

\* A set of numbers has a least one.
LEMMA Least ==
  ASSUME NEW X, X \subseteq Nat, X # {}
  PROVE  \E m \in X : \A k \in X : m <= k
  <1>1. \E m \in X : \A k \in X : ~ (<<k, m>> \in OpToRel(<,Nat))
    BY NatLessThanWellFounded, WFMin
  <1>2. ASSUME NEW m \in X, \A k \in X : ~ (<<k, m>> \in OpToRel(<,Nat))
        PROVE  \A k \in X : m <= k
    <2>1. \A k \in X : ~(k < m)
      BY <1>2 DEF OpToRel
    <2> QED
      BY <2>1
  <1> QED
    BY <1>1, <1>2

\* What holds for 0 and goes on from a number to the next one holds for all.
LEMMA Induct ==
  ASSUME NEW S, 0 \in S, \A n \in Nat : n \in S => n + 1 \in S
  PROVE  Nat \subseteq S
  <1> SUFFICES ASSUME ~(Nat \subseteq S) PROVE FALSE
    OBVIOUS
  <1> DEFINE X == Nat \ S
  <1>1. PICK m \in X : \A k \in X : m <= k
    BY Least
  <1>2. m # 0 /\ m - 1 \in Nat /\ m - 1 \notin X
    BY <1>1
  <1> QED
    BY <1>1, <1>2

-------------------------------------------------------------------------------
(* Sums.                                                                   *)

\* What the sums of f over the subsets of S are, given the smaller ones.
SumBody(f, S, s) ==
  [T \in SUBSET S |->
     IF T = {} THEN 0
     ELSE f[CHOOSE x \in T : TRUE] + s[T \ {CHOOSE x \in T : TRUE}]]

\* The sums of f over the subsets of S.
Sums(f, S) == CHOOSE s : s = SumBody(f, S, s)

\* A subset, without the element that is chosen from it.
LEMMA Smaller ==
  ASSUME NEW S, IsFiniteSet(S), NEW T \in SUBSET S, T # {}, NEW n \in Nat,
         Cardinality(T) <= n + 1, NEW x \in T
  PROVE  T \ {x} \in SUBSET S /\ Cardinality(T \ {x}) <= n
  <1>1. IsFiniteSet(T)
    BY FS_Subset
  <1>2. Cardinality(T) \in Nat /\ Cardinality(T \ {x}) = Cardinality(T) - 1
    BY <1>1, FS_RemoveElement, FS_CardinalityType
  <1> QED
    BY <1>2

\* There are such sums,
LEMMA SumsExist ==
  ASSUME NEW S, IsFiniteSet(S), NEW f \in [S -> Int]
  PROVE  \E s \in [SUBSET S -> Int] : s = SumBody(f, S, s)
  <1> DEFINE Upto(n, s) == \A T \in SUBSET S :
               Cardinality(T) <= n => s[T] = SumBody(f, S, s)[T]
             P(n) == \E s \in [SUBSET S -> Int] : Upto(n, s)
             X == {n \in Nat : P(n)}
  <1>1. 0 \in X
    <2> DEFINE s == [T \in SUBSET S |-> 0]
    <2>1. s \in [SUBSET S -> Int]
      OBVIOUS
    <2>2. ASSUME NEW T \in SUBSET S, Cardinality(T) <= 0 PROVE T = {}
      <3>1. IsFiniteSet(T) /\ Cardinality(T) \in Nat
        BY FS_Subset, FS_CardinalityType
      <3>2. Cardinality(T) = 0
        BY <2>2, <3>1
      <3> QED
        BY <3>1, <3>2, FS_EmptySet
    <2>3. Upto(0, s)
      BY <2>2 DEF SumBody
    <2> QED
      BY <2>1, <2>3
  <1>2. ASSUME NEW n \in Nat, n \in X PROVE n + 1 \in X
    <2>1. PICK s \in [SUBSET S -> Int] : Upto(n, s)
      BY <1>2
    <2> DEFINE c(T) == CHOOSE x \in T : TRUE
               u == SumBody(f, S, s)
    <2>2. ASSUME NEW T \in SUBSET S, T # {} PROVE c(T) \in T /\ T \ {c(T)} \in SUBSET S
      BY <2>2
    <2>3. u \in [SUBSET S -> Int]
      <3>1. ASSUME NEW T \in SUBSET S PROVE u[T] \in Int
        <4>1. CASE T = {}
          BY <4>1 DEF SumBody
        <4>2. CASE T # {}
          <5>1. u[T] = f[c(T)] + s[T \ {c(T)}]
            BY <4>2 DEF SumBody
          <5> HIDE DEF c, u
          <5> QED
            BY <5>1, <2>2, <4>2
        <4> QED
          BY <4>1, <4>2
      <3>2. u = [T \in SUBSET S |-> u[T]]
        BY DEF SumBody
      <3> HIDE DEF u
      <3> QED
        BY <3>1, <3>2
    <2>4. ASSUME NEW T \in SUBSET S, Cardinality(T) <= n + 1
          PROVE  u[T] = SumBody(f, S, u)[T]
      <3>1. CASE T = {}
        BY <3>1 DEF SumBody
      <3>2. CASE T # {}
        <4>1. c(T) \in T /\ T \ {c(T)} \in SUBSET S
          BY <2>2, <3>2
        <4>2. Cardinality(T \ {c(T)}) <= n
          <5> HIDE DEF c
          <5> QED
            BY <2>4, <3>2, <4>1, Smaller
        <4>3. u[T \ {c(T)}] = s[T \ {c(T)}]
          BY <2>1, <4>1, <4>2
        <4>4. u[T] = f[c(T)] + s[T \ {c(T)}]
          BY <3>2 DEF SumBody
        <4>5. SumBody(f, S, u)[T] = f[c(T)] + u[T \ {c(T)}]
          <5> HIDE DEF u
          <5> QED
            BY <3>2 DEF SumBody
        <4> QED
          BY <4>3, <4>4, <4>5
      <3> QED
        BY <3>1, <3>2
    <2>5. Upto(n + 1, u)
      <3> HIDE DEF u
      <3> QED
        BY <2>4
    <2> HIDE DEF u
    <2>6. P(n + 1)
      <3> HIDE DEF Upto
      <3> QED
        BY <2>3, <2>5
    <2> QED
      BY <2>6
  <1>3. Nat \subseteq X
    <2> HIDE DEF X
    <2> QED
      BY <1>1, <1>2, Induct
  <1>4. Cardinality(S) \in Nat
    BY FS_CardinalityType
  <1>5. PICK s \in [SUBSET S -> Int] : Upto(Cardinality(S), s)
    BY <1>3, <1>4
  <1>6. ASSUME NEW T \in SUBSET S PROVE s[T] = SumBody(f, S, s)[T]
    BY <1>5, FS_Subset
  <1>7. s = SumBody(f, S, s)
    BY <1>6 DEF SumBody
  <1> QED
    BY <1>7

\* and they are the same where f is.
LEMMA SumsAgree ==
  ASSUME NEW S, IsFiniteSet(S), NEW f, NEW s, s = SumBody(f, S, s),
         NEW S2, NEW f2, NEW s2, s2 = SumBody(f2, S2, s2),
         NEW U, U \subseteq S, U \subseteq S2, \A x \in U : f[x] = f2[x]
  PROVE  s[U] = s2[U]
  <1> DEFINE X == {n \in Nat : \A T \in SUBSET U : Cardinality(T) <= n => s[T] = s2[T]}
             c(T) == CHOOSE x \in T : TRUE
  <1>0. IsFiniteSet(U)
    BY FS_Subset
  <1>1. ASSUME NEW T \in SUBSET U
        PROVE  /\ T = {} => s[T] = 0 /\ s2[T] = 0
               /\ T # {} => /\ c(T) \in T /\ T \ {c(T)} \in SUBSET U
                            /\ s[T] = f[c(T)] + s[T \ {c(T)}]
                            /\ s2[T] = f[c(T)] + s2[T \ {c(T)}]
    <2>1. T \in SUBSET S /\ T \in SUBSET S2
      BY <1>1
    <2>2. s[T] = SumBody(f, S, s)[T] /\ s2[T] = SumBody(f2, S2, s2)[T]
      OBVIOUS
    <2>3. s[T] = IF T = {} THEN 0 ELSE f[c(T)] + s[T \ {c(T)}]
      BY <2>1, <2>2 DEF SumBody
    <2>4. s2[T] = IF T = {} THEN 0 ELSE f2[c(T)] + s2[T \ {c(T)}]
      BY <2>1, <2>2 DEF SumBody
    <2>5. T # {} => c(T) \in T
      OBVIOUS
    <2> HIDE DEF c
    <2>6. T # {} => f[c(T)] = f2[c(T)]
      BY <2>5
    <2> QED
      BY <2>3, <2>4, <2>5, <2>6
  <1>2. 0 \in X
    <2> SUFFICES ASSUME NEW T \in SUBSET U, Cardinality(T) <= 0 PROVE s[T] = s2[T]
      OBVIOUS
    <2>1. IsFiniteSet(T) /\ Cardinality(T) \in Nat
      BY <1>0, FS_Subset, FS_CardinalityType
    <2>2. T = {}
      BY <2>1, FS_EmptySet
    <2> QED
      BY <1>1, <2>2
  <1>3. ASSUME NEW n \in Nat, n \in X PROVE n + 1 \in X
    <2> SUFFICES ASSUME NEW T \in SUBSET U, Cardinality(T) <= n + 1 PROVE s[T] = s2[T]
      OBVIOUS
    <2>1. CASE T = {}
      BY <1>1, <2>1
    <2>2. CASE T # {}
      <3> HIDE DEF c
      <3>1. c(T) \in T /\ T \ {c(T)} \in SUBSET U
        BY <1>1, <2>2
      <3>2. Cardinality(T \ {c(T)}) <= n
        BY <1>0, <2>2, <3>1, Smaller
      <3>3. s[T \ {c(T)}] = s2[T \ {c(T)}]
        BY <1>3, <3>1, <3>2
      <3> QED
        BY <1>1, <2>2, <3>3
    <2> QED
      BY <2>1, <2>2
  <1>4. Nat \subseteq X
    <2> HIDE DEF X
    <2> QED
      BY <1>2, <1>3, Induct
  <1>5. Cardinality(U) \in X
    BY <1>0, <1>4, FS_CardinalityType
  <1>6. Cardinality(U) <= Cardinality(U)
    BY <1>0, FS_CardinalityType
  <1> QED
    BY <1>5, <1>6

LEMMA SumsAre ==
  ASSUME NEW S, IsFiniteSet(S), NEW f \in [S -> Int]
  PROVE  Sums(f, S) = SumBody(f, S, Sums(f, S)) /\ \A T \in SUBSET S : Sums(f, S)[T] \in Int
  <1>1. PICK s \in [SUBSET S -> Int] : s = SumBody(f, S, s)
    BY SumsExist
  <1>2. Sums(f, S) = SumBody(f, S, Sums(f, S))
    <2> DEFINE Body(u) == SumBody(f, S, u)
    <2>1. s = Body(s)
      BY <1>1
    <2>2. Sums(f, S) = CHOOSE u : u = Body(u)
      BY DEF Sums
    <2> HIDE DEF Body
    <2>3. Sums(f, S) = Body(Sums(f, S))
      BY <2>1, <2>2
    <2> QED
      BY <2>3 DEF Body
  <1>3. ASSUME NEW T \in SUBSET S PROVE Sums(f, S)[T] = s[T]
    BY <1>1, <1>2, SumsAgree
  <1> QED
    BY <1>2, <1>3

\* The sum of f over S.
Sum(f, S) == Sums(f, S)[S]

LEMMA SumInt ==
  ASSUME NEW S, IsFiniteSet(S), NEW f \in [S -> Int]
  PROVE  Sum(f, S) \in Int
BY SumsAre DEF Sum

LEMMA SumEmpty == ASSUME NEW f \in [{} -> Int] PROVE Sum(f, {}) = 0
  <1>1. IsFiniteSet({})
    BY FS_EmptySet
  <1>2. Sums(f, {}) = SumBody(f, {}, Sums(f, {}))
    BY <1>1, SumsAre
  <1> DEFINE s == Sums(f, {})
  <1> HIDE DEF s
  <1>3. s = SumBody(f, {}, s) => s[{}] = 0
    BY DEF SumBody
  <1> QED
    BY <1>2, <1>3 DEF Sum, s

\* Any element may be the one that is added last.
LEMMA SumsStep ==
  ASSUME NEW S, IsFiniteSet(S), NEW f \in [S -> Int], NEW x \in S
  PROVE  Sums(f, S)[S] = f[x] + Sums(f, S)[S \ {x}]
  <1> DEFINE s == Sums(f, S)
             c(T) == CHOOSE y \in T : TRUE
             X == {n \in Nat : \A T \in SUBSET S : Cardinality(T) <= n =>
                     \A y \in T : s[T] = f[y] + s[T \ {y}]}
  <1>1. s = SumBody(f, S, s) /\ \A T \in SUBSET S : s[T] \in Int
    BY SumsAre
  <1> HIDE DEF s
  <1>2. ASSUME NEW T \in SUBSET S, T # {}
        PROVE  c(T) \in T /\ T \ {c(T)} \in SUBSET S /\ s[T] = f[c(T)] + s[T \ {c(T)}]
    <2>1. s[T] = SumBody(f, S, s)[T]
      BY <1>1
    <2>2. s[T] = f[c(T)] + s[T \ {c(T)}]
      BY <1>2, <2>1 DEF SumBody
    <2>3. c(T) \in T
      BY <1>2
    <2> HIDE DEF c
    <2> QED
      BY <2>2, <2>3
  <1> HIDE DEF c
  <1>3. 0 \in X
    <2> SUFFICES ASSUME NEW T \in SUBSET S, Cardinality(T) <= 0, NEW y \in T PROVE FALSE
      OBVIOUS
    <2>1. IsFiniteSet(T) /\ Cardinality(T) \in Nat
      BY FS_Subset, FS_CardinalityType
    <2> QED
      BY <2>1, FS_EmptySet
  <1>4. ASSUME NEW n \in Nat, n \in X PROVE n + 1 \in X
    <2> SUFFICES ASSUME NEW T \in SUBSET S, Cardinality(T) <= n + 1, NEW y \in T
                 PROVE  s[T] = f[y] + s[T \ {y}]
      OBVIOUS
    <2>1. c(T) \in T /\ s[T] = f[c(T)] + s[T \ {c(T)}]
      BY <1>2
    <2>2. CASE c(T) = y
      BY <2>1, <2>2
    <2>3. CASE c(T) # y
      <3> DEFINE V == T \ {c(T)}
                 W == T \ {y}
      <3>1. V \in SUBSET S /\ Cardinality(V) <= n
        BY <2>1, Smaller
      <3>2. W \in SUBSET S /\ Cardinality(W) <= n
        BY Smaller
      <3>3. y \in V /\ c(T) \in W /\ V \ {y} = W \ {c(T)}
        BY <2>1, <2>3
      <3>4. V \ {y} \in SUBSET S
        BY <3>1
      <3>5. s[V] = f[y] + s[V \ {y}]
        BY <1>4, <3>1, <3>3
      <3>6. s[W] = f[c(T)] + s[W \ {c(T)}]
        BY <1>4, <3>2, <3>3
      <3>7. f[y] \in Int /\ f[c(T)] \in Int /\ s[V \ {y}] \in Int
        BY <1>1, <2>1, <3>4
      <3>8. s[T] = f[c(T)] + s[V]
        BY <2>1
      <3> DEFINE rest == s[V \ {y}]
      <3>a. s[V] = f[y] + rest /\ s[W] = f[c(T)] + rest /\ rest \in Int
        BY <3>3, <3>5, <3>6, <3>7
      <3> HIDE DEF V, W, rest
      <3>9. s[T] = f[y] + s[W]
        BY <3>7, <3>8, <3>a
      <3> QED
        BY <3>9 DEF W
    <2> QED
      BY <2>2, <2>3
  <1>5. Nat \subseteq X
    <2> HIDE DEF X
    <2> QED
      BY <1>3, <1>4, Induct
  <1> DEFINE m == Cardinality(S)
  <1>6. m \in X /\ m <= m
    <2>1. m \in Nat
      BY FS_CardinalityType
    <2> HIDE DEF X, m
    <2> QED
      BY <1>5, <2>1
  <1>7. S \in SUBSET S
    OBVIOUS
  <1> QED
    BY <1>6, <1>7 DEF s

\* One more element.
LEMMA SumAdd ==
  ASSUME NEW S, IsFiniteSet(S), NEW x, x \notin S, NEW f \in [S -> Int],
         NEW g \in [S \cup {x} -> Int], \A y \in S : g[y] = f[y]
  PROVE  Sum(g, S \cup {x}) = Sum(f, S) + g[x]
  <1> DEFINE R == S \cup {x}
  <1>1. IsFiniteSet(R)
    BY FS_AddElement
  <1>2. x \in R /\ R \ {x} = S
    OBVIOUS
  <1>3. Sums(g, R)[R] = g[x] + Sums(g, R)[S]
    BY <1>1, <1>2, SumsStep
  <1>4. Sums(g, R) = SumBody(g, R, Sums(g, R)) /\ Sums(f, S) = SumBody(f, S, Sums(f, S))
    BY <1>1, SumsAre
  <1>5. S \subseteq R
    OBVIOUS
  <1>6. Sums(g, R)[S] = Sums(f, S)[S]
    BY <1>1, <1>4, <1>5, SumsAgree
  <1>7. g[x] \in Int /\ Sums(f, S)[S] \in Int
    BY SumsAre
  <1> QED
    BY <1>3, <1>6, <1>7 DEF Sum

\* One element with another value.
LEMMA SumChange ==
  ASSUME NEW S, IsFiniteSet(S), NEW x \in S, NEW f \in [S -> Int], NEW g \in [S -> Int],
         \A y \in S \ {x} : g[y] = f[y]
  PROVE  Sum(g, S) = Sum(f, S) - f[x] + g[x]
  <1>1. Sums(g, S)[S] = g[x] + Sums(g, S)[S \ {x}]
    BY SumsStep
  <1>2. Sums(f, S)[S] = f[x] + Sums(f, S)[S \ {x}]
    BY SumsStep
  <1>3. Sums(g, S) = SumBody(g, S, Sums(g, S)) /\ Sums(f, S) = SumBody(f, S, Sums(f, S))
    BY SumsAre
  <1>4. S \ {x} \subseteq S
    OBVIOUS
  <1>5. Sums(g, S)[S \ {x}] = Sums(f, S)[S \ {x}]
    BY <1>3, <1>4, SumsAgree
  <1>6. f[x] \in Int /\ g[x] \in Int /\ Sums(f, S)[S \ {x}] \in Int
    BY <1>4, SumsAre
  <1> QED
    BY <1>1, <1>2, <1>5, <1>6 DEF Sum

\* Two of them.
LEMMA SumChangeTwo ==
  ASSUME NEW S, IsFiniteSet(S), NEW x \in S, NEW z \in S, x # z,
         NEW f \in [S -> Int], NEW g \in [S -> Int],
         \A y \in S \ {x, z} : g[y] = f[y]
  PROVE  Sum(g, S) = Sum(f, S) - f[x] + g[x] - f[z] + g[z]
  <1> DEFINE h == [f EXCEPT ![x] = g[x]]
  <1>1. h \in [S -> Int] /\ h[x] = g[x] /\ \A y \in S \ {x} : h[y] = f[y]
    OBVIOUS
  <1> HIDE DEF h
  <1>2. Sum(h, S) = Sum(f, S) - f[x] + h[x]
    BY <1>1, SumChange
  <1>3. \A y \in S \ {z} : g[y] = h[y]
    BY <1>1
  <1>4. Sum(g, S) = Sum(h, S) - h[z] + g[z]
    BY <1>1, <1>3, SumChange
  <1>5. h[z] = f[z] /\ h[x] = g[x]
    BY <1>1
  <1>6. /\ f[x] \in Int /\ f[z] \in Int /\ g[x] \in Int /\ g[z] \in Int
        /\ Sum(f, S) \in Int
    BY SumInt
  <1> QED
    BY <1>2, <1>4, <1>5, <1>6

\* The sums of the model are sums.
LEMMA SumOfHistory ==
  ASSUME NEW S, IsFiniteSet(S), \A h \in S : h.amount \in Int
  PROVE  MapThenSumSet(LAMBDA h : h.amount, S) = Sum([h \in S |-> h.amount], S)
  <1> DEFINE f == [h \in S |-> h.amount]
             Body(s) == [T \in SUBSET S |->
               IF T = {} THEN 0
               ELSE (CHOOSE x \in T : TRUE).amount + s[T \ {CHOOSE x \in T : TRUE}]]
             u == CHOOSE s : s = Body(s)
  <1>1. MapThenSumSet(LAMBDA h : h.amount, S) = u[S]
    BY DEF MapThenSumSet, MapThenFoldSet
  <1>2. f \in [S -> Int]
    OBVIOUS
  <1>3. \A s : Body(s) = SumBody(f, S, s)
    <2> SUFFICES ASSUME NEW s, NEW T \in SUBSET S PROVE Body(s)[T] = SumBody(f, S, s)[T]
      BY DEF SumBody
    <2>1. CASE T = {}
      BY <2>1 DEF SumBody
    <2>2. CASE T # {}
      <3> DEFINE c == CHOOSE x \in T : TRUE
      <3>1. c \in T
        BY <2>2
      <3>2. Body(s)[T] = c.amount + s[T \ {c}]
        BY <2>2
      <3>3. SumBody(f, S, s)[T] = f[c] + s[T \ {c}]
        BY <2>2 DEF SumBody
      <3> HIDE DEF c
      <3>4. f[c] = c.amount
        BY <3>1
      <3> QED
        BY <3>2, <3>3, <3>4
    <2> QED
      BY <2>1, <2>2
  <1> HIDE DEF Body
  <1>4. Sums(f, S) = Body(Sums(f, S))
    BY <1>2, <1>3, SumsAre
  <1>5. u = Body(u)
    BY <1>4
  <1> HIDE DEF u
  <1>6. u = SumBody(f, S, u) /\ Sums(f, S) = SumBody(f, S, Sums(f, S))
    BY <1>2, <1>3, <1>5, SumsAre
  <1>7. u[S] = Sums(f, S)[S]
    BY <1>6, SumsAgree
  <1> QED
    BY <1>1, <1>7 DEF Sum

-------------------------------------------------------------------------------
(* Numbers of a fixed width.                                               *)

LEMMA WrapFits == ASSUME NEW x \in Int PROVE Wrap(x) \in Fitting
BY HalfAssumption DEF Wrap, Fitting
LEMMA ModIs == ASSUME NEW x \in Int, NEW m \in Nat \ {0}
  PROVE \E q \in Int : x = q * m + (x % m) /\ x % m \in 0 .. m - 1
  <1> DEFINE q == x \div m
             r == x % m
  <1>1. m > 0 /\ m \in Nat
    OBVIOUS
  <1>2. x = m * q + r
    BY <1>1
  <1>3. r \in 0 .. m - 1 /\ q \in Int
    BY <1>1
  <1> HIDE DEF q, r
  <1>4. x = q * m + r
    BY <1>2, <1>3
  <1> QED
    BY <1>3, <1>4 DEF r

LEMMA ModUnique == ASSUME NEW m \in Nat \ {0}, NEW q \in Int, NEW p \in Int, 
   NEW r \in 0 .. m - 1, NEW s \in 0 .. m - 1, q * m + r = p * m + s
   PROVE r = s
  <1>1. CASE q > p
    <2>1. q - p >= 1 /\ (q - p) * m = s - r
      BY <1>1
    <2>2. (q - p) * m >= m
      BY <2>1
    <2> QED
     BY <2>1, <2>2
  <1>2. CASE q < p
    <2>1. p - q >= 1 /\ (p - q) * m = r - s
      BY <1>2
    <2>2. (p - q) * m >= m
      BY <2>1
    <2> QED
     BY <2>1, <2>2
  <1>3. CASE q = p
    BY <1>3
  <1> QED BY <1>1, <1>2, <1>3

LEMMA ModShift == ASSUME NEW x \in Int, NEW y \in Int, NEW m \in Nat \ {0}
  PROVE ((x % m) + y) % m = (x + y) % m
  <1>1. PICK q \in Int : x = q * m + (x % m) /\ x % m \in 0 .. m - 1
    BY ModIs
  <1> DEFINE a == x % m
             z == a + y
  <1>2. z \in Int
    BY <1>1
  <1>3. PICK p \in Int : z = p * m + (z % m) /\ z % m \in 0 .. m - 1
    BY <1>2, ModIs
  <1> DEFINE w == x + y
  <1>w. w \in Int
    OBVIOUS
  <1>4. PICK o \in Int : w = o * m + (w % m) /\ w % m \in 0 .. m - 1
    BY <1>w, ModIs
  <1> DEFINE r == z % m
             t == w % m
  <1>5. r \in 0 .. m - 1 /\ t \in 0 .. m - 1 /\ z = p * m + r /\ w = o * m + t
    BY <1>3, <1>4
  <1>6. w = q * m + z /\ w \in Int
    <2>1. x = q * m + a /\ a \in Int /\ q * m \in Int
      BY <1>1
    <2> HIDE DEF a
    <2> QED
      BY <2>1
  <1> HIDE DEF z, w, r, t
  <1>7. (q + p) * m = q * m + p * m /\ q * m \in Int /\ p * m \in Int /\ q + p \in Int
    OBVIOUS
  <1>8. (q + p) * m + r = o * m + t
    BY <1>5, <1>6, <1>7
  <1>9. r = t
    BY <1>5, <1>7, <1>8, ModUnique
  <1> QED
    BY <1>9 DEF r, t, z, w

\* A sum may be cut to its width on the way,
LEMMA WrapShift ==
  ASSUME NEW x \in Int, NEW y \in Int
  PROVE  Wrap(Wrap(x) + y) = Wrap(x + y)
  <1> DEFINE m == 2 * Half
             z == x + Half
             w == (z % m) + y
  <1>1. m \in Nat \ {0} /\ z \in Int /\ Half \in Int
    BY HalfAssumption
  <1>2. z % m \in Int
    <2> HIDE DEF z, m
    <2> QED
      BY <1>1, ModIs
  <1>3. w % m = (z + y) % m
    <2> HIDE DEF z, m
    <2> QED
      BY <1>1, ModShift
  <1>4. Wrap(x) = (z % m) - Half
    BY DEF Wrap
  <1>5. (Wrap(x) + y) + Half = w
    <2> DEFINE v == z % m
    <2>1. v \in Int /\ Wrap(x) = v - Half /\ w = v + y
      BY <1>2, <1>4
    <2> HIDE DEF v, w
    <2> QED
      BY <1>1, <2>1
  <1>6. (x + y) + Half = z + y
    BY <1>1
  <1>7. Wrap(Wrap(x) + y) = (w % m) - Half /\ Wrap(x + y) = ((z + y) % m) - Half
    BY <1>5, <1>6 DEF Wrap
  <1> QED
    BY <1>3, <1>7

\* and what fits stays as it is.
LEMMA WrapStays == ASSUME NEW x \in Fitting PROVE Wrap(x) = x
  <1> DEFINE m == 2 * Half
             z == x + Half
  <1>1. m \in Nat /\ z \in 0 .. m - 1 /\ Half \in Int /\ x \in Int
    BY HalfAssumption DEF Fitting
  <1>2. Wrap(x) = (z % m) - Half
    BY DEF Wrap
  <1>3. z % m = z
    <2> HIDE DEF z, m
    <2> QED
      BY <1>1
  <1> QED
    BY <1>1, <1>2, <1>3

-------------------------------------------------------------------------------
(* A call depends on the accounts it reads.                                *)

Agree(s1, s2, accounts) == \A a \in accounts : s1[a] = s2[a]

LEMMA ReadsSuffice ==
  ASSUME NEW l \in {"go", "node", "java", "scala"}, NEW r, Routed(l, r),
         NEW s1, NEW s2, Agree(s1, s2, Simulate(l, r, s1).reads)
  PROVE  Simulate(l, r, s2) = Simulate(l, r, s1)
  <1>1. CASE r.fcn = "init"
    BY <1>1 DEF Simulate, Routed
  <1>2. CASE r.fcn = "delete"
    BY <1>2 DEF Simulate, Routed
  <1>3. CASE r.fcn = "getTokens"
    <2>1. Simulate(l, r, s1) = GetTokensScala(r, s1)
          /\ Simulate(l, r, s2) = GetTokensScala(r, s2)
      BY <1>3 DEF Simulate
    <2>2. s1[r.to] = s2[r.to]
      BY <2>1 DEF Agree, GetTokensScala, Success
    <2> QED
      BY <2>1, <2>2 DEF GetTokensScala
  <1>4. CASE r.fcn = "transfer" /\ l = "go"
    <2>1. Simulate(l, r, s1) = MoveGo(r, s1) /\ Simulate(l, r, s2) = MoveGo(r, s2)
      BY <1>4 DEF Simulate
    <2>2. r.from \in MoveGo(r, s1).reads
      BY DEF MoveGo, Success, Error
    <2>3. s1[r.from] # ABSENT => r.to \in MoveGo(r, s1).reads
      BY DEF MoveGo, Success, Error
    <2>4. s1[r.from] = s2[r.from] /\ (s1[r.from] # ABSENT => s1[r.to] = s2[r.to])
      BY <2>1, <2>2, <2>3 DEF Agree
    <2>5. CASE s1[r.from] = ABSENT
      BY <2>1, <2>4, <2>5 DEF MoveGo
    <2>6. CASE s1[r.from] # ABSENT
      <3> DEFINE refused == s1[r.to] = ABSENT \/ r.amount = NaN
      <3>1. CASE refused
        BY <2>1, <2>4, <2>6, <3>1 DEF MoveGo
      <3>2. CASE ~refused
        BY <2>1, <2>4, <2>6, <3>2 DEF MoveGo
      <3> QED
        BY <3>1, <3>2
    <2> QED
      BY <2>5, <2>6
  <1>5. CASE r.fcn = "transfer" /\ l = "node"
    <2>1. Simulate(l, r, s1) = InvokeNode(r, s1) /\ Simulate(l, r, s2) = InvokeNode(r, s2)
      BY <1>5 DEF Simulate
    <2>2. s1[r.from] = s2[r.from] /\ s1[r.to] = s2[r.to]
      BY <2>1 DEF Agree, InvokeNode, Success
    <2> QED
      BY <2>1, <2>2 DEF InvokeNode
  <1>6. CASE r.fcn = "transfer" /\ l = "java"
    <2>1. Simulate(l, r, s1) = InvokeJava(r, s1) /\ Simulate(l, r, s2) = InvokeJava(r, s2)
      BY <1>6 DEF Simulate
    <2>2. r.from \in InvokeJava(r, s1).reads
      BY DEF InvokeJava, Success, Error
    <2>3. s1[r.from] # ABSENT => r.to \in InvokeJava(r, s1).reads
      BY DEF InvokeJava, Success, Error
    <2>4. s1[r.from] = s2[r.from] /\ (s1[r.from] # ABSENT => s1[r.to] = s2[r.to])
      BY <2>1, <2>2, <2>3 DEF Agree
    <2>5. CASE s1[r.from] = ABSENT
      BY <2>1, <2>4, <2>5 DEF InvokeJava
    <2>6. CASE s1[r.from] # ABSENT
      <3> DEFINE refused == s1[r.to] = ABSENT \/ r.amount = NaN \/ r.amount > s1[r.from]
      <3>1. CASE refused
        BY <2>1, <2>4, <2>6, <3>1 DEF InvokeJava
      <3>2. CASE ~refused
        BY <2>1, <2>4, <2>6, <3>2 DEF InvokeJava
      <3> QED
        BY <3>1, <3>2
    <2> QED
      BY <2>5, <2>6
  <1>7. CASE r.fcn = "transfer" /\ l = "scala"
    <2>1. Simulate(l, r, s1) = TransferScala(r, s1)
          /\ Simulate(l, r, s2) = TransferScala(r, s2)
      BY <1>7 DEF Simulate
    <2>2. r.from \in TransferScala(r, s1).reads
      BY DEF TransferScala, Success
    <2>3. Granted(r, s1) => r.to \in TransferScala(r, s1).reads
      BY DEF TransferScala, Success
    <2>4. s1[r.from] = s2[r.from] /\ (Granted(r, s1) => s1[r.to] = s2[r.to])
      BY <2>1, <2>2, <2>3 DEF Agree
    <2>5. Granted(r, s1) <=> Granted(r, s2)
      BY <2>4 DEF Granted
    <2>6. CASE Granted(r, s1)
      BY <2>1, <2>4, <2>5, <2>6 DEF TransferScala
    <2>7. CASE ~Granted(r, s1)
      BY <2>1, <2>4, <2>5, <2>7 DEF TransferScala
    <2> QED
      BY <2>6, <2>7
  <1> QED
    BY <1>1, <1>2, <1>3, <1>4, <1>5, <1>6, <1>7 DEF Routed

-------------------------------------------------------------------------------
(* The inductive invariant.                                                *)

Known == [Accounts -> Amounts]

\* A state of the ledger, the current one or an earlier one.
Behind(state) ==
  /\ Values(state) \in Known
  /\ \A a \in Accounts :
       /\ state[a].ver \in Nat /\ state[a].ver <= committed[a].ver
       /\ state[a].ver = committed[a].ver => state[a].val = committed[a].val

\* The result of t comes from the accounts s, and if what it has read there is
\* current, s is right about it.
Fits(t, s) ==
  /\ result[t] = Simulate(lang, req[t], s)
  /\ DOMAIN seen[t] = result[t].reads
  /\ \A a \in result[t].reads :
       /\ seen[t][a] \in Nat /\ seen[t][a] <= committed[a].ver
       /\ seen[t][a] = committed[a].ver => s[a] = committed[a].val

Endorsed(t) ==
  /\ req[t] \in Requests /\ Routed(lang, req[t]) /\ result[t].ok
  /\ \E s \in Known : Fits(t, s)

SerialInv ==
  /\ lang \in {"go", "node", "java", "scala"}
  /\ Values(committed) \in Known
  /\ \A a \in Accounts : committed[a].ver \in Nat
  /\ DOMAIN ledger = Peers /\ \A p \in Peers : Behind(ledger[p])
  /\ pc \in [Tx -> {"idle", "endorsed", "failed", "valid", "invalid"}]
  /\ DOMAIN req = Tx /\ DOMAIN result = Tx /\ DOMAIN seen = Tx
  /\ \A t \in Tx : pc[t] = "endorsed" => Endorsed(t)

LEMMA SumsTyped ==
  ASSUME NEW x \in Amounts \ {ABSENT}, NEW y \in Fitting \cup {NaN},
         lang \in Fixed => y # NaN, lang \in {"go", "node", "java", "scala"}
  PROVE  Plus(lang, x, y) \in Amounts /\ Minus(lang, x, y) \in Amounts
  <1>1. CASE lang = "node"
    BY <1>1, HalfAssumption, NumberAssumption DEF Plus, Minus, Amounts, Fixed, Fitting
  <1>2. CASE lang \in Fixed
    <2>1. x \in Int /\ y \in Int /\ NaN \notin {x, y}
      BY <1>2, HalfAssumption, NumberAssumption DEF Amounts, Fixed, Fitting
    <2>2. Plus(lang, x, y) = Wrap(x + y) /\ Minus(lang, x, y) = Wrap(x - y)
      BY <1>2, <2>1 DEF Plus, Minus
    <2>3. Wrap(x + y) \in Fitting /\ Wrap(x - y) \in Fitting
      BY <2>1, WrapFits
    <2> QED
      BY <1>2, <2>2, <2>3 DEF Amounts, Fixed
  <1> QED
    BY <1>1, <1>2 DEF Fixed


\* A call reads accounts of the ledger and writes what can be stored.
Sound(res) ==
  /\ res.reads \subseteq Accounts
  /\ \A a \in DOMAIN res.writes : res.writes[a] \in Amounts

LEMMA ErrorSound == ASSUME NEW reads \in SUBSET Accounts PROVE Sound(Error(reads))
BY DEF Sound, Error, NoWrites

LEMMA SuccessSound ==
  ASSUME NEW reads \in SUBSET Accounts, NEW noted,
         NEW a, NEW b, NEW x \in Amounts, NEW y \in Amounts
  PROVE  Sound(Success(reads, PutBoth(a, x, b, y), noted))
BY DEF Sound, Success, PutBoth

\* A transfer, with any two results.
LEMMA TransferSound ==
  ASSUME NEW a \in Accounts, NEW b \in Accounts, NEW noted,
         NEW x \in Amounts, NEW y \in Amounts
  PROVE  Sound(Success({a, b}, PutBoth(a, x, b, y), noted))
  <1>1. {a, b} \in SUBSET Accounts
    OBVIOUS
  <1> QED
    BY <1>1, SuccessSound

LEMMA SimulateSound ==
  ASSUME lang \in {"go", "node", "java", "scala"},
         NEW r \in Requests, Routed(lang, r), NEW s \in Known
  PROVE  Sound(Simulate(lang, r, s))
  <1> USE RequestsAssumption DEF Known
  <1>1. CASE r.fcn = "init"
    <2>1. r.x \in Fitting \cup {NaN} /\ r.y \in Fitting \cup {NaN}
      BY <1>1
    <2>2. CASE lang = "go"
      <3>1. Simulate(lang, r, s) = InitGo(r)
        BY <1>1, <2>2 DEF Simulate
      <3>2. NaN \notin {r.x, r.y} => r.x \in Amounts /\ r.y \in Amounts
        BY <2>1, <2>2 DEF Amounts
      <3> QED
        BY <3>1, <3>2, ErrorSound, SuccessSound DEF InitGo
    <2>3. CASE lang = "node"
      <3>1. Simulate(lang, r, s) = InitNode(r)
        BY <1>1, <2>3 DEF Simulate
      <3>2. r.x \in Amounts /\ r.y \in Amounts
        BY <2>1, <2>3, HalfAssumption DEF Amounts, Fitting
      <3> QED
        BY <3>1, <3>2, ErrorSound, SuccessSound DEF InitNode
    <2>4. CASE lang = "java"
      <3>1. Simulate(lang, r, s) = InitJava(r)
        BY <1>1, <2>4 DEF Simulate
      <3>2. NaN \notin {r.x, r.y} => r.x \in Amounts /\ r.y \in Amounts
        BY <2>1, <2>4 DEF Amounts
      <3> QED
        BY <3>1, <3>2, ErrorSound, SuccessSound DEF InitJava
    <2> QED
      BY <1>1, <2>2, <2>3, <2>4 DEF Routed
  <1>2. CASE r.fcn = "delete"
    <2>1. Simulate(lang, r, s) = Delete(r)
      BY <1>2 DEF Simulate
    <2> QED
      BY <2>1 DEF Delete, Success, Sound, Amounts
  <1>3. CASE r.fcn = "getTokens"
    <2>1. Simulate(lang, r, s) = GetTokensScala(r, s) /\ lang = "scala"
      BY <1>3 DEF Simulate, Routed
    <2>2. r.to \in Accounts /\ r.amount \in Fitting
      BY <1>3, <2>1 DEF Routed
    <2>3. r.amount \in Amounts
      BY <2>1, <2>2 DEF Amounts
    <2>4. s[r.to] # ABSENT => Plus("scala", s[r.to], r.amount) \in Amounts
      BY <2>1, <2>2, SumsTyped, HalfAssumption, NumberAssumption DEF Fitting
    <2> QED
      BY <2>1, <2>2, <2>3, <2>4 DEF GetTokensScala, Success, Sound
  <1>4. CASE r.fcn = "transfer"
    <2>1. r.from \in Accounts /\ r.to \in Accounts /\ r.amount \in Fitting \cup {NaN}
      BY <1>4, <1>4 DEF Routed
    <2>2. s[r.from] \in Amounts /\ s[r.to] \in Amounts
      BY <2>1
    <2>3. CASE lang = "go"
      <3>1. Simulate(lang, r, s) = MoveGo(r, s)
        BY <1>4, <2>3 DEF Simulate
      <3>2. ABSENT \notin {s[r.from], s[r.to]} /\ r.amount # NaN =>
              /\ Minus("go", s[r.from], r.amount) \in Amounts
              /\ Plus("go", s[r.to], r.amount) \in Amounts
        BY <2>1, <2>2, <2>3, SumsTyped
      <3> QED
        <4>1. Sound(Error({r.from})) /\ Sound(Error({r.from, r.to}))
          BY <2>1, ErrorSound
        <4>2. CASE ABSENT \in {s[r.from], s[r.to]} \/ r.amount = NaN
          BY <3>1, <4>1, <4>2 DEF MoveGo
        <4>3. CASE ABSENT \notin {s[r.from], s[r.to]} /\ r.amount # NaN
          <5>1. Simulate(lang, r, s) =
                  Success({r.from, r.to},
                          PutBoth(r.from, Minus("go", s[r.from], r.amount),
                                  r.to, Plus("go", s[r.to], r.amount)), FALSE)
            BY <3>1, <4>3 DEF MoveGo
          <5> QED
            BY <2>1, <3>2, <4>3, <5>1, TransferSound
        <4> QED
          BY <4>2, <4>3
    <2>4. CASE lang = "node"
      <3> DEFINE number(a) == IF s[a] = ABSENT THEN NaN ELSE s[a]
      <3>1. Simulate(lang, r, s) =
              Success({r.from, r.to},
                      PutBoth(r.from, Minus("node", number(r.from), r.amount),
                              r.to, Plus("node", number(r.to), r.amount)), FALSE)
        BY <1>4, <2>4 DEF Simulate, InvokeNode
      <3>2. number(r.from) \in Amounts \ {ABSENT} /\ number(r.to) \in Amounts \ {ABSENT}
        BY <2>2, <2>4, NumberAssumption DEF Amounts
      <3> HIDE DEF number
      <3>3. /\ Minus("node", number(r.from), r.amount) \in Amounts
            /\ Plus("node", number(r.to), r.amount) \in Amounts
        BY <2>1, <2>4, <3>2, SumsTyped DEF Fixed
      <3> QED
        BY <2>1, <3>1, <3>3, TransferSound
    <2>5. CASE lang = "java"
      <3>1. Simulate(lang, r, s) = InvokeJava(r, s)
        BY <1>4, <2>5 DEF Simulate
      <3>2. ABSENT \notin {s[r.from], s[r.to]} /\ r.amount # NaN =>
              /\ Minus("java", s[r.from], r.amount) \in Amounts
              /\ Plus("java", s[r.to], r.amount) \in Amounts
        BY <2>1, <2>2, <2>5, SumsTyped
      <3> QED
        <4>1. Sound(Error({r.from})) /\ Sound(Error({r.from, r.to}))
          BY <2>1, ErrorSound
        <4> DEFINE refused ==
              ABSENT \in {s[r.from], s[r.to]} \/ r.amount = NaN \/ r.amount > s[r.from]
        <4>2. CASE refused
          BY <3>1, <4>1, <4>2 DEF InvokeJava
        <4>3. CASE ~refused
          <5>1. Simulate(lang, r, s) =
                  Success({r.from, r.to},
                          PutBoth(r.from, Minus("java", s[r.from], r.amount),
                                  r.to, Plus("java", s[r.to], r.amount)), FALSE)
            BY <3>1, <4>3 DEF InvokeJava
          <5> QED
            BY <2>1, <3>2, <4>3, <5>1, TransferSound
        <4> QED
          BY <4>2, <4>3
    <2>6. CASE lang = "scala"
      <3>1. Simulate(lang, r, s) = TransferScala(r, s)
        BY <1>4, <2>6 DEF Simulate
      <3>2. r.amount \in Fitting
        BY <1>4, <2>1, <2>6 DEF Routed
      <3>3. Granted(r, s) => s[r.from] - r.amount \in Amounts
        BY <2>2, <2>6, <3>2, HalfAssumption, NumberAssumption
           DEF Granted, Amounts, Fitting
      <3>4. s[r.to] # ABSENT => Plus("scala", s[r.to], r.amount) \in Amounts
        BY <2>2, <2>6, <3>2, SumsTyped, HalfAssumption, NumberAssumption DEF Fitting
      <3>5. r.amount \in Amounts
        BY <2>6, <3>2 DEF Amounts
      <3> QED
        <4>1. CASE Granted(r, s)
          <5> DEFINE writes == [k \in {r.from, r.to} |->
                IF k = r.from THEN s[r.from] - r.amount
                ELSE IF s[r.to] = ABSENT THEN r.amount
                ELSE Plus("scala", s[r.to], r.amount)]
          <5>1. Simulate(lang, r, s) = Success({r.from, r.to}, writes, TRUE)
            BY <3>1, <4>1 DEF TransferScala
          <5>2. \A k \in DOMAIN writes : writes[k] \in Amounts
            BY <3>3, <3>4, <3>5, <4>1
          <5> HIDE DEF writes
          <5> QED
            BY <2>1, <5>1, <5>2 DEF Success, Sound
        <4>2. CASE ~Granted(r, s)
          BY <2>1, <3>1, <4>2 DEF TransferScala, Success, Sound, NoWrites
        <4> QED
          BY <4>1, <4>2
    <2> QED
      BY <2>3, <2>4, <2>5, <2>6
  <1> QED
    BY <1>1, <1>2, <1>3, <1>4 DEF Routed

-------------------------------------------------------------------------------
(* Every step of the pipeline, and what the commit of a transaction does.  *)

\* A result whose accounts are current is the result on the current accounts.
LEMMA CurrentResult ==
  ASSUME SerialInv, NEW t \in Tx, pc[t] = "endorsed", Current(t)
  PROVE  /\ req[t] \in Requests /\ Routed(lang, req[t]) /\ result[t].ok
         /\ result[t] = Simulate(lang, req[t], Values(committed))
         /\ Sound(result[t])
  <1>1. req[t] \in Requests /\ Routed(lang, req[t]) /\ result[t].ok
    BY DEF SerialInv, Endorsed
  <1>2. PICK s \in Known : Fits(t, s)
    BY DEF SerialInv, Endorsed
  <1>3. result[t] = Simulate(lang, req[t], s) /\ Sound(result[t])
    BY <1>1, <1>2, SimulateSound DEF Fits, SerialInv
  <1>4. \A a \in result[t].reads : s[a] = Values(committed)[a]
    BY <1>2, <1>3 DEF Fits, Current, Values, Sound
  <1>5. Agree(s, Values(committed), Simulate(lang, req[t], s).reads)
    BY <1>3, <1>4 DEF Agree
  <1>6. Simulate(lang, req[t], Values(committed)) = Simulate(lang, req[t], s)
    BY <1>1, <1>5, ReadsSuffice DEF SerialInv
  <1> QED
    BY <1>1, <1>3, <1>6

LEMMA CommitApplies ==
  ASSUME SerialInv, NEW t \in Tx, CommitValid(t)
  PROVE  Values(committed') = Applied(result[t], Values(committed))
BY DEF CommitValid, Values, Applied

LEMMA InitSerial == Init => SerialInv
  <1> SUFFICES ASSUME Init PROVE SerialInv
    OBVIOUS
  <1>1. Values(committed) \in Known /\ \A a \in Accounts : committed[a].ver \in Nat
    BY OpeningAssumption DEF Init, Values, Known, Amounts, Fitting
  <1>2. \A p \in Peers : ledger[p] = committed
    BY DEF Init
  <1>3. \A p \in Peers : Behind(ledger[p])
    BY <1>1, <1>2 DEF Behind
  <1> QED
    BY <1>1, <1>3 DEF Init, SerialInv

LEMMA EndorseSerial ==
  ASSUME SerialInv, NEW t \in Tx, NEW p \in Peers, NEW r \in Requests,
         Endorse(t, p, r)
  PROVE  SerialInv'
  <1> DEFINE s == Values(ledger[p])
             res == Simulate(lang, r, s)
  <1>1. /\ pc' = [pc EXCEPT ![t] = IF res.ok THEN "endorsed" ELSE "failed"]
        /\ req' = [req EXCEPT ![t] = r] /\ result' = [result EXCEPT ![t] = res]
        /\ seen' = [seen EXCEPT ![t] = [a \in res.reads |-> ledger[p][a].ver]]
        /\ Routed(lang, r) /\ UNCHANGED <<lang, committed, ledger>>
    BY DEF Endorse
  <1>2. s \in Known /\ Behind(ledger[p])
    BY DEF SerialInv, Behind
  <1>3. Sound(res)
    BY <1>1, <1>2, SimulateSound DEF SerialInv
  <1>4. \A a \in res.reads :
          /\ ledger[p][a].ver \in Nat /\ ledger[p][a].ver <= committed[a].ver
          /\ ledger[p][a].ver = committed[a].ver => s[a] = committed[a].val
    BY <1>2, <1>3 DEF Sound, Behind, Values
  <1> HIDE DEF s, res
  <1>5. pc'[t] = "endorsed" => Endorsed(t)'
    <2> SUFFICES ASSUME pc'[t] = "endorsed" PROVE Endorsed(t)'
      OBVIOUS
    <2>1. res.ok /\ req'[t] = r /\ result'[t] = res
          /\ seen'[t] = [a \in res.reads |-> ledger[p][a].ver]
      BY <1>1 DEF SerialInv
    <2>2. res = Simulate(lang, r, s)
      BY DEF res
    <2>3. result'[t] = Simulate(lang', req'[t], s)
      BY <1>1, <2>1, <2>2
    <2>4. /\ DOMAIN seen'[t] = result'[t].reads
          /\ \A a \in result'[t].reads :
               /\ seen'[t][a] \in Nat /\ seen'[t][a] <= committed'[a].ver
               /\ seen'[t][a] = committed'[a].ver => s[a] = committed'[a].val
      BY <1>1, <1>4, <2>1
    <2>5. Known' = Known
      BY <1>1 DEF Known, Amounts
    <2> QED
      BY <1>1, <1>2, <2>1, <2>3, <2>4, <2>5 DEF Endorsed, Fits
  <1>6. ASSUME NEW u \in Tx, u # t, pc'[u] = "endorsed" PROVE Endorsed(u)'
    BY <1>1, <1>6 DEF SerialInv, Endorsed, Fits, Known, Amounts
  <1>7. \A q \in Peers : Behind(ledger[q])'
    BY <1>1 DEF SerialInv, Behind, Known, Amounts, Values
  <1> QED
    BY <1>1, <1>5, <1>6, <1>7 DEF SerialInv, Known, Amounts, Values

LEMMA CommitValidSerial ==
  ASSUME SerialInv, NEW t \in Tx, CommitValid(t)
  PROVE  SerialInv'
  <1>1. /\ pc[t] = "endorsed" /\ Current(t) /\ pc' = [pc EXCEPT ![t] = "valid"]
        /\ committed' = [a \in Accounts |->
              IF a \in DOMAIN result[t].writes
              THEN [ver |-> committed[a].ver + 1, val |-> result[t].writes[a]]
              ELSE committed[a]]
        /\ UNCHANGED <<lang, ledger, req, seen, result>>
    BY DEF CommitValid
  <1>2. Sound(result[t])
    BY <1>1, CurrentResult
  <1>3. Known' = Known /\ Amounts' = Amounts
    BY <1>1 DEF Known, Amounts
  <1>4. Values(committed)' \in Known
    BY <1>1, <1>2 DEF Sound, SerialInv, Known, Values
  <1>5. \A a \in Accounts :
          /\ committed'[a].ver \in Nat /\ committed[a].ver <= committed'[a].ver
          /\ committed'[a].ver = committed[a].ver => committed'[a].val = committed[a].val
    BY <1>1 DEF SerialInv
  <1>6. \A p \in Peers : Behind(ledger[p])'
    BY <1>1, <1>3, <1>5 DEF SerialInv, Behind, Values
  <1>7. ASSUME NEW u \in Tx, pc'[u] = "endorsed" PROVE Endorsed(u)'
    <2>1. pc[u] = "endorsed" /\ Endorsed(u)
      BY <1>1, <1>7 DEF SerialInv
    <2>2. PICK s \in Known : Fits(u, s)
      BY <2>1 DEF Endorsed
    <2>3. Sound(result[u])
      BY <2>1, <2>2, SimulateSound DEF SerialInv, Endorsed, Fits
    <2>4. ASSUME NEW a \in result[u].reads
          PROVE  /\ seen[u][a] \in Nat /\ seen[u][a] <= committed'[a].ver
                 /\ seen[u][a] = committed'[a].ver => s[a] = committed'[a].val
      <3>1. a \in Accounts
        BY <2>3 DEF Sound
      <3>2. /\ seen[u][a] \in Nat /\ seen[u][a] <= committed[a].ver
            /\ seen[u][a] = committed[a].ver => s[a] = committed[a].val
        BY <2>2 DEF Fits
      <3> QED
        BY <1>5, <3>1, <3>2 DEF SerialInv
    <2>5. Fits(u, s)'
      BY <1>1, <2>2, <2>4 DEF Fits
    <2> QED
      BY <1>1, <1>3, <2>1, <2>5 DEF Endorsed
  <1> QED
    BY <1>1, <1>3, <1>4, <1>5, <1>6, <1>7 DEF SerialInv

LEMMA QuietSerial ==
  ASSUME SerialInv, UNCHANGED <<lang, committed, req, seen, result>>,
         pc' \in [Tx -> {"idle", "endorsed", "failed", "valid", "invalid"}],
         \A t \in Tx : pc'[t] = "endorsed" => pc[t] = "endorsed",
         DOMAIN ledger' = Peers,
         \A p \in Peers : ledger'[p] = ledger[p] \/ ledger'[p] = committed
  PROVE  SerialInv'
  <1>1. Known' = Known /\ Amounts' = Amounts
    BY DEF Known, Amounts
  <1>2. \A p \in Peers : Behind(ledger[p])'
    BY <1>1 DEF SerialInv, Behind, Values
  <1>3. \A t \in Tx : pc'[t] = "endorsed" => Endorsed(t)'
    BY <1>1 DEF SerialInv, Endorsed, Fits
  <1> QED
    BY <1>1, <1>2, <1>3 DEF SerialInv, Values

LEMMA NextSerial == SerialInv /\ [Next]_vars => SerialInv'
  <1> SUFFICES ASSUME SerialInv, [Next]_vars PROVE SerialInv'
    OBVIOUS
  <1>1. ASSUME NEW t \in Tx, NEW p \in Peers, NEW r \in Requests, Endorse(t, p, r)
        PROVE  SerialInv'
    BY <1>1, EndorseSerial
  <1>2. ASSUME NEW t \in Tx, CommitValid(t) PROVE SerialInv'
    BY <1>2, CommitValidSerial
  <1>3. ASSUME NEW t \in Tx, CommitInvalid(t) PROVE SerialInv'
    BY <1>3, QuietSerial DEF CommitInvalid, SerialInv
  <1>4. ASSUME NEW p \in Peers, Deliver(p) PROVE SerialInv'
    BY <1>4, QuietSerial DEF Deliver, SerialInv
  <1>5. CASE UNCHANGED vars
    BY <1>5, QuietSerial DEF vars, SerialInv
  <1> QED
    BY <1>1, <1>2, <1>3, <1>4, <1>5 DEF Next, Done

LEMMA AlwaysSerial == Spec => []SerialInv
BY InitSerial, NextSerial, PTL DEF Spec

-------------------------------------------------------------------------------
(* The history of the token contract.                                      *)

\* What a part of the history comes to.
Tally(in, out) ==
  Wrap(MapThenSumSet(LAMBDA h : h.amount, in) - MapThenSumSet(LAMBDA h : h.amount, out))

Amounted(ops) == IsFiniteSet(ops) /\ \A h \in ops : h.amount \in Int

\* One operation more, whatever it is,
LEMMA AmountAdd ==
  ASSUME NEW ops, Amounted(ops), NEW h, h \notin ops, h.amount \in Int
  PROVE  /\ Amounted(ops \cup {h})
         /\ MapThenSumSet(LAMBDA o : o.amount, ops) \in Int
         /\ MapThenSumSet(LAMBDA o : o.amount, ops \cup {h}) =
              MapThenSumSet(LAMBDA o : o.amount, ops) + h.amount
  <1> DEFINE f == [o \in ops |-> o.amount]
             more == ops \cup {h}
             g == [o \in more |-> o.amount]
  <1>1. IsFiniteSet(ops) /\ IsFiniteSet(more)
    BY FS_AddElement DEF Amounted
  <1>2. f \in [ops -> Int] /\ g \in [more -> Int] /\ g[h] = h.amount
        /\ \A y \in ops : g[y] = f[y]
    BY DEF Amounted
  <1>3. \A o \in more : o.amount \in Int
    BY DEF Amounted
  <1>4. MapThenSumSet(LAMBDA o : o.amount, ops) = Sum(f, ops)
    BY <1>1, SumOfHistory DEF Amounted
  <1>5. MapThenSumSet(LAMBDA o : o.amount, more) = Sum(g, more)
    BY <1>1, <1>3, SumOfHistory
  <1>6. Sum(g, more) = Sum(f, ops) + g[h]
    <2> HIDE DEF f, g
    <2> QED
      BY <1>1, <1>2, SumAdd
  <1>7. Sum(f, ops) \in Int
    <2> HIDE DEF f
    <2> QED
      BY <1>1, <1>2, SumInt
  <1>8. Amounted(more)
    BY <1>1, <1>3 DEF Amounted
  <1> HIDE DEF f, g
  <1> QED
    BY <1>2, <1>4, <1>5, <1>6, <1>7, <1>8 DEF more

LEMMA AmountInt ==
  ASSUME NEW ops, Amounted(ops)
  PROVE  MapThenSumSet(LAMBDA o : o.amount, ops) \in Int
  <1>1. MapThenSumSet(LAMBDA o : o.amount, ops) = Sum([o \in ops |-> o.amount], ops)
    BY SumOfHistory DEF Amounted
  <1>2. [o \in ops |-> o.amount] \in [ops -> Int]
    BY DEF Amounted
  <1> QED
    BY <1>1, <1>2, SumInt DEF Amounted

\* to an account,
LEMMA TallyIn ==
  ASSUME NEW in, NEW out, Amounted(in), Amounted(out),
         NEW h, h \notin in, h.amount \in Int
  PROVE  Tally(in \cup {h}, out) = Wrap(Tally(in, out) + h.amount)
  <1> DEFINE i == MapThenSumSet(LAMBDA o : o.amount, in)
             j == MapThenSumSet(LAMBDA o : o.amount, in \cup {h})
             k == MapThenSumSet(LAMBDA o : o.amount, out)
  <1>1. i \in Int /\ j = i + h.amount /\ k \in Int
    BY AmountAdd, AmountInt
  <1>2. Tally(in, out) = Wrap(i - k) /\ Tally(in \cup {h}, out) = Wrap(j - k)
    BY DEF Tally
  <1> HIDE DEF i, j, k
  <1>3. Wrap(Wrap(i - k) + h.amount) = Wrap((i - k) + h.amount)
    <2>1. i - k \in Int
      BY <1>1
    <2> QED
      BY <2>1, WrapShift
  <1>4. j - k = (i - k) + h.amount
    BY <1>1
  <1> QED
    BY <1>2, <1>3, <1>4

\* or from it.
LEMMA TallyOut ==
  ASSUME NEW in, NEW out, Amounted(in), Amounted(out),
         NEW h, h \notin out, h.amount \in Int
  PROVE  Tally(in, out \cup {h}) = Wrap(Tally(in, out) - h.amount)
  <1> DEFINE i == MapThenSumSet(LAMBDA o : o.amount, in)
             j == MapThenSumSet(LAMBDA o : o.amount, out \cup {h})
             k == MapThenSumSet(LAMBDA o : o.amount, out)
  <1>1. i \in Int /\ j = k + h.amount /\ k \in Int
    BY AmountAdd, AmountInt
  <1>2. Tally(in, out) = Wrap(i - k) /\ Tally(in, out \cup {h}) = Wrap(i - j)
    BY DEF Tally
  <1> HIDE DEF i, j, k
  <1>3. -h.amount \in Int /\ i - k \in Int
    BY <1>1
  <1>4. Wrap(Wrap(i - k) + (-h.amount)) = Wrap((i - k) + (-h.amount))
    BY <1>3, WrapShift
  <1>5. Wrap(i - k) \in Int
    BY <1>3, WrapFits, HalfAssumption DEF Fitting
  <1>6. i - j = (i - k) + (-h.amount) /\ Wrap(i - k) - h.amount = Wrap(i - k) + (-h.amount)
    BY <1>1, <1>5
  <1> QED
    BY <1>2, <1>4, <1>6

LEMMA TallyNone == Tally({}, {}) = 0
  <1>1. IsFiniteSet({})
    BY FS_EmptySet
  <1>2. MapThenSumSet(LAMBDA o : o.amount, {}) = Sum([o \in {} |-> o.amount], {})
    BY <1>1, SumOfHistory
  <1>3. [o \in {} |-> o.amount] \in [{} -> Int]
    OBVIOUS
  <1>4. MapThenSumSet(LAMBDA o : o.amount, {}) = 0
    BY <1>2, <1>3, SumEmpty
  <1>5. 0 \in Fitting /\ 0 - 0 = 0
    BY HalfAssumption DEF Fitting
  <1> QED
    BY <1>4, <1>5, WrapStays DEF Tally

In(a) == {h \in history : h.to = a}
Out(a) == {h \in history : h.from = a}

\* The balance of an account is what the history comes to.  Before anything has
\* come in, nothing can have gone out.
Explained(a) ==
  IF In(a) = {} THEN Out(a) = {} /\ Balance(a) = ABSENT
  ELSE Balance(a) = Tally(In(a), Out(a))

\* An operation is entered once, by its transaction.
HistoryInv ==
  lang = "scala" =>
    /\ Amounted(history)
    /\ \A h \in history : h.tx \in Tx /\ pc[h.tx] = "valid"
    /\ \A a \in Accounts : Explained(a)

LEMMA HistoryInit == Init => HistoryInv
  <1> SUFFICES ASSUME Init, lang = "scala" PROVE HistoryInv
    BY DEF HistoryInv
  <1>1. history = {} /\ Amounted(history)
    BY FS_EmptySet DEF Init, Amounted
  <1>2. \A a \in Accounts : Balance(a) = ABSENT
    BY DEF Init, Balance
  <1>3. \A a \in Accounts : In(a) = {} /\ Out(a) = {}
    BY <1>1 DEF In, Out
  <1> QED
    BY <1>1, <1>2, <1>3 DEF HistoryInv, Explained

\* A commit that writes nothing that is noted.
LEMMA HistorySame ==
  ASSUME HistoryInv, UNCHANGED <<lang, history>>,
         \A a \in Accounts : Balance(a)' = Balance(a),
         \A t \in Tx : pc[t] = "valid" => pc'[t] = "valid"
  PROVE  HistoryInv'
  <1>1. \A a \in Accounts : Explained(a)' <=> Explained(a)
    BY DEF Explained, In, Out
  <1> QED
    BY <1>1 DEF HistoryInv

\* What the parts of the history are after another entry.
LEMMA PartsAdd ==
  ASSUME NEW h, history' = history \cup {h}, NEW a
  PROVE  /\ In(a)' = IF h.to = a THEN In(a) \cup {h} ELSE In(a)
         /\ Out(a)' = IF h.from = a THEN Out(a) \cup {h} ELSE Out(a)
BY DEF In, Out

LEMMA PartsAmounted ==
  ASSUME Amounted(history), NEW a
  PROVE  Amounted(In(a)) /\ Amounted(Out(a))
BY FS_Subset DEF Amounted, In, Out

\* The balance of an account that has received m tokens.
Received(a, m) == IF Balance(a) = ABSENT THEN m ELSE Wrap(Balance(a) + m)

\* The entry explains what has become of the balance of a, which has received
\* amount m,
LEMMA ExplainedIn ==
  ASSUME Amounted(history), NEW h, h \notin history, history' = history \cup {h},
         h.amount \in Fitting, NEW a \in Accounts, h.to = a, h.from # a, Explained(a),
         Balance(a) \in Fitting \cup {ABSENT},
         Balance(a)' = Received(a, h.amount)
  PROVE  Explained(a)'
  <1>1. In(a)' = In(a) \cup {h} /\ Out(a)' = Out(a)
    BY PartsAdd
  <1>2. Amounted(In(a)) /\ Amounted(Out(a)) /\ h \notin In(a) /\ h.amount \in Int
    BY PartsAmounted, HalfAssumption DEF In, Fitting
  <1>3. Tally(In(a)', Out(a)') = Wrap(Tally(In(a), Out(a)) + h.amount)
    BY <1>1, <1>2, TallyIn
  <1>4. In(a)' # {}
    BY <1>1
  <1>5. Balance(a)' = Tally(In(a)', Out(a)')
    <2>1. CASE In(a) = {}
      <3>1. Out(a) = {} /\ Balance(a)' = h.amount
        BY <2>1 DEF Explained, Received
      <3>2. Tally(In(a), Out(a)) = 0
        BY <2>1, <3>1, TallyNone
      <3>3. Wrap(0 + h.amount) = h.amount
        BY <1>2, WrapStays
      <3> QED
        BY <1>3, <3>1, <3>2, <3>3
    <2>2. CASE In(a) # {}
      <3>1. Balance(a) = Tally(In(a), Out(a))
        BY <2>2 DEF Explained
      <3>2. Balance(a) # ABSENT
        <4>1. Tally(In(a), Out(a)) \in Int
          BY <1>2, AmountInt, WrapFits, HalfAssumption DEF Tally, Fitting
        <4> QED
          BY <3>1, <4>1, NumberAssumption
      <3> QED
        BY <1>3, <3>1, <3>2 DEF Received
    <2> QED
      BY <2>1, <2>2
  <1> QED
    BY <1>4, <1>5 DEF Explained

\* or spent it.
LEMMA ExplainedOut ==
  ASSUME Amounted(history), NEW h, h \notin history, history' = history \cup {h},
         h.amount \in Fitting, NEW a \in Accounts, h.from = a, h.to # a, Explained(a),
         Balance(a) \in Fitting,
         Balance(a)' \in Fitting, Balance(a)' = Balance(a) - h.amount
  PROVE  Explained(a)'
  <1>1. In(a)' = In(a) /\ Out(a)' = Out(a) \cup {h}
    BY PartsAdd
  <1>2. Amounted(In(a)) /\ Amounted(Out(a)) /\ h \notin Out(a) /\ h.amount \in Int
    BY PartsAmounted, HalfAssumption DEF Out, Fitting
  <1>3. Tally(In(a)', Out(a)') = Wrap(Tally(In(a), Out(a)) - h.amount)
    BY <1>1, <1>2, TallyOut
  <1>4. Balance(a) # ABSENT
    BY NumberAssumption, HalfAssumption DEF Fitting
  <1>5. In(a) # {} /\ Balance(a) = Tally(In(a), Out(a))
    BY <1>4 DEF Explained
  <1>6. Balance(a)' = Wrap(Balance(a)')
    BY WrapStays
  <1> QED
    BY <1>1, <1>3, <1>5, <1>6 DEF Explained

\* What a transfer of the token contract writes.
LEMMA GrantedWrites ==
  ASSUME SerialInv, lang = "scala", NEW t \in Tx, CommitValid(t),
         req[t].fcn = "transfer", Granted(req[t], Values(committed))
  PROVE  LET r == req[t] IN
         /\ result[t].noted /\ r.from # r.to /\ r.amount \in Fitting
         /\ r.from \in Accounts /\ r.to \in Accounts
         /\ Balance(r.from) \in Fitting
         /\ Balance(r.from) - r.amount \in Fitting
         /\ Balance(r.to) \in Fitting \cup {ABSENT}
         /\ \A a \in Accounts : Balance(a)' =
              IF a = r.from THEN Balance(a) - r.amount
              ELSE IF a = r.to THEN Received(a, r.amount)
              ELSE Balance(a)
  <1> DEFINE r == req[t]
             s == Values(committed)
  <1>1. /\ r \in Requests /\ Routed(lang, r)
        /\ result[t] = Simulate(lang, r, s)
    BY CurrentResult DEF CommitValid
  <1>2. r.from \in Accounts /\ r.to \in Accounts /\ r.amount \in Fitting
    BY <1>1, RequestsAssumption DEF Routed
  <1>3. result[t] = TransferScala(r, s)
    BY <1>1 DEF Simulate
  <1>4. \A a \in Accounts : s[a] = Balance(a) /\ Balance(a) \in Fitting \cup {ABSENT}
    BY DEF Values, Balance, SerialInv, Known, Amounts
  <1>5. \A a \in Accounts : Balance(a)' =
          IF a \in DOMAIN result[t].writes THEN result[t].writes[a] ELSE Balance(a)
    BY DEF CommitValid, Balance
  <1> HIDE DEF s
  <1>6. /\ s[r.from] # ABSENT /\ r.from # r.to /\ r.amount >= 0 /\ s[r.from] >= r.amount
    BY DEF Granted, s
  <1>7. result[t] =
          Success({r.from, r.to},
            [k \in {r.from, r.to} |->
               IF k = r.from THEN s[r.from] - r.amount
               ELSE IF s[r.to] = ABSENT THEN r.amount ELSE Plus("scala", s[r.to], r.amount)],
            TRUE)
    BY <1>3 DEF TransferScala, s
  <1>8. /\ result[t].noted /\ DOMAIN result[t].writes = {r.from, r.to}
        /\ result[t].writes[r.from] = s[r.from] - r.amount
        /\ result[t].writes[r.to] =
             IF s[r.to] = ABSENT THEN r.amount ELSE Plus("scala", s[r.to], r.amount)
    BY <1>6, <1>7 DEF Success
  <1>9. s[r.to] # ABSENT => Plus("scala", s[r.to], r.amount) = Wrap(s[r.to] + r.amount)
    BY <1>2, <1>4, NumberAssumption, HalfAssumption DEF Plus, Fixed, Fitting
  <1>10. s[r.from] - r.amount \in Fitting /\ s[r.from] \in Fitting
    BY <1>2, <1>4, <1>6, HalfAssumption DEF Fitting
  <1> HIDE DEF r
  <1>11. result[t].writes[r.to] = Received(r.to, r.amount)
    BY <1>2, <1>4, <1>8, <1>9 DEF Received
  <1>12. result[t].writes[r.from] = Balance(r.from) - r.amount
    BY <1>2, <1>4, <1>8
  <1>13. \A a \in Accounts : Balance(a)' =
           IF a = r.from THEN Balance(a) - r.amount
           ELSE IF a = r.to THEN Received(a, r.amount)
           ELSE Balance(a)
    BY <1>5, <1>8, <1>11, <1>12
  <1>14. Balance(r.from) \in Fitting /\ Balance(r.from) - r.amount \in Fitting
         /\ Balance(r.to) \in Fitting \cup {ABSENT}
    BY <1>2, <1>4, <1>10
  <1> QED
    BY <1>2, <1>6, <1>8, <1>13, <1>14 DEF r

LEMMA TokensWrites ==
  ASSUME SerialInv, lang = "scala", NEW t \in Tx, CommitValid(t),
         req[t].fcn = "getTokens"
  PROVE  LET r == req[t] IN
         /\ result[t].noted /\ r.to \in Accounts /\ r.amount \in Fitting
         /\ Balance(r.to) \in Fitting \cup {ABSENT}
         /\ \A a \in Accounts : Balance(a)' =
              IF a = r.to THEN Received(a, r.amount) ELSE Balance(a)
  <1> DEFINE r == req[t]
             s == Values(committed)
  <1>1. /\ r \in Requests /\ Routed(lang, r)
        /\ result[t] = Simulate(lang, r, s)
    BY CurrentResult DEF CommitValid
  <1>2. r.to \in Accounts /\ r.amount \in Fitting
    BY <1>1, RequestsAssumption DEF Routed
  <1>3. result[t] = GetTokensScala(r, s)
    BY <1>1 DEF Simulate
  <1>4. \A a \in Accounts : s[a] = Balance(a) /\ Balance(a) \in Fitting \cup {ABSENT}
    BY DEF Values, Balance, SerialInv, Known, Amounts
  <1>5. \A a \in Accounts : Balance(a)' =
          IF a \in DOMAIN result[t].writes THEN result[t].writes[a] ELSE Balance(a)
    BY DEF CommitValid, Balance
  <1> HIDE DEF s
  <1>8. /\ result[t].noted /\ DOMAIN result[t].writes = {r.to}
        /\ result[t].writes[r.to] =
             IF s[r.to] = ABSENT THEN r.amount ELSE Plus("scala", s[r.to], r.amount)
    BY <1>3 DEF Success, GetTokensScala
  <1>9. s[r.to] # ABSENT => Plus("scala", s[r.to], r.amount) = Wrap(s[r.to] + r.amount)
    BY <1>2, <1>4, NumberAssumption, HalfAssumption DEF Plus, Fixed, Fitting
  <1> HIDE DEF r
  <1>12. result[t].writes[r.to] = Received(r.to, r.amount)
    BY <1>2, <1>4, <1>8, <1>9 DEF Received
  <1>13. \A a \in Accounts : Balance(a)' =
           IF a = r.to THEN Received(a, r.amount) ELSE Balance(a)
    BY <1>5, <1>8, <1>12
  <1> QED
    BY <1>2, <1>4, <1>8, <1>13 DEF r

LEMMA HistoryCommit ==
  ASSUME SerialInv, HistoryInv, lang = "scala", NEW t \in Tx, CommitValid(t)
  PROVE  HistoryInv'
  <1> DEFINE r == req[t]
             h == Noted(t)
  <1>1. /\ r \in Requests /\ Routed(lang, r)
        /\ result[t] = Simulate(lang, r, Values(committed))
    BY CurrentResult DEF CommitValid
  <1>2. /\ pc[t] = "endorsed" /\ pc' = [pc EXCEPT ![t] = "valid"] /\ lang' = lang
        /\ history' = IF result[t].noted THEN history \cup {h} ELSE history
    BY DEF CommitValid
  <1>3. \A u \in Tx : pc[u] = "valid" => pc'[u] = "valid"
    BY <1>2 DEF SerialInv
  <1>4. pc'[t] = "valid"
    BY <1>2 DEF SerialInv
  <1>5. CASE r.fcn = "transfer" /\ ~Granted(r, Values(committed))
    <2>1. result[t] = Success({r.from}, NoWrites, FALSE)
      BY <1>1, <1>5 DEF Simulate, TransferScala
    <2>2. ~result[t].noted /\ DOMAIN result[t].writes = {}
      BY <2>1 DEF Success, NoWrites
    <2>3. \A a \in Accounts : Balance(a)' = Balance(a)
      BY <2>2 DEF CommitValid, Balance
    <2> QED
      BY <1>2, <1>3, <2>2, <2>3, HistorySame
  <1>6. ASSUME result[t].noted, r.amount \in Fitting
        PROVE  /\ history' = history \cup {h} /\ h \notin history /\ h.amount \in Fitting
               /\ Amounted(history)'
               /\ \A o \in history' : o.tx \in Tx /\ pc'[o.tx] = "valid"
               /\ Amounted(history)
    <2>1. h.tx = t /\ h.amount = r.amount
      BY DEF Noted
    <2>2. history' = history \cup {h}
      BY <1>2, <1>6
    <2>3. \A o \in history : o.tx \in Tx /\ pc[o.tx] = "valid"
      BY DEF HistoryInv
    <2>4. Amounted(history)
      BY DEF HistoryInv
    <2> HIDE DEF h
    <2>5. h \notin history
      BY <1>2, <2>1, <2>3
    <2>6. h.amount \in Int
      BY <1>6, <2>1, HalfAssumption DEF Fitting
    <2>7. Amounted(history)'
      BY <2>2, <2>4, <2>6, FS_AddElement DEF Amounted
    <2>8. \A o \in history' : o.tx \in Tx /\ pc'[o.tx] = "valid"
      BY <1>3, <1>4, <2>1, <2>2, <2>3
    <2> QED
      BY <1>6, <2>1, <2>2, <2>4, <2>5, <2>7, <2>8
  <1>7. ASSUME history' = history \cup {h}, NEW a \in Accounts, h.from # a, h.to # a,
               Balance(a)' = Balance(a), Explained(a)
        PROVE  Explained(a)'
    <2>1. In(a)' = In(a) /\ Out(a)' = Out(a)
      BY <1>7, PartsAdd
    <2> QED
      BY <1>7, <2>1 DEF Explained
  <1>8. \A a \in Accounts : Explained(a)
    BY DEF HistoryInv
  <1>9. CASE r.fcn = "transfer" /\ Granted(r, Values(committed))
    <2>1. /\ result[t].noted /\ r.from # r.to /\ r.amount \in Fitting
          /\ r.from \in Accounts /\ r.to \in Accounts
          /\ Balance(r.from) \in Fitting
          /\ Balance(r.from) - r.amount \in Fitting
          /\ Balance(r.to) \in Fitting \cup {ABSENT}
          /\ \A a \in Accounts : Balance(a)' =
               IF a = r.from THEN Balance(a) - r.amount
               ELSE IF a = r.to THEN Received(a, r.amount)
               ELSE Balance(a)
      BY <1>9, GrantedWrites
    <2>2. h.from = r.from /\ h.to = r.to /\ h.amount = r.amount
      BY <1>9 DEF Noted
    <2> HIDE DEF h, r
    <2>3. ASSUME NEW a \in Accounts PROVE Explained(a)'
      <3>1. CASE a = r.from
        <4>1. h.from = a /\ h.to # a /\ Balance(a)' = Balance(a) - h.amount
          BY <2>1, <2>2, <3>1
        <4> QED
          BY <1>6, <1>8, <2>1, <2>2, <3>1, <4>1, ExplainedOut
      <3>2. CASE a = r.to
        <4>1. h.to = a /\ h.from # a /\ Balance(a)' = Received(a, h.amount)
          BY <2>1, <2>2, <3>2
        <4> QED
          BY <1>6, <1>8, <2>1, <2>2, <3>2, <4>1, ExplainedIn
      <3>3. CASE a \notin {r.from, r.to}
        BY <1>6, <1>7, <1>8, <2>1, <2>2, <3>3
      <3> QED
        BY <3>1, <3>2, <3>3
    <2> QED
      BY <1>6, <2>1, <2>3 DEF HistoryInv
  <1>10. CASE r.fcn = "getTokens"
    <2>1. /\ result[t].noted /\ r.to \in Accounts /\ r.amount \in Fitting
          /\ Balance(r.to) \in Fitting \cup {ABSENT}
          /\ \A a \in Accounts : Balance(a)' =
               IF a = r.to THEN Received(a, r.amount) ELSE Balance(a)
      BY <1>10, TokensWrites
    <2>2. h.from = "faucet" /\ h.to = r.to /\ h.amount = r.amount
      BY <1>10 DEF Noted
    <2>3. \A a \in Accounts : h.from # a
      BY <2>2, AccountsAssumption
    <2> HIDE DEF h, r
    <2>4. ASSUME NEW a \in Accounts PROVE Explained(a)'
      <3>1. CASE a = r.to
        <4>1. h.to = a /\ h.from # a /\ Balance(a)' = Received(a, h.amount)
          BY <2>1, <2>2, <2>3, <3>1
        <4> QED
          BY <1>6, <1>8, <2>1, <2>2, <3>1, <4>1, ExplainedIn
      <3>2. CASE a # r.to
        BY <1>6, <1>7, <1>8, <2>1, <2>2, <2>3, <3>2
      <3> QED
        BY <3>1, <3>2
    <2> QED
      BY <1>6, <2>1, <2>4 DEF HistoryInv
  <1> QED
    BY <1>1, <1>5, <1>9, <1>10 DEF Routed

LEMMA HistoryNext == SerialInv /\ HistoryInv /\ [Next]_vars => HistoryInv'
  <1> SUFFICES ASSUME SerialInv, HistoryInv, [Next]_vars, lang = "scala" PROVE HistoryInv'
    BY DEF HistoryInv, Next, Endorse, CommitValid, CommitInvalid, Deliver, Done, vars
  <1>1. ASSUME NEW t \in Tx, CommitValid(t) PROVE HistoryInv'
    BY <1>1, HistoryCommit
  <1>2. ASSUME UNCHANGED <<lang, committed, history>>,
               \A u \in Tx : pc[u] = "valid" => pc'[u] = "valid"
        PROVE  HistoryInv'
    BY <1>2, HistorySame DEF Balance
  <1>3. ASSUME NEW t \in Tx, NEW p \in Peers, NEW r \in Requests, Endorse(t, p, r)
        PROVE  HistoryInv'
    <2>1. /\ pc[t] = "idle" /\ \A u \in Tx \ {t} : pc'[u] = pc[u]
          /\ UNCHANGED <<lang, committed, history>>
      BY <1>3 DEF Endorse, SerialInv
    <2> QED
      BY <1>2, <2>1
  <1>4. ASSUME NEW t \in Tx, CommitInvalid(t) PROVE HistoryInv'
    <2>1. /\ pc[t] = "endorsed" /\ \A u \in Tx \ {t} : pc'[u] = pc[u]
          /\ UNCHANGED <<lang, committed, history>>
      BY <1>4 DEF CommitInvalid, SerialInv
    <2> QED
      BY <1>2, <2>1
  <1>5. ASSUME NEW p \in Peers, Deliver(p) PROVE HistoryInv'
    BY <1>2, <1>5 DEF Deliver
  <1>6. CASE UNCHANGED vars
    BY <1>2, <1>6 DEF vars
  <1> QED
    BY <1>1, <1>3, <1>4, <1>5, <1>6 DEF Next, Done

-------------------------------------------------------------------------------
(* What a transfer does to the sum of the accounts.                        *)

\* What the account a counts for in the sum.
Worth(state) ==
  [a \in Accounts |-> IF state[a].val \in {ABSENT, NaN} THEN 0 ELSE state[a].val]

\* The sum of the model is the sum of what the accounts are worth.
LEMMA SumOfAccounts ==
  ASSUME NEW state, Worth(state) \in [Accounts -> Int]
  PROVE  Total(state) = IF lang \in Fixed THEN Wrap(Sum(Worth(state), Accounts))
                        ELSE Sum(Worth(state), Accounts)
  <1> DEFINE f == Worth(state)
             worth(a) == IF state[a].val \in {ABSENT, NaN} THEN 0 ELSE state[a].val
             Body(s) == [T \in SUBSET Accounts |->
               IF T = {} THEN 0
               ELSE worth(CHOOSE x \in T : TRUE) + s[T \ {CHOOSE x \in T : TRUE}]]
             u == CHOOSE s : s = Body(s)
  <1>0. IsFiniteSet(Accounts)
    BY AccountsAssumption
  <1>1. Total(state) = IF lang \in Fixed THEN Wrap(u[Accounts]) ELSE u[Accounts]
    BY DEF Total, MapThenSumSet, MapThenFoldSet
  <1>2. \A s : Body(s) = SumBody(f, Accounts, s)
    <2> SUFFICES ASSUME NEW s, NEW T \in SUBSET Accounts
                 PROVE  Body(s)[T] = SumBody(f, Accounts, s)[T]
      BY DEF SumBody
    <2>1. CASE T = {}
      BY <2>1 DEF SumBody
    <2>2. CASE T # {}
      <3> DEFINE c == CHOOSE x \in T : TRUE
      <3>1. c \in T
        BY <2>2
      <3>2. Body(s)[T] = worth(c) + s[T \ {c}]
        BY <2>2
      <3>3. SumBody(f, Accounts, s)[T] = f[c] + s[T \ {c}]
        BY <2>2 DEF SumBody
      <3> HIDE DEF c
      <3>4. f[c] = worth(c)
        BY <3>1 DEF Worth
      <3> QED
        BY <3>2, <3>3, <3>4
    <2> QED
      BY <2>1, <2>2
  <1> HIDE DEF Body, f
  <1>4. Sums(f, Accounts) = Body(Sums(f, Accounts))
    BY <1>0, <1>2, SumsAre DEF f
  <1>5. u = Body(u)
    BY <1>4
  <1> HIDE DEF u
  <1>6. u = SumBody(f, Accounts, u) /\ Sums(f, Accounts) = SumBody(f, Accounts, Sums(f, Accounts))
    BY <1>2, <1>4, <1>5
  <1>7. u[Accounts] = Sums(f, Accounts)[Accounts]
    BY <1>0, <1>6, SumsAgree
  <1> QED
    BY <1>1, <1>7 DEF Sum, f

\* What an account is worth.
LEMMA WorthTyped ==
  ASSUME NEW state, Values(state) \in Known
  PROVE  /\ Worth(state) \in [Accounts -> Int]
         /\ \A a \in Accounts : state[a].val \notin {ABSENT, NaN} =>
              Worth(state)[a] = state[a].val /\ state[a].val \in Int
  <1>1. \A a \in Accounts : state[a].val \in Amounts
    BY DEF Known, Values
  <1>2. Amounts \ {NaN} \subseteq Int \cup {ABSENT}
    BY HalfAssumption DEF Amounts, Fitting
  <1>3. \A a \in Accounts : state[a].val \notin {ABSENT, NaN} => state[a].val \in Int
    BY <1>1, <1>2
  <1> QED
    BY <1>3 DEF Worth

\* A sum, as the chaincode would compute it.
Cut(x) == IF lang \in Fixed THEN Wrap(x) ELSE x

\* Two accounts, one of which gives the other one m, and one who pays himself.
LEMMA CutMove ==
  ASSUME NEW sum \in Int, NEW a \in Int, NEW b \in Int, NEW m \in Int
  PROVE  Cut(sum - a + Cut(a - m) - b + Cut(b + m)) = Cut(sum)
  <1>1. CASE lang \in Fixed
    <2> DEFINE u == Wrap(a - m)
               v == Wrap(b + m)
    <2>1. u \in Int /\ v \in Int
      BY WrapFits, HalfAssumption DEF Fitting
    <2>2. Wrap(u + (sum - a - b + v)) = Wrap((a - m) + (sum - a - b + v))
      <3> HIDE DEF v
      <3> QED
        BY <2>1, WrapShift
    <2>3. Wrap(v + (sum - b - m)) = Wrap((b + m) + (sum - b - m))
      BY WrapShift
    <2>4. Cut(a - m) = u /\ Cut(b + m) = v /\ Cut(sum) = Wrap(sum)
          /\ Cut(sum - a + u - b + v) = Wrap(sum - a + u - b + v)
      BY <1>1 DEF Cut
    <2> HIDE DEF u, v
    <2>5. /\ sum - a + u - b + v = u + (sum - a - b + v)
          /\ (a - m) + (sum - a - b + v) = v + (sum - b - m)
          /\ (b + m) + (sum - b - m) = sum
      BY <2>1
    <2>6. Wrap(sum - a + u - b + v) = Wrap(sum)
      BY <2>2, <2>3, <2>5
    <2> QED
      BY <2>4, <2>6
  <1>2. CASE lang \notin Fixed
    BY <1>2 DEF Cut
  <1> QED
    BY <1>1, <1>2

LEMMA CutSelf ==
  ASSUME NEW sum \in Int, NEW a \in Int, NEW m \in Int
  PROVE  Cut(sum - a + Cut(a + m)) = Cut(Cut(sum) + m)
  <1>1. CASE lang \in Fixed
    <2> DEFINE u == Wrap(a + m)
    <2>1. u \in Int
      BY WrapFits, HalfAssumption DEF Fitting
    <2>2. Wrap(u + (sum - a)) = Wrap((a + m) + (sum - a))
      BY WrapShift
    <2>3. Wrap(Wrap(sum) + m) = Wrap(sum + m)
      BY WrapShift
    <2>4. (a + m) + (sum - a) = sum + m /\ sum - a + u = u + (sum - a)
      <3> HIDE DEF u
      <3> QED
        BY <2>1
    <2> QED
      BY <1>1, <2>2, <2>3, <2>4 DEF Cut
  <1>2. CASE lang \notin Fixed
    BY <1>2 DEF Cut
  <1> QED
    BY <1>1, <1>2

LEMMA CutInt == ASSUME NEW x \in Int PROVE Cut(x) \in Int
BY WrapFits, HalfAssumption DEF Cut, Fitting

\* A state in which from has m less and to has m more than before.
LEMMA MoveKeeps ==
  ASSUME NEW f \in [Accounts -> Int], NEW g \in [Accounts -> Int],
         NEW from \in Accounts, NEW to \in Accounts, NEW m \in Int, from # to,
         g[from] = Cut(f[from] - m), g[to] = Cut(f[to] + m),
         \A a \in Accounts \ {from, to} : g[a] = f[a]
  PROVE  Cut(Sum(g, Accounts)) = Cut(Sum(f, Accounts))
  <1>1. Sum(g, Accounts) = Sum(f, Accounts) - f[from] + g[from] - f[to] + g[to]
    BY SumChangeTwo, AccountsAssumption
  <1>2. Sum(f, Accounts) \in Int /\ f[from] \in Int /\ f[to] \in Int
    BY SumInt, AccountsAssumption
  <1> QED
    BY <1>1, <1>2, CutMove

LEMMA MoveToSelf ==
  ASSUME NEW f \in [Accounts -> Int], NEW g \in [Accounts -> Int],
         NEW to \in Accounts, NEW m \in Int, g[to] = Cut(f[to] + m),
         \A a \in Accounts \ {to} : g[a] = f[a]
  PROVE  Cut(Sum(g, Accounts)) = Cut(Cut(Sum(f, Accounts)) + m)
  <1>1. Sum(g, Accounts) = Sum(f, Accounts) - f[to] + g[to]
    BY SumChange, AccountsAssumption
  <1>2. Sum(f, Accounts) \in Int /\ f[to] \in Int
    BY SumInt, AccountsAssumption
  <1>3. Cut(Sum(f, Accounts) - f[to] + Cut(f[to] + m)) = Cut(Cut(Sum(f, Accounts)) + m)
    BY <1>2, CutSelf
  <1> QED
    BY <1>1, <1>3

\* What a transfer of the copies of example02 writes, when it writes numbers.
LEMMA MoveWrites ==
  ASSUME SerialInv, lang # "scala", NEW t \in Tx, CommitValid(t),
         req[t].fcn = "transfer", ~Unchecked(t)
  PROVE  LET r == req[t] IN
         /\ r.from \in Accounts /\ r.to \in Accounts /\ r.amount \in Int
         /\ Balance(r.from) \notin {ABSENT, NaN} /\ Balance(r.to) \notin {ABSENT, NaN}
         /\ result[t].writes = PutBoth(r.from, Minus(lang, Balance(r.from), r.amount),
                                       r.to, Plus(lang, Balance(r.to), r.amount))
  <1> DEFINE r == req[t]
             s == Values(committed)
  <1>1. /\ r \in Requests /\ Routed(lang, r) /\ result[t].ok
        /\ result[t] = Simulate(lang, r, s)
    BY CurrentResult DEF CommitValid
  <1>2. r.from \in Accounts /\ r.to \in Accounts /\ r.amount \in Fitting \cup {NaN}
    BY <1>1, RequestsAssumption
  <1>3. \A a \in Accounts : s[a] = Balance(a)
    BY DEF Values, Balance
  <1>4. lang # "node" => \A a \in Accounts : s[a] # NaN
    <2>1. lang # "node" => \A a \in Accounts : s[a] \in Fitting \cup {ABSENT}
      BY DEF SerialInv, Known, Amounts
    <2>2. NaN \notin Fitting \cup {ABSENT}
      BY NumberAssumption, HalfAssumption DEF Fitting
    <2> HIDE DEF s
    <2> QED
      BY <2>1, <2>2
  <1>5. r.amount # NaN => r.amount \in Int
    BY <1>2, HalfAssumption DEF Fitting
  <1> HIDE DEF s
  <1>6. CASE lang = "go"
    <2>1. result[t] = MoveGo(r, s)
      BY <1>1, <1>6 DEF Simulate
    <2>2. Error({r.from}).ok = FALSE /\ Error({r.from, r.to}).ok = FALSE
      BY DEF Error
    <2>3. s[r.from] # ABSENT /\ s[r.to] # ABSENT /\ r.amount # NaN
      BY <1>1, <2>1, <2>2 DEF MoveGo
    <2>4. result[t].writes = PutBoth(r.from, Minus("go", s[r.from], r.amount),
                                     r.to, Plus("go", s[r.to], r.amount))
      BY <2>1, <2>3 DEF MoveGo, Success
    <2> QED
      BY <1>2, <1>3, <1>4, <1>5, <1>6, <2>3, <2>4
  <1>7. CASE lang = "java"
    <2>1. result[t] = InvokeJava(r, s)
      BY <1>1, <1>7 DEF Simulate
    <2>2. Error({r.from}).ok = FALSE /\ Error({r.from, r.to}).ok = FALSE
      BY DEF Error
    <2>3. s[r.from] # ABSENT
      BY <1>1, <2>1, <2>2 DEF InvokeJava
    <2>4. ~(s[r.to] = ABSENT \/ r.amount = NaN \/ r.amount > s[r.from])
      BY <1>1, <2>1, <2>2, <2>3 DEF InvokeJava
    <2>5. result[t].writes = PutBoth(r.from, Minus("java", s[r.from], r.amount),
                                     r.to, Plus("java", s[r.to], r.amount))
      BY <2>1, <2>3, <2>4 DEF InvokeJava, Success
    <2> QED
      BY <1>2, <1>3, <1>4, <1>5, <1>7, <2>3, <2>4, <2>5
  <1>8. CASE lang = "node"
    <2> DEFINE number(a) == IF s[a] = ABSENT THEN NaN ELSE s[a]
               low == Minus("node", number(r.from), r.amount)
               high == Plus("node", number(r.to), r.amount)
    <2>1. result[t].writes = PutBoth(r.from, low, r.to, high)
      BY <1>1, <1>8 DEF Simulate, InvokeNode, Success
    <2>2. {s[r.from], s[r.to], r.amount} \cap {ABSENT, NaN} = {}
      BY <1>2, <1>3, <1>8 DEF Unchecked
    <2>4. s[r.to] \notin {ABSENT, NaN} /\ r.amount # NaN
      BY <2>2
    <2>5. s[r.from] \notin {ABSENT, NaN}
      BY <2>2
    <2>6. low = Minus("node", s[r.from], r.amount) /\ high = Plus("node", s[r.to], r.amount)
      BY <2>4, <2>5
    <2> HIDE DEF low, high
    <2> QED
      BY <1>2, <1>3, <1>5, <1>8, <2>1, <2>4, <2>5, <2>6
  <1> QED
    BY <1>6, <1>7, <1>8 DEF SerialInv

\* In Node.js, what is no number leaves one that is no number.
LEMMA UncheckedLoses ==
  ASSUME SerialInv, NEW t \in Tx, CommitValid(t), req[t].fcn = "transfer", Unchecked(t)
  PROVE  NaN \in {Balance(req[t].from)', Balance(req[t].to)'}
  <1> DEFINE r == req[t]
             s == Values(committed)
             number(a) == IF s[a] = ABSENT THEN NaN ELSE s[a]
             low == Minus("node", number(r.from), r.amount)
             high == Plus("node", number(r.to), r.amount)
  <1>1. r \in Requests /\ result[t] = Simulate(lang, r, s)
    BY CurrentResult DEF CommitValid
  <1>2. /\ r.from \in Accounts /\ r.to \in Accounts /\ r.amount \in Fitting \cup {NaN}
        /\ r.amount # ABSENT
    <2>1. r.from \in Accounts /\ r.to \in Accounts /\ r.amount \in Fitting \cup {NaN}
      BY <1>1, RequestsAssumption
    <2> QED
      BY <2>1, NumberAssumption, HalfAssumption DEF Fitting
  <1>3. result[t].writes = PutBoth(r.from, low, r.to, high)
    BY <1>1 DEF Simulate, InvokeNode, Success, Unchecked
  <1>4. Balance(r.to)' = high /\ (r.from # r.to => Balance(r.from)' = low)
    <2> HIDE DEF low, high
    <2>1. /\ DOMAIN result[t].writes = {r.from, r.to} /\ result[t].writes[r.to] = high
          /\ r.from # r.to => result[t].writes[r.from] = low
      BY <1>3 DEF PutBoth
    <2>2. \A a \in Accounts : a \in DOMAIN result[t].writes =>
            committed'[a].val = result[t].writes[a]
      BY DEF CommitValid
    <2>3. /\ committed'[r.to].val = high
          /\ r.from # r.to => committed'[r.from].val = low
      BY <1>2, <2>1, <2>2
    <2>4. req'[t] = req[t]
      BY DEF CommitValid
    <2> QED
      BY <2>3, <2>4 DEF Balance
  <1>5. \/ s[r.from] \in {ABSENT, NaN} \/ s[r.to] \in {ABSENT, NaN} \/ r.amount = NaN
    BY <1>2 DEF Unchecked, Values, Balance
  <1>6. s[r.to] \in {ABSENT, NaN} \/ r.amount = NaN => high = NaN
    BY DEF Plus
  <1>7. s[r.from] \in {ABSENT, NaN} \/ r.amount = NaN => low = NaN
    BY DEF Minus
  <1>8. req'[t] = req[t]
    BY DEF CommitValid
  <1> HIDE DEF low, high, s
  <1> QED
    BY <1>4, <1>5, <1>6, <1>7, <1>8

\* The property, of one transaction.
LEMMA TransferConserves ==
  ASSUME SerialInv, SerialInv', NEW t \in Tx, CommitValid(t), req[t].fcn = "transfer",
         ~Unchecked(t)
  PROVE  Total(committed') =
           IF req[t].from = req[t].to /\ lang # "scala"
           THEN Plus(lang, Total(committed), req[t].amount) ELSE Total(committed)
  <1> DEFINE r == req[t]
             f == Worth(committed)
             g == Worth(committed')
  <1>1. lang' = lang /\ Known' = Known /\ lang \in {"go", "node", "java", "scala"}
    BY DEF CommitValid, Known, Amounts, SerialInv
  <1>2. Values(committed) \in Known /\ Values(committed') \in Known
    <2>1. Values(committed)' = Values(committed')
      BY DEF Values
    <2> QED
      BY <1>1, <2>1 DEF SerialInv
  <1>3. /\ f \in [Accounts -> Int] /\ g \in [Accounts -> Int]
        /\ \A a \in Accounts : f[a] = IF Balance(a) \in {ABSENT, NaN} THEN 0 ELSE Balance(a)
        /\ \A a \in Accounts : Balance(a) \notin {ABSENT, NaN} => Balance(a) \in Int
        /\ \A a \in Accounts : g[a] =
             IF committed'[a].val \in {ABSENT, NaN} THEN 0 ELSE committed'[a].val
    BY <1>2, WorthTyped DEF Worth, Balance
  <1>4. Total(committed) = Cut(Sum(f, Accounts)) /\ Total(committed') = Cut(Sum(g, Accounts))
    BY <1>3, SumOfAccounts DEF Cut
  <1>5. Total(committed) \in Int
    BY <1>3, <1>4, SumInt, CutInt, AccountsAssumption
  <1>6. \A a \in Accounts : committed'[a].val =
          IF a \in DOMAIN result[t].writes THEN result[t].writes[a] ELSE Balance(a)
    BY DEF CommitValid, Balance
  <1>7. \A x \in Int : x # NaN /\ x # ABSENT
    BY NumberAssumption
  <1>8. CASE lang # "scala"
    <2>1. /\ r.from \in Accounts /\ r.to \in Accounts /\ r.amount \in Int
          /\ Balance(r.from) \notin {ABSENT, NaN} /\ Balance(r.to) \notin {ABSENT, NaN}
          /\ result[t].writes = PutBoth(r.from, Minus(lang, Balance(r.from), r.amount),
                                        r.to, Plus(lang, Balance(r.to), r.amount))
      BY <1>8, MoveWrites
    <2>2. /\ Minus(lang, Balance(r.from), r.amount) = Cut(f[r.from] - r.amount)
          /\ Plus(lang, Balance(r.to), r.amount) = Cut(f[r.to] + r.amount)
          /\ f[r.from] \in Int /\ f[r.to] \in Int
      <3> HIDE DEF f, g, r
      <3>1. f[r.from] = Balance(r.from) /\ f[r.to] = Balance(r.to)
            /\ f[r.from] \in Int /\ f[r.to] \in Int
        BY <1>3, <2>1
      <3>2. NaN \notin {f[r.from], r.amount} /\ NaN \notin {f[r.to], r.amount}
        BY <1>7, <2>1, <3>1
      <3> QED
        BY <3>1, <3>2 DEF Plus, Minus, Cut
    <2> DEFINE low == Cut(f[r.from] - r.amount)
               high == Cut(f[r.to] + r.amount)
    <2>3. low \in Int /\ high \in Int
      <3>1. f[r.from] - r.amount \in Int /\ f[r.to] + r.amount \in Int
        BY <2>1, <2>2
      <3> QED
        BY <3>1, CutInt
    <2>4. result[t].writes = PutBoth(r.from, low, r.to, high)
      BY <2>1, <2>2
    <2> HIDE DEF low, high, f, g, r
    <2>5. /\ g[r.to] = high /\ (r.from # r.to => g[r.from] = low)
          /\ \A a \in Accounts \ {r.from, r.to} : g[a] = f[a]
      <3>1. /\ DOMAIN result[t].writes = {r.from, r.to} /\ result[t].writes[r.to] = high
            /\ r.from # r.to => result[t].writes[r.from] = low
        BY <2>4 DEF PutBoth
      <3>2. high \notin {ABSENT, NaN} /\ low \notin {ABSENT, NaN}
        BY <1>7, <2>3
      <3> QED
        BY <1>3, <1>6, <2>1, <3>1, <3>2
    <2>6. CASE r.from = r.to
      <3>1. Cut(Sum(g, Accounts)) = Cut(Cut(Sum(f, Accounts)) + r.amount)
        BY <1>3, <2>1, <2>5, <2>6, MoveToSelf DEF high
      <3>2. NaN \notin {Total(committed), r.amount}
        BY <1>5, <1>7, <2>1
      <3>3. Plus(lang, Total(committed), r.amount) = Cut(Total(committed) + r.amount)
        BY <3>2 DEF Plus, Cut
      <3> QED
        BY <1>4, <1>8, <2>6, <3>1, <3>3 DEF r
    <2>7. CASE r.from # r.to
      <3>1. g[r.from] = Cut(f[r.from] - r.amount) /\ g[r.to] = Cut(f[r.to] + r.amount)
        BY <2>5, <2>7 DEF low, high
      <3>2. /\ f \in [Accounts -> Int] /\ g \in [Accounts -> Int]
            /\ r.from \in Accounts /\ r.to \in Accounts /\ r.amount \in Int
            /\ \A a \in Accounts \ {r.from, r.to} : g[a] = f[a]
        BY <1>3, <2>1, <2>5
      <3> DEFINE from == r.from
                 to == r.to
                 m == r.amount
      <3>3. /\ from \in Accounts /\ to \in Accounts /\ m \in Int /\ from # to
            /\ g[from] = Cut(f[from] - m) /\ g[to] = Cut(f[to] + m)
            /\ \A a \in Accounts \ {from, to} : g[a] = f[a]
        BY <2>7, <3>1, <3>2
      <3> HIDE DEF from, to, m
      <3>4. Cut(Sum(g, Accounts)) = Cut(Sum(f, Accounts))
        BY <3>2, <3>3, MoveKeeps
      <3> QED
        BY <1>4, <2>7, <3>4 DEF r
    <2> QED
      BY <2>6, <2>7
  <1>9. CASE lang = "scala" /\ ~Granted(r, Values(committed))
    <2>1. result[t] = Simulate(lang, r, Values(committed))
      BY CurrentResult DEF CommitValid
    <2>2. result[t] = Success({r.from}, NoWrites, FALSE)
      BY <1>9, <2>1 DEF Simulate, TransferScala
    <2>3. DOMAIN result[t].writes = {}
      BY <2>2 DEF Success, NoWrites
    <2>4. \A a \in Accounts : committed'[a].val = Balance(a)
      BY <1>6, <2>3
    <2>5. g = f
      BY <2>4 DEF Worth, Balance
    <2> QED
      BY <1>4, <1>9, <2>5
  <1>10. CASE lang = "scala" /\ Granted(r, Values(committed))
    <2>1. /\ r.from # r.to /\ r.amount \in Fitting
          /\ r.from \in Accounts /\ r.to \in Accounts
          /\ Balance(r.from) \in Fitting
          /\ Balance(r.from) - r.amount \in Fitting
          /\ Balance(r.to) \in Fitting \cup {ABSENT}
          /\ \A a \in Accounts : Balance(a)' =
               IF a = r.from THEN Balance(a) - r.amount
               ELSE IF a = r.to THEN Received(a, r.amount)
               ELSE Balance(a)
      BY <1>10, GrantedWrites
    <2>2. \A x \in Fitting : x \in Int /\ x \notin {ABSENT, NaN} /\ Cut(x) = x
      BY <1>7, <1>10, HalfAssumption, WrapStays DEF Fitting, Cut, Fixed
    <2>3. \A a \in Accounts : committed'[a].val = Balance(a)'
      BY DEF Balance
    <2>4. \A x \in Int : Cut(x) \in Int
      BY CutInt
    <2> HIDE DEF f, g, r
    <2>5. g[r.from] = Cut(f[r.from] - r.amount)
      BY <1>3, <2>1, <2>2, <2>3
    <2>6. g[r.to] = Cut(f[r.to] + r.amount)
      <3>1. committed'[r.to].val = Received(r.to, r.amount)
        BY <2>1, <2>3
      <3>2. CASE Balance(r.to) = ABSENT
        <4>1. f[r.to] = 0 /\ committed'[r.to].val = r.amount
          BY <1>3, <2>1, <3>1, <3>2 DEF Received
        <4>2. g[r.to] = r.amount /\ 0 + r.amount = r.amount
          BY <1>3, <2>1, <2>2, <4>1
        <4> QED
          BY <2>1, <2>2, <4>1, <4>2
      <3>3. CASE Balance(r.to) # ABSENT
        <4>1. f[r.to] = Balance(r.to) /\ f[r.to] \in Int /\ r.amount \in Int
          BY <1>3, <2>1, <2>2, <3>3
        <4>2. committed'[r.to].val = Cut(f[r.to] + r.amount)
          BY <1>10, <3>1, <3>3, <4>1 DEF Received, Cut, Fixed
        <4>3. Cut(f[r.to] + r.amount) \notin {ABSENT, NaN}
          BY <1>7, <2>4, <4>1
        <4> QED
          BY <1>3, <2>1, <4>2, <4>3
      <3> QED
        BY <3>2, <3>3
    <2>7. \A a \in Accounts \ {r.from, r.to} : g[a] = f[a]
      BY <1>3, <2>1, <2>3
    <2>8. /\ f \in [Accounts -> Int] /\ g \in [Accounts -> Int] /\ r.amount \in Int
          /\ r.from \in Accounts /\ r.to \in Accounts /\ r.from # r.to
      <3>1. f \in [Accounts -> Int] /\ g \in [Accounts -> Int]
        BY <1>3
      <3>2. r.from \in Accounts /\ r.to \in Accounts /\ r.from # r.to /\ r.amount \in Fitting
        BY <2>1
      <3> QED
        BY <2>2, <3>1, <3>2
    <2>9. Cut(Sum(g, Accounts)) = Cut(Sum(f, Accounts))
      <3> DEFINE from == r.from
                 to == r.to
                 m == r.amount
      <3>1. /\ from \in Accounts /\ to \in Accounts /\ m \in Int /\ from # to
            /\ f \in [Accounts -> Int] /\ g \in [Accounts -> Int]
            /\ g[from] = Cut(f[from] - m) /\ g[to] = Cut(f[to] + m)
            /\ \A a \in Accounts \ {from, to} : g[a] = f[a]
        BY <2>5, <2>6, <2>7, <2>8
      <3> HIDE DEF from, to, m
      <3> QED
        BY <3>1, MoveKeeps
    <2> QED
      BY <1>4, <1>10, <2>9 DEF r
  <1> QED
    BY <1>8, <1>9, <1>10

-------------------------------------------------------------------------------
(* The theorems.                                                           *)

\* A balance is always what its chaincode can store: the integers do not leave
\* their width, and only Node.js writes what is no number.
THEOREM TypeCorrect == Spec => []TypeOK
  <1>1. SerialInv => TypeOK
    BY DEF SerialInv, Known, Values, TypeOK, Balance
  <1> QED
    BY <1>1, AlwaysSerial, PTL

\* The chaincode on its channel implements Bank: every change of the accounts is
\* one call, whole, on the accounts as they are.
THEOREM CallsSerializable == Spec => Serializable
  <1>1. ASSUME SerialInv, [Next]_vars
        PROVE  [B!Next]_<<lang, Values(committed)>>
    <2>1. ASSUME NEW t \in Tx, CommitValid(t) PROVE B!Next
      <3>1. /\ req[t] \in Requests /\ Routed(lang, req[t]) /\ result[t].ok
            /\ result[t] = Simulate(lang, req[t], Values(committed))
        BY <1>1, <2>1, CurrentResult DEF CommitValid
      <3>2. Values(committed') = Applied(result[t], Values(committed))
        BY <1>1, <2>1, CommitApplies
      <3>3. UNCHANGED lang /\ Values(committed)' = Values(committed')
        BY <2>1 DEF CommitValid, Values
      <3> QED
        BY <3>1, <3>2, <3>3 DEF B!Next, B!Call
    <2>2. CASE UNCHANGED <<lang, committed>>
      BY <2>2 DEF Values
    <2> QED
      BY <1>1, <2>1, <2>2 DEF Next, Endorse, CommitInvalid, Deliver, Done, vars
  <1>2. SerialInv /\ [Next]_vars => [B!Next]_<<lang, Values(committed)>>
    BY <1>1
  <1> QED
    BY <1>2, AlwaysSerial, PTL DEF Spec, Serializable, B!Spec

\* Where the chaincode compares the amount of a transfer with the payer's
\* balance, the balance suffices when the transfer takes effect.
THEOREM NothingSpentTwice == Spec => NoDoubleSpend
  <1>1. ASSUME SerialInv, [Next]_vars, NEW t \in Tx, Committed(t),
               req[t].fcn = "transfer", DOMAIN result[t].writes # {},
               lang \in {"java", "scala"}
        PROVE  Balance(req[t].from) >= req[t].amount
    <2> DEFINE s == Values(committed)
    <2>1. CommitValid(t)
      BY <1>1 DEF Committed, Next, Endorse, CommitValid, CommitInvalid, Deliver, Done,
                  vars, SerialInv
    <2>2. /\ req[t] \in Requests /\ Routed(lang, req[t]) /\ result[t].ok
          /\ result[t] = Simulate(lang, req[t], s)
      BY <1>1, <2>1, CurrentResult DEF CommitValid
    <2>3. req[t].from \in Accounts /\ s[req[t].from] = Balance(req[t].from)
          /\ req[t].amount \in Fitting \cup {NaN} /\ s[req[t].from] \in Amounts
      BY <1>1, <2>2, RequestsAssumption DEF Values, Balance, SerialInv, Known
    <2> HIDE DEF s
    <2>4. CASE lang = "java"
      <3>1. result[t] = InvokeJava(req[t], s)
        BY <1>1, <2>2, <2>4 DEF Simulate
      <3>2. /\ s[req[t].from] # ABSENT /\ req[t].amount # NaN
            /\ ~(req[t].amount > s[req[t].from])
        <4>1. Error({req[t].from}).ok = FALSE
              /\ Error({req[t].from, req[t].to}).ok = FALSE
          BY DEF Error
        <4>2. InvokeJava(req[t], s).ok
          BY <2>2, <3>1
        <4>3. s[req[t].from] # ABSENT
          BY <4>1, <4>2 DEF InvokeJava
        <4>4. ~(s[req[t].to] = ABSENT \/ req[t].amount = NaN \/ req[t].amount > s[req[t].from])
          BY <4>1, <4>2, <4>3 DEF InvokeJava
        <4> QED
          BY <4>3, <4>4
      <3> QED
        BY <2>3, <2>4, <3>2, HalfAssumption DEF Fitting, Amounts
    <2>5. CASE lang = "scala"
      <3>1. result[t] = TransferScala(req[t], s)
        BY <1>1, <2>2, <2>5 DEF Simulate
      <3>2. Granted(req[t], s)
        BY <1>1, <3>1 DEF TransferScala, Success, NoWrites
      <3> QED
        BY <2>3, <3>2 DEF Granted
    <2> QED
      BY <1>1, <2>4, <2>5
  <1>2. SerialInv /\ [Next]_vars =>
          [\A t \in Tx :
             /\ Committed(t) /\ req[t].fcn = "transfer" /\ DOMAIN result[t].writes # {}
             /\ lang \in {"java", "scala"}
             => Balance(req[t].from) >= req[t].amount]_vars
    BY <1>1
  <1> QED
    BY <1>2, AlwaysSerial, PTL DEF Spec, NoDoubleSpend

\* The history of the token contract explains every balance: it is what has come
\* in, less what has gone out, and an account without an entry is not there.
THEOREM HistoryTrue == Spec => []HistoryExplains
  <1>1. Spec => [](SerialInv /\ HistoryInv)
    BY InitSerial, NextSerial, HistoryInit, HistoryNext, PTL DEF Spec
  <1>2. HistoryInv => HistoryExplains
    BY DEF HistoryInv, Explained, HistoryExplains, In, Out, Tally
  <1> QED
    BY <1>1, <1>2, PTL

\* A transfer neither makes nor destroys anything, in none of the languages, unless one
\* pays oneself in example02, or the Node.js copy is given something that is no number:
\* then the sum grows by the amount, or payer or payee is no number afterwards.
THEOREM TransfersConserve == Spec => Conserved
  <1>1. ASSUME SerialInv, SerialInv', [Next]_vars, NEW t \in Tx, Committed(t),
               req[t].fcn = "transfer"
        PROVE  IF Unchecked(t) THEN NaN \in {Balance(req[t].from)', Balance(req[t].to)'}
               ELSE Total(committed') =
                      IF req[t].from = req[t].to /\ lang # "scala"
                      THEN Plus(lang, Total(committed), req[t].amount) ELSE Total(committed)
    <2>1. CommitValid(t)
      BY <1>1 DEF Committed, Next, Endorse, CommitValid, CommitInvalid, Deliver, Done,
                  vars, SerialInv
    <2>2. CASE Unchecked(t)
      BY <1>1, <2>1, <2>2, UncheckedLoses
    <2>3. CASE ~Unchecked(t)
      BY <1>1, <2>1, <2>3, TransferConserves
    <2> QED
      BY <2>2, <2>3
  <1>2. SerialInv /\ SerialInv' /\ [Next]_vars =>
          [\A t \in Tx :
             Committed(t) /\ req[t].fcn = "transfer" =>
               IF Unchecked(t) THEN NaN \in {Balance(req[t].from)', Balance(req[t].to)'}
               ELSE Total(committed') =
                      IF req[t].from = req[t].to /\ lang # "scala"
                      THEN Plus(lang, Total(committed), req[t].amount)
                      ELSE Total(committed)]_vars
    BY <1>1
  <1> QED
    BY <1>2, AlwaysSerial, PTL DEF Spec, Conserved

===============================================================================
