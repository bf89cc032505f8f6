--------------------------- MODULE DnsRegistryProofs ---------------------------
(***************************************************************************)
(* Proofs about the service registry, for any number of peers,             *)
(* transactions and requests.                                              *)
(*                                                                         *)
(*   TypeCorrect      the type invariant;                                  *)
(*   DnsNeverShrinks  whatever the interleaving in a chaincode process, no *)
(*                    valid transaction removes a hosts entry, as long as  *)
(*                    every registration has started with the key "dns";   *)
(*   StaysRegistered, StaysAtomic, StaysResolvable                         *)
(*                    as long as no call has replaced the stub of a        *)
(*                    registration under way, a valid registration is in   *)
(*                    the registry, the chaincode implements the abstract  *)
(*                    registry, and its objects agree.                     *)
(***************************************************************************)
EXTENDS DnsRegistry, FiniteSetTheorems, TLAPS

-------------------------------------------------------------------------------
(* Facts about the data.                                                   *)

\* What a request adds is among the facts of the model.
LEMMA NewDataInAllFacts ==
  ASSUME NEW r \in Requests, NEW k \in Keys
  PROVE  NewData(r, k) \subseteq AllFacts
BY DEF AllFacts

\* Merging keeps every leaf's path and adds the new ones (_.merge deletes
\* nothing).
LEMMA MergeKeepsIds ==
  ASSUME NEW old, NEW new
  PROVE  /\ Ids(old) \subseteq Ids(Merge(old, new))
         /\ Ids(new) \subseteq Ids(Merge(old, new))
BY DEF Ids, Merge

\* Merging nothing changes nothing.
LEMMA MergeNothing ==
  ASSUME NEW old
  PROVE  Merge(old, {}) = old
  <1>1. Merge(old, {}) = {f \in old : f.id \notin Ids({})} \cup {}
    BY DEF Merge
  <1>2. Ids({}) = {}
    BY DEF Ids
  <1> QED
    BY <1>1, <1>2

\* What is merged in, if it has an address.
LEMMA MergeAdds ==
  ASSUME NEW old, NEW new, NEW g \in new, g.ip # NONE
  PROVE  g \in Merge(old, new)
BY DEF Merge

\* What is there after a merge was there before or is new.
LEMMA MergedFrom ==
  ASSUME NEW old, NEW new, NEW f \in Merge(old, new)
  PROVE  f \in old \/ f \in new
BY DEF Merge

\* What was there before stays, unless something else of its path is new.
LEMMA MergeLeaves ==
  ASSUME NEW old, NEW new, NEW f \in old, \A g \in new : g.id = f.id => g = f
  PROVE  f \in Merge(old, new)
  <1> DEFINE set == {g \in new : g.ip # NONE \/ g.id \notin Ids(old)}
  <1>1. Merge(old, new) = {g \in old : g.id \notin Ids(set)} \cup set
    BY DEF Merge
  <1>2. ASSUME f.id \in Ids(set) PROVE f \in set
    <2>1. PICK g \in set : g.id = f.id
      BY <1>2 DEF Ids
    <2> QED
      BY <2>1
  <1> HIDE DEF set
  <1> QED
    BY <1>1, <1>2

\* Merging stays within the facts of the model.
LEMMA MergeType ==
  ASSUME NEW old \in SUBSET AllFacts, NEW r \in Requests, NEW k \in Keys
  PROVE  Merge(old, NewData(r, k)) \in SUBSET AllFacts
BY NewDataInAllFacts DEF Merge

\* The second key of a handler is never "dns".
LEMMA NextKeyType ==
  ASSUME NEW r, NEW k
  PROVE  NextKey(r, k) \in {"orgs", "osn", NONE}
BY DEF NextKey

\* A request adds nothing under the keys its handler does not visit.
LEMMA NothingElsewhere ==
  ASSUME NEW r, IsRegistration(r), NEW k \in Keys, k \notin TargetKeys(r)
  PROVE  NewData(r, k) = {}
BY NoneAssumption
   DEF TargetKeys, NewData, FirstKey, NextKey, IsRegistration, Keys, OrdererDns

\* Assigning one entry of a function of functions keeps its type.
LEMMA UpdateNested ==
  ASSUME NEW A, NEW B, NEW C, NEW f \in [A -> [B -> C]],
         NEW a \in A, NEW b \in B, NEW c \in C
  PROVE  [f EXCEPT ![a][b] = c] \in [A -> [B -> C]]
OBVIOUS

-------------------------------------------------------------------------------
(* Type correctness.                                                       *)

\* What the program counter says about the other variables of a transaction.
Started ==
  \A t \in Tx :
    /\ pc[t] # "idle" => req[t] \in Requests /\ home[t] \in Peers
    /\ pc[t] = "idle" => rset[t] = NoReads /\ wset[t] = NoWrites
    /\ pc[t] \in Running => at[t] \in Keys /\ stub[home[t]] \in Tx
    /\ pc[t] \in {"put", "endorsed", "valid"} => IsRegistration(req[t])
    /\ pc[t] \in Running \cup {"endorsed", "valid"} => Accepted(req[t])
    /\ pc[t] \in Running =>
         /\ at[t] \in TargetKeys(req[t])
         /\ at[t] # FirstKey(req[t]) => at[t] = NextKey(req[t], FirstKey(req[t]))

TypeInv == TypeOK /\ Started

USE DEF Running, Finished

LEMMA TypeInit == Init => TypeInv
  <1> SUFFICES ASSUME Init PROVE TypeInv
    OBVIOUS
  <1>1. TypeOK
    BY DEF Init, TypeOK, NoReads, NoWrites, Objects, States, ReadSets, WriteSets
  <1>2. Started
    BY DEF Init, Started
  <1> QED
    BY <1>1, <1>2 DEF TypeInv

\* What a peer's ledger holds under a key.
LEMMA LedgerType ==
  ASSUME TypeOK, NEW p \in Peers, NEW k \in Keys
  PROVE  ledger[p][k].ver \in Nat /\ ledger[p][k].val \in Objects
BY DEF TypeOK, States

\* Recording a read or a write keeps the type of the transaction's sets.
LEMMA ReadType ==
  ASSUME TypeOK, NEW t \in Tx, NEW k \in Keys, NEW v \in Nat
  PROVE  [rset EXCEPT ![t][k] = v] \in [Tx -> ReadSets]
BY UpdateNested DEF TypeOK, ReadSets

LEMMA WriteType ==
  ASSUME TypeOK, NEW t \in Tx, NEW k \in Keys, NEW v \in Objects
  PROVE  [wset EXCEPT ![t][k] = v] \in [Tx -> WriteSets]
BY UpdateNested DEF TypeOK, WriteSets

\* The chaincode's actions.
LEMMA TypeInvoke ==
  ASSUME TypeInv, NEW t \in Tx, NEW p \in Peers, NEW r \in Requests,
         Invoke(t, p, r)
  PROVE  TypeInv'
  <1> USE DEF TypeInv, Invoke
  <1>1. FirstKey(r) \in Keys /\ FirstKey(r) \in TargetKeys(r)
    BY RequestsAssumption, NoneAssumption DEF TargetKeys
  <1>2. rset' \in [Tx -> ReadSets]
    BY <1>1, LedgerType, ReadType DEF TypeOK
  <1>3. data' \in [Tx -> Objects]
    BY <1>1, LedgerType DEF TypeOK
  <1>4. /\ at' \in [Tx -> Keys \cup {NONE}]
        /\ pc' \in [Tx -> {"idle"} \cup Running \cup Finished]
    BY <1>1 DEF TypeOK
  <1>5. /\ stub' \in [Peers -> Tx \cup {NONE}]
        /\ req' \in [Tx -> Requests \cup {NONE}]
        /\ home' \in [Tx -> Peers \cup {NONE}]
        /\ UNCHANGED <<committed, ledger, wset>>
    BY DEF TypeOK
  <1>6. TypeOK'
    <2>1. stolen' \in BOOLEAN
      <3>1. stolen' = (stolen \/ \E u \in InFlight(p) : IsRegistration(req[u]))
        OBVIOUS
      <3> QED
        BY ONLY <3>1, Zenon
    <2> QED
      BY ONLY TypeInv, <1>2, <1>3, <1>4, <1>5, <2>1 DEF TypeInv, TypeOK
  <1>7. Started'
    BY <1>1 DEF TypeOK, Started
  <1> QED
    BY <1>6, <1>7

LEMMA TypePut ==
  ASSUME TypeInv, NEW t \in Tx, Put(t)
  PROVE  TypeInv'
  <1> USE DEF TypeInv, Put, Fail
  <1>1. /\ at[t] \in Keys /\ req[t] \in Requests /\ home[t] \in Peers
        /\ Stub(t) \in Tx
    BY DEF Started, TypeOK, Stub
  <1>2. Merge(data[t], NewData(req[t], at[t])) \in Objects
    BY <1>1, MergeType DEF TypeOK, Objects
  <1>3. wset' \in [Tx -> WriteSets]
    BY <1>1, <1>2, WriteType DEF TypeOK
  <1>4. TypeOK'
    BY <1>1, <1>3 DEF TypeOK
  <1>5. pc[Stub(t)] \in Running \/ wset' = wset
    BY DEF StubAlive
  <1>6. Started'
    BY <1>1, <1>5 DEF TypeOK, Started
  <1> QED
    BY <1>4, <1>6

LEMMA TypeGetNext ==
  ASSUME TypeInv, NEW t \in Tx, GetNext(t)
  PROVE  TypeInv'
  <1> USE DEF TypeInv, GetNext, Fail
  <1> DEFINE k == NextKey(req[t], at[t])
  <1>1. /\ at[t] \in Keys /\ req[t] \in Requests /\ home[t] \in Peers
        /\ Stub(t) \in Tx
    BY DEF Started, TypeOK, Stub
  <1>2. k \in Keys
    BY NextKeyType DEF Keys
  <1>3. at[t] = FirstKey(req[t]) /\ k \in TargetKeys(req[t])
    BY <1>1, NextKeyType DEF Started, TargetKeys, NextKey
  <1>4. rset' \in [Tx -> ReadSets]
    BY <1>1, <1>2, LedgerType, ReadType DEF TypeOK
  <1>5. data' \in [Tx -> Objects] /\ at' \in [Tx -> Keys \cup {NONE}]
    BY <1>1, <1>2, LedgerType DEF TypeOK
  <1>6. TypeOK'
    BY <1>1, <1>4, <1>5 DEF TypeOK
  <1>7. pc[Stub(t)] \in Running \/ rset' = rset
    BY DEF StubAlive
  <1>8. Started'
    BY <1>1, <1>2, <1>3, <1>7 DEF TypeOK, Started
  <1> QED
    BY <1>6, <1>8

LEMMA TypeReturn ==
  ASSUME TypeInv, NEW t \in Tx, Return(t) \/ Answer(t)
  PROVE  TypeInv'
  <1> USE DEF TypeInv, Return, Answer
  <1>1. TypeOK'
    BY DEF TypeOK
  <1>2. Started'
    BY DEF TypeOK, Started
  <1> QED
    BY <1>1, <1>2

\* The channel.
LEMMA TypeCommit ==
  ASSUME TypeInv, NEW t \in Tx, CommitValid(t) \/ CommitInvalid(t)
  PROVE  TypeInv'
  <1> USE DEF TypeInv, CommitValid, CommitInvalid
  <1>1. ASSUME CommitValid(t) PROVE committed' \in States
    BY <1>1 DEF TypeOK, States, WriteSets
  <1>2. TypeOK'
    BY <1>1 DEF TypeOK
  <1>3. Started'
    BY DEF TypeOK, Started
  <1> QED
    BY <1>2, <1>3

LEMMA TypeDeliver ==
  ASSUME TypeInv, NEW p \in Peers, Deliver(p)
  PROVE  TypeInv'
BY DEF TypeInv, TypeOK, Started, Deliver

LEMMA TypeNext == TypeInv /\ [Next]_vars => TypeInv'
  <1> SUFFICES ASSUME TypeInv, [Next]_vars PROVE TypeInv'
    OBVIOUS
  <1>1. CASE UNCHANGED vars
    BY <1>1 DEF TypeInv, TypeOK, Started, vars
  <1>2. CASE Done
    BY <1>1, <1>2 DEF Done
  <1> QED
    BY <1>1, <1>2, TypeInvoke, TypePut, TypeGetNext, TypeReturn, TypeCommit,
       TypeDeliver DEF Next

LEMMA TypeInvariant == Spec => []TypeInv
BY TypeInit, TypeNext, PTL DEF Spec

\* The type invariant, which also says that every fact on the ledger is one
\* that some request contains.
THEOREM TypeCorrect == Spec => []TypeOK
BY TypeInvariant, PTL DEF TypeInv

-------------------------------------------------------------------------------
(* What holds whatever the interleaving inside a chaincode process.        *)

\* A peer's copy of an object is an earlier one, or the current one.
LedgerFollows ==
  \A p \in Peers, k \in Keys :
    /\ ledger[p][k].ver <= committed[k].ver
    /\ ledger[p][k].ver = committed[k].ver =>
         ledger[p][k].val = committed[k].val

\* Nobody has read a version that is not there yet.
ReadsArePast == \A t \in Tx, k \in Keys : rset[t][k] <= committed[k].ver

\* this.stub of a process belongs to a transaction of that process.
StubAtHome == \A p \in Peers : stub[p] \in Tx => home[stub[p]] = p

\* A stub is held only by a transaction that was invoked.
StubStarted == \A p \in Peers : stub[p] \in Tx => pc[stub[p]] # "idle"

Base == TypeInv /\ LedgerFollows /\ ReadsArePast /\ StubAtHome /\ StubStarted

LEMMA BaseInit == Init => Base
BY TypeInit, NoneAssumption
   DEF Base, LedgerFollows, ReadsArePast, StubAtHome, StubStarted, Init, NoReads

\* A version never goes down, and goes up with every change.
LEMMA VersionsGrow ==
  ASSUME TypeInv, [Next]_vars, NEW k \in Keys
  PROVE  /\ committed[k].ver <= committed'[k].ver
         /\ committed[k].ver = committed'[k].ver => committed'[k] = committed[k]
  <1>1. committed[k].ver \in Nat
    BY DEF TypeInv, TypeOK, States
  <1>2. CASE UNCHANGED committed
    BY <1>1, <1>2
  <1>3. ASSUME NEW t \in Tx, CommitValid(t)
        PROVE  \/ committed'[k] = committed[k]
               \/ committed'[k].ver = committed[k].ver + 1
    BY <1>3 DEF CommitValid
  <1> QED
    BY <1>1, <1>2, <1>3
       DEF Next, Invoke, Put, GetNext, Return, Answer, CommitInvalid, Deliver,
           Done, vars

LEMMA LedgerFollowsNext ==
  ASSUME Base, [Next]_vars
  PROVE  LedgerFollows'
  <1> SUFFICES ASSUME NEW p \in Peers, NEW k \in Keys
               PROVE  /\ ledger'[p][k].ver <= committed'[k].ver
                      /\ ledger'[p][k].ver = committed'[k].ver =>
                           ledger'[p][k].val = committed'[k].val
    BY DEF LedgerFollows
  <1>1. /\ committed[k].ver \in Nat /\ committed'[k].ver \in Nat
        /\ ledger[p][k].ver \in Nat
    BY TypeNext DEF Base, TypeInv, TypeOK, States
  <1>2. \/ ledger'[p] = ledger[p]
        \/ ledger'[p] = committed /\ committed' = committed
    BY DEF Next, Invoke, Put, GetNext, Return, Answer, CommitValid,
           CommitInvalid, Deliver, Done, vars, Base, TypeInv, TypeOK
  <1>3. CASE ledger'[p] = ledger[p]
    BY <1>1, <1>3, VersionsGrow DEF Base, LedgerFollows
  <1>4. CASE ledger'[p] = committed /\ committed' = committed
    BY <1>1, <1>4
  <1> QED
    BY <1>2, <1>3, <1>4

LEMMA ReadsArePastNext ==
  ASSUME Base, [Next]_vars
  PROVE  ReadsArePast'
  <1> SUFFICES ASSUME NEW t \in Tx, NEW k \in Keys
               PROVE  rset'[t][k] <= committed'[k].ver
    BY DEF ReadsArePast
  <1>1. /\ committed[k].ver \in Nat /\ committed'[k].ver \in Nat
        /\ rset[t][k] \in Nat \cup {-1}
        /\ \A p \in Peers : ledger[p][k].ver \in Nat
    BY TypeNext DEF Base, TypeInv, TypeOK, States, ReadSets
  <1>2. \/ rset'[t][k] = rset[t][k]
        \/ \E p \in Peers : rset'[t][k] = ledger[p][k].ver
    <2>0. rset \in [Tx -> ReadSets]
      BY DEF Base, TypeInv, TypeOK
    <2>1. ASSUME NEW u \in Tx, NEW p \in Peers, NEW r \in Requests, Invoke(u, p, r)
          PROVE  rset'[t][k] = rset[t][k] \/ rset'[t][k] = ledger[p][k].ver
      <3>1. \/ rset' = [rset EXCEPT ![u][FirstKey(r)] = ledger[p][FirstKey(r)].ver]
            \/ rset' = rset
        BY <2>1, Zenon DEF Invoke
      <3> QED
        BY <2>0, <3>1 DEF ReadSets
    <2>2. ASSUME NEW u \in Tx, GetNext(u)
          PROVE  rset'[t][k] = rset[t][k] \/ rset'[t][k] = ledger[home[u]][k].ver
      <3>1. \/ \E j : rset' = [rset EXCEPT ![Stub(u)][j] = ledger[home[u]][j].ver]
            \/ rset' = rset
        BY <2>2, Zenon DEF GetNext, Fail
      <3> QED
        BY <2>0, <3>1 DEF ReadSets
    <2>3. ASSUME NEW u \in Tx, GetNext(u)
          PROVE  home[u] \in Peers
      BY <2>3 DEF GetNext, Base, TypeInv, Started
    <2> QED
      BY <2>1, <2>2, <2>3
         DEF Next, Put, Fail, Return, Answer, CommitValid, CommitInvalid, Deliver,
             Done, vars
  <1> QED
    BY <1>1, <1>2, VersionsGrow DEF Base, LedgerFollows, ReadsArePast

LEMMA StubNext ==
  ASSUME Base, [Next]_vars
  PROVE  StubAtHome' /\ StubStarted'
  <1> USE DEF StubAtHome, StubStarted, Base, TypeInv, TypeOK
  <1>1. ASSUME NEW u \in Tx, NEW q \in Peers, NEW r \in Requests, Invoke(u, q, r)
        PROVE  StubAtHome' /\ StubStarted'
    BY <1>1 DEF Invoke
  <1>2. ASSUME UNCHANGED <<stub, home>>,
               \A t \in Tx : pc[t] # "idle" => pc'[t] # "idle"
        PROVE  StubAtHome' /\ StubStarted'
    BY <1>2
  <1> QED
    BY <1>1, <1>2
       DEF Next, Put, GetNext, Fail, Return, Answer, CommitValid, CommitInvalid,
           Deliver, Done, vars

LEMMA BaseNext ==
  ASSUME Base, [Next]_vars
  PROVE  Base'
BY TypeNext, LedgerFollowsNext, ReadsArePastNext, StubNext DEF Base


-------------------------------------------------------------------------------
(* The hosts data under any interleaving.                                  *)

\* The hosts data a running call has read is its peer's.
DnsReadAtHome ==
  \A t \in Tx :
    /\ pc[t] \in Running /\ rset[t]["dns"] # -1 =>
         rset[t]["dns"] = ledger[home[t]]["dns"].ver
    /\ pc[t] = "get" /\ at[t] = "dns" => data[t] = ledger[home[t]]["dns"].val

\* A registration has read the hosts data through its own stub.
DnsIsRead ==
  \A t \in Tx :
    pc[t] \in Running \cup {"endorsed"} /\ IsRegistration(req[t]) =>
      rset[t]["dns"] # -1

\* Whoever wrote the hosts data into a transaction, it was made from the
\* version that transaction has read.
DnsWritesKeep ==
  \A t \in Tx :
    wset[t]["dns"] # NONE /\ rset[t]["dns"] = committed["dns"].ver =>
      Ids(committed["dns"].val) \subseteq Ids(wset[t]["dns"])

DnsInv == Base /\ DnsReadAtHome /\ DnsIsRead /\ DnsWritesKeep

LEMMA DnsInit == Init => DnsInv
BY BaseInit
   DEF DnsInv, DnsReadAtHome, DnsIsRead, DnsWritesKeep, Init, Keys, NoWrites

LEMMA DnsInvoke ==
  ASSUME DnsFirst', DnsInv, NEW t \in Tx, NEW p \in Peers, NEW r \in Requests,
         Invoke(t, p, r)
  PROVE  DnsReadAtHome' /\ DnsIsRead' /\ DnsWritesKeep'
  <1> USE DEF Invoke, DnsInv, Base, TypeInv, TypeOK, ReadSets, Keys
  <1>1. DnsReadAtHome'
    BY RequestsAssumption DEF DnsReadAtHome, Started, NoReads
  <1>2. DnsIsRead'
    <2>1. IsRegistration(r) => ledger[p][FirstKey(r)].ver # -1
      BY LedgerType, RequestsAssumption
    <2>2. pc'[t] \in Running /\ IsRegistration(r) => FirstKey(r) = "dns"
      BY DEF DnsFirst
    <2> QED
      BY <2>1, <2>2 DEF DnsIsRead
  <1>3. DnsWritesKeep'
    <2>1. wset[t]["dns"] = NONE
      BY DEF Started, NoWrites
    <2>2. \A u \in Tx : u # t => rset'[u] = rset[u]
      OBVIOUS
    <2> QED
      BY ONLY <2>1, <2>2, Invoke(t, p, r), DnsInv DEF DnsInv, DnsWritesKeep, Invoke
  <1> QED
    BY <1>1, <1>2, <1>3

LEMMA DnsPut ==
  ASSUME DnsInv, NEW t \in Tx, Put(t)
  PROVE  DnsReadAtHome' /\ DnsIsRead' /\ DnsWritesKeep'
  <1> USE DEF Put, Fail, DnsInv, Base, TypeInv
  <1>1. DnsReadAtHome' /\ DnsIsRead'
    BY DEF DnsReadAtHome, DnsIsRead, TypeOK
  <1>2. /\ home[t] \in Peers /\ Stub(t) \in Tx /\ home[Stub(t)] = home[t]
        /\ at[t] \in Keys
    BY DEF Started, Stub, StubAtHome
  <1>3. ASSUME StubAlive(t), at[t] = "dns",
               rset[Stub(t)]["dns"] = committed["dns"].ver
        PROVE  Ids(committed["dns"].val) \subseteq
                 Ids(Merge(data[t], NewData(req[t], "dns")))
    <2>1. committed["dns"].ver # -1
      BY DEF TypeOK, States, Keys
    <2>2. rset[Stub(t)]["dns"] = ledger[home[t]]["dns"].ver
      BY <1>2, <1>3, <2>1 DEF DnsReadAtHome, StubAlive
    <2>3. data[t] = committed["dns"].val
      BY <1>2, <1>3, <2>2 DEF DnsReadAtHome, LedgerFollows, Keys
    <2> QED
      BY <2>3, MergeKeepsIds
  <1>4. DnsWritesKeep'
    <2> SUFFICES ASSUME NEW u \in Tx, wset'[u]["dns"] # NONE,
                        rset[u]["dns"] = committed["dns"].ver
                 PROVE  Ids(committed["dns"].val) \subseteq Ids(wset'[u]["dns"])
      BY DEF DnsWritesKeep
    <2>1. CASE wset'[u]["dns"] = wset[u]["dns"]
      BY <2>1 DEF DnsWritesKeep
    <2>2. CASE wset'[u]["dns"] # wset[u]["dns"]
      <3>1. /\ u = Stub(t) /\ at[t] = "dns" /\ StubAlive(t)
            /\ wset'[u]["dns"] = Merge(data[t], NewData(req[t], "dns"))
        BY <1>2, <2>2 DEF TypeOK, WriteSets, Keys
      <3> QED
        BY <1>3, <3>1
    <2> QED
      BY <2>1, <2>2
  <1> QED
    BY <1>1, <1>4

LEMMA DnsGetNext ==
  ASSUME DnsInv, NEW t \in Tx, GetNext(t)
  PROVE  DnsReadAtHome' /\ DnsIsRead' /\ DnsWritesKeep'
  <1> USE DEF GetNext, Fail, DnsInv, Base, TypeInv
  <1>1. NextKey(req[t], at[t]) # "dns"
    BY NextKeyType, NoneAssumption DEF Keys
  <1>2. \A u \in Tx : rset'[u]["dns"] = rset[u]["dns"]
    BY <1>1 DEF TypeOK, ReadSets, Keys
  <1>3. /\ DnsReadAtHome'
        /\ DnsIsRead'
        /\ DnsWritesKeep'
    BY <1>1, <1>2 DEF DnsReadAtHome, DnsIsRead, DnsWritesKeep, TypeOK
  <1> QED
    BY <1>3

\* What a valid transaction does to the hosts data.
LEMMA DnsCommit ==
  ASSUME DnsInv, NEW t \in Tx, CommitValid(t)
  PROVE  Ids(committed["dns"].val) \subseteq Ids(committed'["dns"].val)
  <1> USE DEF CommitValid, DnsInv, Base, TypeInv
  <1>1. CASE wset[t]["dns"] = NONE
    BY <1>1 DEF Keys
  <1>2. CASE wset[t]["dns"] # NONE
    <2>1. rset[t]["dns"] = committed["dns"].ver
      BY DEF DnsIsRead, Started, Current, Keys
    <2> QED
      BY <1>2, <2>1 DEF DnsWritesKeep, Keys
  <1> QED
    BY <1>1, <1>2

LEMMA DnsCommitNext ==
  ASSUME DnsInv, NEW t \in Tx, CommitValid(t)
  PROVE  DnsReadAtHome' /\ DnsIsRead' /\ DnsWritesKeep'
  <1> USE DEF CommitValid, DnsInv, Base, TypeInv
  <1>1. DnsReadAtHome' /\ DnsIsRead'
    BY DEF DnsReadAtHome, DnsIsRead, TypeOK
  <1>2. \/ committed'["dns"] = committed["dns"]
        \/ \A u \in Tx : rset[u]["dns"] # committed'["dns"].ver
    <2>1. \A u \in Tx : rset[u]["dns"] \in Nat \cup {-1}
      BY DEF TypeOK, ReadSets, Keys
    <2> QED
      BY <2>1 DEF ReadsArePast, TypeOK, States, Keys
  <1>3. DnsWritesKeep'
    BY <1>2 DEF DnsWritesKeep
  <1> QED
    BY <1>1, <1>3

LEMMA DnsDeliver ==
  ASSUME DnsInv, NEW p \in Peers, Deliver(p)
  PROVE  DnsReadAtHome' /\ DnsIsRead' /\ DnsWritesKeep'
  <1> USE DEF Deliver, DnsInv, Base, TypeInv
  <1>1. \A t \in Tx : pc[t] \in Running => ledger'[home[t]] = ledger[home[t]]
    BY DEF InFlight, TypeOK, Started
  <1> QED
    BY <1>1 DEF DnsReadAtHome, DnsIsRead, DnsWritesKeep

LEMMA DnsNext ==
  ASSUME DnsFirst', DnsInv, [Next]_vars
  PROVE  DnsInv'
  <1>1. Base'
    BY BaseNext DEF DnsInv
  <1>2. ASSUME NEW t \in Tx, Return(t) \/ Answer(t) \/ CommitInvalid(t)
        PROVE  DnsReadAtHome' /\ DnsIsRead' /\ DnsWritesKeep'
    BY <1>2 DEF Return, Answer, CommitInvalid, DnsInv, DnsReadAtHome, DnsIsRead,
                DnsWritesKeep, Base, TypeInv, TypeOK
  <1>3. ASSUME UNCHANGED vars
        PROVE  DnsReadAtHome' /\ DnsIsRead' /\ DnsWritesKeep'
    BY <1>3 DEF vars, DnsInv, DnsReadAtHome, DnsIsRead, DnsWritesKeep
  <1>4. DnsReadAtHome' /\ DnsIsRead' /\ DnsWritesKeep'
    BY <1>2, <1>3, DnsInvoke, DnsPut, DnsGetNext, DnsCommitNext, DnsDeliver
       DEF Next, Done
  <1> QED
    BY <1>1, <1>4 DEF DnsInv

-------------------------------------------------------------------------------
(* As long as no stub of a registration is stolen.                         *)

\* A running registration finds its own stub.
OwnStub == \A t \in Tx : pc[t] \in Running /\ IsRegistration(req[t]) => Stub(t) = t

\* What a running call has read is its peer's.
ReadsAtHome ==
  \A t \in Tx :
    /\ pc[t] \in Running =>
         \A k \in Keys : rset[t][k] # -1 => rset[t][k] = ledger[home[t]][k].ver
    /\ pc[t] = "get" => /\ rset[t][at[t]] # -1
                        /\ data[t] = ledger[home[t]][at[t]].val

\* Every write is the merge of the version read with the request's data.
WritesMerge ==
  \A t \in Tx, k \in Keys : wset[t][k] # NONE =>
    /\ k \in TargetKeys(req[t])
    /\ rset[t][k] # -1
    /\ rset[t][k] = committed[k].ver =>
         wset[t][k] = Merge(committed[k].val, NewData(req[t], k))

\* A call has written the objects it is through with, and an endorsed one all
\* of its objects.
WritesDone ==
  \A t \in Tx :
    /\ pc[t] \in Running /\ at[t] # FirstKey(req[t]) =>
         wset[t][FirstKey(req[t])] # NONE
    /\ pc[t] = "put" => wset[t][at[t]] # NONE
    /\ pc[t] = "endorsed" => \A k \in TargetKeys(req[t]) : wset[t][k] # NONE

SerialInv == /\ Base /\ OwnStub /\ ReadsAtHome /\ WritesMerge /\ WritesDone
             /\ ValidMeansRegistered

LEMMA SerialInit == Init => SerialInv
BY BaseInit
   DEF SerialInv, OwnStub, ReadsAtHome, WritesMerge, WritesDone,
       ValidMeansRegistered, Init, NoWrites

LEMMA SerialInvoke ==
  ASSUME ~stolen', SerialInv, NEW t \in Tx, NEW p \in Peers,
         NEW r \in Requests, Invoke(t, p, r)
  PROVE  /\ OwnStub' /\ ReadsAtHome' /\ WritesMerge' /\ WritesDone'
         /\ ValidMeansRegistered'
  <1>1. /\ t \in Tx /\ p \in Peers /\ FirstKey(r) \in Keys
        /\ TypeOK /\ Started /\ pc[t] = "idle"
        /\ rset[t] = NoReads /\ wset[t] = NoWrites
    BY RequestsAssumption DEF Invoke, SerialInv, Base, TypeInv, Started
  <1>2. \A u \in Tx \ {t} : pc[u] \in Running /\ IsRegistration(req[u]) => home[u] # p
    BY DEF Invoke, InFlight
  <1>3. \A u \in Tx \ {t} :
          /\ pc'[u] = pc[u] /\ home'[u] = home[u] /\ req'[u] = req[u]
          /\ at'[u] = at[u] /\ data'[u] = data[u] /\ rset'[u] = rset[u]
          /\ pc[u] \in Running /\ IsRegistration(req[u]) =>
               stub'[home[u]] = stub[home[u]]
    BY <1>1, <1>2 DEF Invoke, TypeOK
  <1>4. /\ home'[t] = p /\ req'[t] = r /\ stub'[p] = t
        /\ wset' = wset /\ ledger' = ledger /\ committed' = committed
    BY <1>1 DEF Invoke, TypeOK
  <1>5. /\ pc'[t] \in {"get", "failed"}
        /\ pc'[t] = "get" =>
             /\ at'[t] = FirstKey(r)
             /\ data'[t] = ledger[p][FirstKey(r)].val
             /\ rset'[t] = [NoReads EXCEPT ![FirstKey(r)] = ledger[p][FirstKey(r)].ver]
    BY <1>1 DEF Invoke, TypeOK
  <1>6. OwnStub'
    BY <1>3, <1>4 DEF OwnStub, Stub, SerialInv
  <1>7. ReadsAtHome'
    BY <1>1, <1>3, <1>4, <1>5, LedgerType DEF ReadsAtHome, SerialInv, NoReads
  <1>8. WritesMerge'
    <2>1. \A k \in Keys : wset'[t][k] = NONE
      BY <1>1, <1>4 DEF NoWrites
    <2>2. \A u \in Tx \ {t} : req'[u] = req[u] /\ rset'[u] = rset[u]
      BY <1>3
    <2> QED
      BY ONLY <1>4, <2>1, <2>2, SerialInv DEF WritesMerge, SerialInv
  <1>9. WritesDone'
    BY <1>3, <1>4, <1>5 DEF WritesDone, SerialInv
  <1>10. ValidMeansRegistered'
    BY <1>3, <1>4, <1>5 DEF ValidMeansRegistered, SerialInv
  <1> QED
    BY <1>6, <1>7, <1>8, <1>9, <1>10

LEMMA SerialPut ==
  ASSUME SerialInv, NEW t \in Tx, Put(t)
  PROVE  /\ OwnStub' /\ ReadsAtHome' /\ WritesMerge' /\ WritesDone'
         /\ ValidMeansRegistered'
  <1>1. /\ TypeOK /\ Started /\ pc[t] = "get" /\ Stub(t) = t /\ StubAlive(t)
        /\ at[t] \in Keys /\ at[t] \in TargetKeys(req[t]) /\ home[t] \in Peers
    BY DEF Put, SerialInv, Base, TypeInv, Started, OwnStub, StubAlive
  <1>2. /\ pc' = [pc EXCEPT ![t] = "put"]
        /\ wset' = [wset EXCEPT ![t][at[t]] =
                      Merge(data[t], NewData(req[t], at[t]))]
        /\ UNCHANGED <<committed, ledger, stub, req, home, at, data, rset>>
    BY <1>1 DEF Put, Fail
  <1>3. OwnStub' /\ ReadsAtHome' /\ ValidMeansRegistered'
    BY <1>1, <1>2
       DEF SerialInv, OwnStub, Stub, ReadsAtHome, ValidMeansRegistered, TypeOK
  <1>4. wset'[t][at[t]] # NONE
    <2>1. req[t] \in Requests /\ data[t] \in SUBSET AllFacts
      BY <1>1 DEF TypeOK, Started, Objects
    <2>2. Merge(data[t], NewData(req[t], at[t])) \in SUBSET AllFacts
      BY <1>1, <2>1, MergeType
    <2> QED
      BY <1>1, <1>2, <2>2, NoneAssumption DEF TypeOK, WriteSets
  <1>5. \A u \in Tx, k \in Keys :
          u # t \/ k # at[t] => wset'[u][k] = wset[u][k]
    BY <1>1, <1>2 DEF TypeOK, WriteSets
  <1>6. /\ rset[t][at[t]] # -1
        /\ rset[t][at[t]] = committed[at[t]].ver =>
             data[t] = committed[at[t]].val
    BY <1>1 DEF SerialInv, Base, ReadsAtHome, LedgerFollows
  <1>7. wset'[t][at[t]] = Merge(data[t], NewData(req[t], at[t]))
    BY <1>1, <1>2 DEF TypeOK, WriteSets
  <1>8. WritesMerge'
    BY <1>1, <1>2, <1>5, <1>6, <1>7 DEF SerialInv, WritesMerge
  <1>9. WritesDone'
    BY <1>1, <1>2, <1>4, <1>5 DEF SerialInv, WritesDone, TypeOK
  <1> QED
    BY <1>3, <1>8, <1>9

LEMMA SerialGetNext ==
  ASSUME SerialInv, NEW t \in Tx, GetNext(t)
  PROVE  /\ OwnStub' /\ ReadsAtHome' /\ WritesMerge' /\ WritesDone'
         /\ ValidMeansRegistered'
  <1> DEFINE k == NextKey(req[t], at[t])
  <1>1. /\ TypeOK /\ Started /\ pc[t] = "put" /\ Stub(t) = t /\ StubAlive(t)
        /\ home[t] \in Peers /\ k \in Keys /\ at[t] = FirstKey(req[t])
    BY NextKeyType
       DEF GetNext, SerialInv, Base, TypeInv, Started, OwnStub, StubAlive,
           TargetKeys, NextKey, Keys
  <1>2. /\ pc' = [pc EXCEPT ![t] = "get"]
        /\ at' = [at EXCEPT ![t] = k]
        /\ data' = [data EXCEPT ![t] = ledger[home[t]][k].val]
        /\ rset' = [rset EXCEPT ![t][k] = ledger[home[t]][k].ver]
        /\ UNCHANGED <<committed, ledger, stub, req, home, wset>>
    BY <1>1 DEF GetNext, Fail
  <1>3. ledger[home[t]][k].ver \in Nat
    BY <1>1, LedgerType
  <1>4. OwnStub' /\ ValidMeansRegistered'
    BY <1>1, <1>2 DEF SerialInv, OwnStub, Stub, ValidMeansRegistered, TypeOK
  <1>5. /\ rset'[t][k] = ledger[home[t]][k].ver
        /\ \A u \in Tx, j \in Keys : u # t \/ j # k => rset'[u][j] = rset[u][j]
    BY <1>1, <1>2 DEF TypeOK, ReadSets
  <1>6. /\ pc'[t] = "get" /\ at'[t] = k /\ data'[t] = ledger[home[t]][k].val
        /\ \A u \in Tx \ {t} : /\ pc'[u] = pc[u] /\ at'[u] = at[u]
                               /\ data'[u] = data[u]
    BY <1>1, <1>2 DEF TypeOK
  <1>7. ReadsAtHome'
    <2>1. ASSUME NEW u \in Tx, pc'[u] \in Running, NEW j \in Keys,
                 rset'[u][j] # -1
          PROVE  rset'[u][j] = ledger'[home'[u]][j].ver
      BY <1>1, <1>2, <1>5, <1>6, <2>1 DEF SerialInv, ReadsAtHome
    <2>2. ASSUME NEW u \in Tx, pc'[u] = "get"
          PROVE  /\ rset'[u][at'[u]] # -1
                 /\ data'[u] = ledger'[home'[u]][at'[u]].val
      <3>1. CASE u = t
        BY <1>2, <1>3, <1>5, <1>6, <3>1
      <3>2. CASE u # t
        <4>1. at[u] \in Keys
          BY <1>1, <1>6, <2>2, <3>2 DEF Started
        <4> QED
          BY <1>2, <1>5, <1>6, <2>2, <3>2, <4>1 DEF SerialInv, ReadsAtHome
      <3> QED
        BY <3>1, <3>2
    <2> QED
      BY <2>1, <2>2 DEF ReadsAtHome
  <1>8. WritesMerge'
    <2>1. wset[t][k] # NONE => rset[t][k] = rset'[t][k]
      BY <1>1, <1>5 DEF SerialInv, WritesMerge, ReadsAtHome
    <2> QED
      BY <1>2, <1>3, <1>5, <2>1 DEF SerialInv, WritesMerge
  <1>9. WritesDone'
    BY <1>1, <1>2, <1>6 DEF SerialInv, WritesDone
  <1> QED
    BY <1>4, <1>7, <1>8, <1>9

\* The end of a call.
LEMMA SerialReturn ==
  ASSUME SerialInv, NEW t \in Tx, Return(t) \/ Answer(t) \/ CommitInvalid(t)
  PROVE  /\ OwnStub' /\ ReadsAtHome' /\ WritesMerge' /\ WritesDone'
         /\ ValidMeansRegistered'
  <1>1. TypeOK /\ Started
    BY DEF SerialInv, Base, TypeInv
  <1>2. /\ UNCHANGED <<committed, ledger, stub, req, home, at, data, rset, wset>>
        /\ \A u \in Tx \ {t} : pc'[u] = pc[u]
        /\ pc'[t] \in {"endorsed", "answered", "failed", "invalid"}
    BY <1>1 DEF Return, Answer, CommitInvalid, TypeOK
  <1>3. pc'[t] = "endorsed" => Return(t)
    BY <1>1 DEF Return, Answer, CommitInvalid, TypeOK
  <1>4. OwnStub' /\ ReadsAtHome' /\ WritesMerge' /\ ValidMeansRegistered'
    BY <1>2
       DEF SerialInv, OwnStub, Stub, ReadsAtHome, WritesMerge,
           ValidMeansRegistered
  <1>5. ASSUME Return(t), NEW k \in TargetKeys(req[t])
        PROVE  wset[t][k] # NONE
    BY <1>1, <1>5, NextKeyType
       DEF Return, Started, SerialInv, WritesDone, TargetKeys
  <1>6. WritesDone'
    BY <1>2, <1>3, <1>5 DEF SerialInv, WritesDone
  <1> QED
    BY <1>4, <1>6

\* A valid transaction makes every object the merge of its current value with
\* the request's data.
LEMMA SerialCommit ==
  ASSUME SerialInv, NEW t \in Tx, CommitValid(t), NEW k \in Keys
  PROVE  committed'[k].val = Merge(committed[k].val, NewData(req[t], k))
  <1>1. IsRegistration(req[t])
    BY DEF CommitValid, SerialInv, Base, TypeInv, Started
  <1>2. CASE wset[t][k] # NONE
    BY <1>2 DEF CommitValid, SerialInv, WritesMerge, Current
  <1>3. CASE wset[t][k] = NONE
    <2>1. k \notin TargetKeys(req[t])
      BY <1>3 DEF CommitValid, SerialInv, WritesDone
    <2> QED
      BY <1>1, <1>3, <2>1, NothingElsewhere, MergeNothing DEF CommitValid
  <1> QED
    BY <1>2, <1>3

LEMMA SerialCommitNext ==
  ASSUME SerialInv, NEW t \in Tx, CommitValid(t)
  PROVE  /\ OwnStub' /\ ReadsAtHome' /\ WritesMerge' /\ WritesDone'
         /\ ValidMeansRegistered'
  <1>1. TypeOK
    BY DEF SerialInv, Base, TypeInv
  <1>2. /\ UNCHANGED <<ledger, stub, req, home, at, data, rset, wset>>
        /\ pc'[t] = "valid"
        /\ \A u \in Tx \ {t} : pc'[u] = pc[u]
    BY <1>1 DEF CommitValid, TypeOK
  <1>3. OwnStub' /\ ReadsAtHome' /\ WritesDone'
    BY <1>2 DEF SerialInv, OwnStub, Stub, ReadsAtHome, WritesDone
  <1>4. \A u \in Tx, k \in Keys :
          \/ committed'[k] = committed[k]
          \/ rset[u][k] # committed'[k].ver
    <2>1. \A u \in Tx, k \in Keys :
            rset[u][k] \in Nat \cup {-1} /\ committed[k].ver \in Nat
      BY <1>1 DEF TypeOK, ReadSets, States
    <2> QED
      BY <2>1 DEF CommitValid, SerialInv, Base, ReadsArePast
  <1>5. WritesMerge'
    BY <1>2, <1>4 DEF SerialInv, WritesMerge
  <1>6. ValidMeansRegistered'
    BY <1>2, SerialCommit, MergeKeepsIds DEF SerialInv, ValidMeansRegistered
  <1> QED
    BY <1>3, <1>5, <1>6

LEMMA SerialDeliver ==
  ASSUME SerialInv, NEW p \in Peers, Deliver(p)
  PROVE  /\ OwnStub' /\ ReadsAtHome' /\ WritesMerge' /\ WritesDone'
         /\ ValidMeansRegistered'
  <1>1. TypeOK /\ Started
    BY DEF SerialInv, Base, TypeInv
  <1>2. \A t \in Tx : pc[t] \in Running => ledger'[home[t]] = ledger[home[t]]
    BY <1>1 DEF Deliver, InFlight, TypeOK, Started
  <1>3. UNCHANGED <<committed, stub, req, home, pc, at, data, rset, wset>>
    BY DEF Deliver
  <1>4. OwnStub' /\ WritesMerge' /\ WritesDone' /\ ValidMeansRegistered'
    BY <1>3
       DEF SerialInv, OwnStub, Stub, WritesMerge, WritesDone,
           ValidMeansRegistered
  <1>5. ReadsAtHome'
    BY <1>2, <1>3 DEF SerialInv, ReadsAtHome
  <1> QED
    BY <1>4, <1>5

LEMMA SerialNext ==
  ASSUME ~stolen', SerialInv, [Next]_vars
  PROVE  SerialInv'
  <1>1. Base'
    BY BaseNext DEF SerialInv
  <1>2. ASSUME UNCHANGED vars
        PROVE  /\ OwnStub' /\ ReadsAtHome' /\ WritesMerge' /\ WritesDone'
               /\ ValidMeansRegistered'
    BY <1>2
       DEF vars, SerialInv, OwnStub, Stub, ReadsAtHome, WritesMerge, WritesDone,
           ValidMeansRegistered
  <1>3. /\ OwnStub' /\ ReadsAtHome' /\ WritesMerge' /\ WritesDone'
        /\ ValidMeansRegistered'
    BY <1>2, SerialInvoke, SerialPut, SerialGetNext, SerialReturn,
       SerialCommitNext, SerialDeliver DEF Next, Done
  <1> QED
    BY <1>1, <1>3 DEF SerialInv

\* What is stolen stays so, and what has started elsewhere.
LEMMA HistoryStays ==
  ASSUME Base, [Next]_vars
  PROVE  (stolen => stolen') /\ (DnsFirst' => DnsFirst)
  <1>1. stolen => stolen'
    BY DEF Next, Invoke, Put, GetNext, Return, Answer, CommitValid, CommitInvalid,
           Deliver, Done, vars
  <1>2. ASSUME NEW t \in Tx, pc[t] # "idle"
        PROVE  pc'[t] # "idle" /\ req'[t] = req[t]
    <2>1. ASSUME NEW u \in Tx, NEW p \in Peers, NEW r \in Requests, Invoke(u, p, r)
          PROVE  pc'[t] # "idle" /\ req'[t] = req[t]
      BY <1>2, <2>1 DEF Invoke, Base, TypeInv, TypeOK
    <2>2. ASSUME req' = req, NEW u \in Tx,
                 pc' = pc \/ \E s \in Running \cup Finished : pc' = [pc EXCEPT ![u] = s]
          PROVE  pc'[t] # "idle" /\ req'[t] = req[t]
      BY <1>2, <2>2 DEF Base, TypeInv, TypeOK
    <2>3. ASSUME NEW p \in Peers, Deliver(p) \/ UNCHANGED vars
          PROVE  pc'[t] # "idle" /\ req'[t] = req[t]
      BY <1>2, <2>3 DEF Deliver, vars
    <2>4. UNCHANGED vars => pc'[t] # "idle" /\ req'[t] = req[t]
      BY <1>2 DEF vars
    <2> QED
      BY <2>1, <2>2, <2>3, <2>4
         DEF Next, Put, GetNext, Fail, Return, Answer, CommitValid, CommitInvalid, Done
  <1>3. DnsFirst' => DnsFirst
    BY <1>2 DEF DnsFirst
  <1> QED
    BY <1>1, <1>3

\* The two invariants, each as long as its condition holds.
RegistryInv == Base /\ (~stolen => SerialInv) /\ (DnsFirst => DnsInv)

LEMMA RegistryInvariant == Spec => []RegistryInv
  <1>1. Init => RegistryInv
    BY BaseInit, SerialInit, DnsInit DEF RegistryInv
  <1>2. RegistryInv /\ [Next]_vars => RegistryInv'
    <2> SUFFICES ASSUME RegistryInv, [Next]_vars PROVE RegistryInv'
      OBVIOUS
    <2>1. Base'
      BY BaseNext DEF RegistryInv
    <2>2. ASSUME ~stolen' PROVE SerialInv'
      BY <2>2, HistoryStays, SerialNext DEF RegistryInv
    <2>3. ASSUME DnsFirst' PROVE DnsInv'
      BY <2>3, HistoryStays, DnsNext DEF RegistryInv
    <2> QED
      BY <2>1, <2>2, <2>3 DEF RegistryInv
  <1> QED
    BY <1>1, <1>2, PTL DEF Spec

\* A registration the channel accepts is in the registry, completely and for good,
\* as long as no call has replaced the stub of a registration under way.
THEOREM StaysRegistered == Spec => []ValidUnlessStolen
  <1>1. RegistryInv => ValidUnlessStolen
    BY DEF RegistryInv, SerialInv, ValidUnlessStolen
  <1> QED
    BY RegistryInvariant, <1>1, PTL

\* Nothing else than a valid transaction changes what is stored.
LEMMA OthersLeave ==
  ASSUME [Next]_vars
  PROVE  UNCHANGED committed \/ \E t \in Tx : CommitValid(t)
BY DEF Next, Invoke, Put, GetNext, Return, Answer, CommitInvalid, Deliver, Done, vars

\* However many invocations share a chaincode process, and in whatever order
\* they run, no transaction the channel accepts takes an entry out of the hosts
\* data, as long as every registration has started with the key "dns" or found its
\* own stub.
THEOREM DnsNeverShrinks == Spec => DnsOnlyGrows
  <1> DEFINE Grows == Ids(committed["dns"].val) \subseteq Ids(committed'["dns"].val)
  <1>1. ASSUME RegistryInv, [Next]_vars, stolen' => DnsFirst'
        PROVE  Grows
    <2>1. ASSUME NEW t \in Tx, CommitValid(t) PROVE Grows
      <3>1. CASE ~stolen'
        <4>1. SerialInv
          BY <1>1, <3>1, HistoryStays DEF RegistryInv
        <4>2. committed'["dns"].val = Merge(committed["dns"].val, NewData(req[t], "dns"))
          BY <2>1, <4>1, SerialCommit DEF Keys
        <4> QED
          BY <4>2, MergeKeepsIds
      <3>2. CASE DnsFirst'
        BY <1>1, <2>1, <3>2, HistoryStays, DnsCommit DEF RegistryInv
      <3> QED
        BY <1>1, <3>1, <3>2
    <2>2. CASE UNCHANGED committed
      BY <2>2
    <2> QED
      BY <1>1, <2>1, <2>2, OthersLeave
  <1>2. RegistryInv /\ [Next]_vars =>
          [(stolen' => DnsFirst') => Ids(committed["dns"].val) \subseteq
                                       Ids(committed'["dns"].val)]_vars
    BY <1>1
  <1> QED
    BY RegistryInvariant, <1>2, PTL DEF Spec, DnsOnlyGrows

\* The abstract registry is about the same requests and the same data.
LEMMA SameData ==
  /\ R!Keys = Keys
  /\ \A r : R!IsRegistration(r) = IsRegistration(r)
  /\ \A r : R!Accepted(r) = Accepted(r)
  /\ \A r, k : R!NewData(r, k) = NewData(r, k)
  /\ \A old, new : R!Merge(old, new) = Merge(old, new)
  <1>1. \A id, ip : R!Fact(id, ip) = Fact(id, ip)
    BY DEF R!Fact, Fact
  <1>2. \A ip, name : R!DnsFact(ip, name) = DnsFact(ip, name)
    BY <1>1 DEF R!DnsFact, DnsFact
  <1>3. \A r, forms, listed : R!Names(r, forms, listed) = Names(r, forms, listed)
    BY <1>2 DEF R!Names, Names
  <1>4. \A r : R!OrgDns(r) = OrgDns(r)
    BY <1>3 DEF R!OrgDns, OrgDns, R!OrgDns1x, OrgDns1x, R!OrgDns2x, OrgDns2x
  <1>5. \A r : /\ R!OrgDns(r) = OrgDns(r)
              /\ R!OrgPeers(r) = OrgPeers(r)
              /\ R!OrdererDns(r) = OrdererDns(r)
              /\ R!OrdererOsn(r) = OrdererOsn(r)
    BY <1>1, <1>2, <1>4
       DEF R!OrgPeers, OrgPeers, R!OrdererDns, OrdererDns,
           R!OrdererOsn, OrdererOsn
  <1>6. \A r, k : R!NewData(r, k) = NewData(r, k)
    BY <1>5 DEF R!NewData, NewData
  <1> QED
    BY <1>6
       DEF R!Keys, Keys, R!IsRegistration, IsRegistration, R!Accepted, Accepted,
           R!Merge, Merge, R!Ids, Ids

\* As long as no call has replaced the stub of a registration under way, the
\* chaincode and its channel implement the abstract registry: a valid registration
\* is the abstract one, everything else is a stutter.
THEOREM StaysAtomic == Spec => AtomicUnlessStolen
  <1>1. Init => R!Init
    BY SameData DEF Init, R!Init, Registered
  <1>2. RegistryInv /\ [Next]_vars => [stolen' \/ R!Next]_Registered
    <2> SUFFICES ASSUME RegistryInv, [Next]_vars, ~stolen'
                 PROVE  [R!Next]_Registered
      OBVIOUS
    <2>1. SerialInv
      BY HistoryStays DEF RegistryInv
    <2>2. ASSUME NEW t \in Tx, CommitValid(t)
          PROVE  R!Next
      <3>1. req[t] \in Requests /\ IsRegistration(req[t]) /\ Accepted(req[t])
        BY <2>1, <2>2 DEF CommitValid, SerialInv, Base, TypeInv, Started
      <3>2. \A k \in Keys :
              committed'[k].val = Merge(committed[k].val, NewData(req[t], k))
        BY <2>1, <2>2, SerialCommit
      <3> QED
        BY <3>1, <3>2, SameData DEF R!Next, R!Register, Registered
    <2>3. committed' = committed => Registered' = Registered
      BY DEF Registered
    <2> QED
      BY <2>2, <2>3, OthersLeave
  <1> QED
    BY RegistryInvariant, <1>1, <1>2, PTL DEF Spec, AtomicUnlessStolen

-------------------------------------------------------------------------------
(* The objects of the registry agree.                                      *)

\* A hosts entry is never replaced by another one: its path contains its
\* address.
LEMMA DnsFactsStay ==
  ASSUME NEW old, NEW r, NEW f \in old, NEW ip, NEW name, f = DnsFact(ip, name)
  PROVE  f \in Merge(old, NewData(r, "dns"))
  <1>1. \A g \in NewData(r, "dns") :
          \E ip2, name2 : g = DnsFact(ip2, name2)
    BY DEF NewData, OrgDns, OrgDns1x, OrgDns2x, Names, OrdererDns
  <1>2. ASSUME NEW g \in NewData(r, "dns"), f.id = g.id
        PROVE  f = g
    <2>1. PICK ip2, name2 : g = DnsFact(ip2, name2)
      BY <1>1
    <2> QED
      BY <1>2, <2>1 DEF DnsFact, Fact
  <1> QED
    BY <1>2, MergeLeaves

\* A request that lists a peer of an organisation also names it in the hosts
\* data, at the same address.
LEMMA OrgDataResolvable ==
  ASSUME NEW r, NEW f \in NewData(r, "orgs")
  PROVE  DnsFact(f.ip, <<f.id[2], PeerForm, f.id[1]>>) \in NewData(r, "dns")
  <1>1. r.fcn = "registerOrg" /\ f \in OrgPeers(r)
    BY DEF NewData
  <1>2. CASE \E p \in DOMAIN r.peers : f = Fact(<<r.org, p>>, r.peers[p])
    BY <1>1, <1>2 DEF NewData, OrgDns, OrgDns1x, OrgDns2x, Names, PeerForm, Fact
  <1>3. CASE r.port # NONE /\ f = Fact(<<r.org, r.peer>>, r.ip)
    BY <1>1, <1>3 DEF NewData, OrgDns, OrgDns1x, OrgDns2x, Names, PeerForm, Fact
  <1> QED
    BY <1>1, <1>2, <1>3 DEF OrgPeers

\* It lists it with an address.
LEMMA OrgDataHasAddress ==
  ASSUME NEW r \in Requests, NEW f \in NewData(r, "orgs")
  PROVE  f.ip # NONE
  <1>1. r.fcn = "registerOrg" /\ f \in OrgPeers(r)
    BY DEF NewData
  <1>2. r.ip # NONE /\ \A p \in DOMAIN r.peers : r.peers[p] # NONE
    BY <1>1, RequestsAssumption
  <1> QED
    BY <1>1, <1>2 DEF OrgPeers, Fact

\* A peer listed under "orgs" has a hosts entry.
OrgsResolvable ==
  \A f \in committed["orgs"].val :
    DnsFact(f.ip, <<f.id[2], PeerForm, f.id[1]>>) \in committed["dns"].val

\* As long as no call has replaced the stub of a registration under way, every peer
\* listed under "orgs" has a hosts entry at the address it is listed with.
THEOREM StaysResolvable == Spec => []ResolvableUnlessStolen
  <1>1. Init => (~stolen => OrgsResolvable)
    BY DEF Init, OrgsResolvable, Keys
  <1>2. ASSUME SerialInv, OrgsResolvable, NEW t \in Tx, CommitValid(t)
        PROVE  OrgsResolvable'
    <2> DEFINE name(f) == <<f.id[2], PeerForm, f.id[1]>>
    <2>1. /\ committed'["orgs"].val =
               Merge(committed["orgs"].val, NewData(req[t], "orgs"))
          /\ committed'["dns"].val =
               Merge(committed["dns"].val, NewData(req[t], "dns"))
      BY <1>2, SerialCommit DEF Keys
    <2> SUFFICES ASSUME NEW f \in committed'["orgs"].val
                 PROVE  DnsFact(f.ip, name(f)) \in committed'["dns"].val
      BY DEF OrgsResolvable
    <2>2. CASE f \in committed["orgs"].val
      <3>1. DnsFact(f.ip, name(f)) \in committed["dns"].val
        BY <1>2, <2>2 DEF OrgsResolvable
      <3> HIDE DEF name
      <3> QED
        BY <2>1, <3>1, DnsFactsStay
    <2>3. CASE f \in NewData(req[t], "orgs")
      <3>1. DnsFact(f.ip, name(f)) \in NewData(req[t], "dns")
        BY <2>3, OrgDataResolvable
      <3>2. f.ip # NONE
        <4>1. req[t] \in Requests
          BY <1>2 DEF CommitValid, SerialInv, Base, TypeInv, Started
        <4> QED
          BY <2>3, <4>1, OrgDataHasAddress
      <3>3. DnsFact(f.ip, name(f)).ip # NONE
        BY <3>2 DEF DnsFact, Fact
      <3> HIDE DEF name
      <3> QED
        BY <2>1, <3>1, <3>3, MergeAdds
    <2> QED
      BY <2>1, <2>2, <2>3, MergedFrom
  <1>3. RegistryInv /\ (~stolen => OrgsResolvable) /\ [Next]_vars
          => (~stolen => OrgsResolvable)'
    <2> SUFFICES ASSUME RegistryInv, ~stolen => OrgsResolvable, [Next]_vars, ~stolen'
                 PROVE  OrgsResolvable'
      OBVIOUS
    <2>1. SerialInv /\ OrgsResolvable
      BY HistoryStays DEF RegistryInv
    <2>2. UNCHANGED committed => OrgsResolvable'
      BY <2>1 DEF OrgsResolvable
    <2> QED
      BY <1>2, <2>1, <2>2, OthersLeave
  <1>4. (~stolen => OrgsResolvable) <=> ResolvableUnlessStolen
    BY DEF OrgsResolvable, ResolvableUnlessStolen
  <1> QED
    BY <1>1, <1>3, <1>4, RegistryInvariant, PTL DEF Spec

================================================================================
