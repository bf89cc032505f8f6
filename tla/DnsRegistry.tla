------------------------------ MODULE DnsRegistry ------------------------------
(***************************************************************************)
(* The "dns" chaincode (chaincode/2x/node/dns, chaincode/node/dns) as its   *)
(* peers run it.                                                           *)
(*                                                                         *)
(* Each peer of the service channel runs one Node.js process of the        *)
(* chaincode.  An invocation is an async function: between two awaits it   *)
(* runs alone, at an await any other invocation of the process may run.    *)
(* All of them share the object's field this.stub, the handle of the       *)
(* transaction on whose behalf get and put talk to the peer; Invoke        *)
(* assigns it and get/put read it when they are called.                    *)
(*                                                                         *)
(* The peer, the ordering service and the command line client are not in   *)
(* this repository.  From them the model takes what the scripts rely on: a *)
(* transaction is simulated against the peer's committed state, which      *)
(* does not move meanwhile, and collects the versions it read and the      *)
(* values it wrote; the client sends the result to the orderer; a          *)
(* transaction whose reads are no longer current is recorded as invalid.   *)
(* "peer chaincode invoke" does not wait for that verdict.                 *)
(***************************************************************************)
EXTENDS Integers, FiniteSets, RegistryData

CONSTANTS
  Peers,        \* the endorsing peers, each with its chaincode process
  Tx,           \* the transactions of a run
  MaxInFlight   \* calls that a peer has in its chaincode process at a time

\* Every script that registers an organisation gives the addresses.
ASSUME RequestsAssumption ==
  \A r \in Requests :
    /\ FirstKey(r) \in Keys
    /\ r.fcn = "registerOrg" =>
         r.ip # NONE /\ \A p \in DOMAIN r.peers : r.peers[p] # NONE

ASSUME TxAssumption == IsFiniteSet(Tx)

ASSUME NoneAssumption ==
  /\ NONE \notin Keys /\ NONE \notin Tx /\ NONE \notin Peers
  /\ \A obj \in SUBSET AllFacts : NONE # obj

ASSUME MaxInFlightAssumption == MaxInFlight \in Nat \ {0}

VARIABLES
  committed,  \* key -> [ver, val]: the state all valid transactions lead to
  ledger,     \* peer -> the same, as far as the peer has committed blocks
  stub,       \* peer -> this.stub of its chaincode object
  stolen,     \* history: a call has replaced the stub of a registration under way
  req,        \* transaction -> its request, NONE before Invoke
  home,       \* transaction -> the peer that simulates it
  pc,         \* transaction -> where it stands
  at,         \* transaction -> the key it is working on
  data,       \* transaction -> the local "data" of updateRegistryObject
  rset,       \* transaction -> key -> version read, -1 if not read
  wset        \* transaction -> key -> value written, NONE if not written

vars == <<committed, ledger, stub, stolen, req, home, pc, at, data, rset, wset>>

\* Simulation, in the chaincode process: "get" awaits getState, "put" awaits
\* putState.  Then "endorsed" (success returned to the client), "failed" (an
\* error returned), "answered" (a query), and the verdict of the channel.
Running  == {"get", "put"}
Finished == {"endorsed", "failed", "answered", "valid", "invalid"}

NoReads  == [k \in Keys |-> -1]
NoWrites == [k \in Keys |-> NONE]

Objects   == SUBSET AllFacts
States    == [Keys -> [ver : Nat, val : Objects]]
ReadSets  == [Keys -> Nat \cup {-1}]
WriteSets == [Keys -> Objects \cup {NONE}]

TypeOK ==
  /\ committed \in States
  /\ ledger \in [Peers -> States]
  /\ stub \in [Peers -> Tx \cup {NONE}] /\ stolen \in BOOLEAN
  /\ req \in [Tx -> Requests \cup {NONE}]
  /\ home \in [Tx -> Peers \cup {NONE}]
  /\ pc \in [Tx -> {"idle"} \cup Running \cup Finished]
  /\ at \in [Tx -> Keys \cup {NONE}]
  /\ data \in [Tx -> Objects]
  /\ rset \in [Tx -> ReadSets]
  /\ wset \in [Tx -> WriteSets]

Init ==
  /\ committed = [k \in Keys |-> [ver |-> 0, val |-> {}]]
  /\ ledger = [p \in Peers |-> committed]
  /\ stub = [p \in Peers |-> NONE] /\ stolen = FALSE
  /\ req = [t \in Tx |-> NONE]
  /\ home = [t \in Tx |-> NONE]
  /\ pc = [t \in Tx |-> "idle"]
  /\ at = [t \in Tx |-> NONE]
  /\ data = [t \in Tx |-> {}]
  /\ rset = [t \in Tx |-> NoReads]
  /\ wset = [t \in Tx |-> NoWrites]

InFlight(p) == {t \in Tx : pc[t] \in Running /\ home[t] = p}

\* this.stub as get and put of t find it, and whether the peer still accepts
\* its messages: once a transaction has returned, its context is gone and the
\* peer answers with an error, which the handler of t rethrows.
Stub(t) == stub[home[t]]
StubAlive(t) == pc[Stub(t)] \in Running

-------------------------------------------------------------------------------
(* The chaincode.                                                          *)

\* Invoke: this.stub is assigned, the handler checks its arguments and runs
\* up to its first await, the getState of its first key.  Nothing else runs
\* in between, so this first read goes to the transaction's own stub.
Invoke(t, p, r) ==
  /\ pc[t] = "idle"
  /\ Cardinality(InFlight(p)) < MaxInFlight
  /\ stub' = [stub EXCEPT ![p] = t]
  /\ stolen' = (stolen \/ \E u \in InFlight(p) : IsRegistration(req[u]))
  /\ req' = [req EXCEPT ![t] = r]
  /\ home' = [home EXCEPT ![t] = p]
  /\ \/ /\ Accepted(r)
        /\ pc' = [pc EXCEPT ![t] = "get"]
        /\ at' = [at EXCEPT ![t] = FirstKey(r)]
        /\ data' = [data EXCEPT ![t] = ledger[p][FirstKey(r)].val]
        /\ rset' = [rset EXCEPT ![t][FirstKey(r)] = ledger[p][FirstKey(r)].ver]
     \/ /\ ~Accepted(r)
        /\ pc' = [pc EXCEPT ![t] = "failed"]
        /\ UNCHANGED <<at, data, rset>>
  /\ UNCHANGED <<committed, ledger, wset>>

\* An error from the peer leaves the handler by an exception.
Fail(t) ==
  /\ ~StubAlive(t)
  /\ pc' = [pc EXCEPT ![t] = "failed"]
  /\ UNCHANGED <<at, data, rset, wset>>

\* updateRegistryObject after its get: the new data is merged into the value
\* read and written back with put, through this.stub as it is now.
Put(t) ==
  /\ pc[t] = "get"
  /\ IsRegistration(req[t])
  /\ \/ /\ StubAlive(t)
        /\ wset' = [wset EXCEPT ![Stub(t)][at[t]] =
                      Merge(data[t], NewData(req[t], at[t]))]
        /\ pc' = [pc EXCEPT ![t] = "put"]
        /\ UNCHANGED <<at, data, rset>>
     \/ Fail(t)
  /\ UNCHANGED <<committed, ledger, stub, stolen, req, home>>

\* Mutant: the second object is taken from a cache, without a getState.
GetNextFromCache(t) ==
  /\ pc[t] = "put"
  /\ NextKey(req[t], at[t]) # NONE
  /\ data' = [data EXCEPT ![t] = ledger[home[t]][NextKey(req[t], at[t])].val]
  /\ at' = [at EXCEPT ![t] = NextKey(req[t], at[t])]
  /\ pc' = [pc EXCEPT ![t] = "get"]
  /\ UNCHANGED <<committed, ledger, stub, stolen, req, home, rset, wset>>

\* The put is acknowledged and the handler goes on to its second object,
\* whose get again uses this.stub as it is now.
GetNext(t) ==
  /\ pc[t] = "put"
  /\ NextKey(req[t], at[t]) # NONE
  /\ LET k == NextKey(req[t], at[t]) IN
     \/ /\ StubAlive(t)
        /\ rset' = [rset EXCEPT ![Stub(t)][k] = ledger[home[t]][k].ver]
        /\ data' = [data EXCEPT ![t] = ledger[home[t]][k].val]
        /\ at' = [at EXCEPT ![t] = k]
        /\ pc' = [pc EXCEPT ![t] = "get"]
        /\ UNCHANGED wset
     \/ Fail(t)
  /\ UNCHANGED <<committed, ledger, stub, stolen, req, home>>

\* The last put is acknowledged: shim.success.
Return(t) ==
  /\ pc[t] = "put"
  /\ NextKey(req[t], at[t]) = NONE
  /\ pc' = [pc EXCEPT ![t] = "endorsed"]
  /\ UNCHANGED <<committed, ledger, stub, stolen, req, home, at, data, rset, wset>>

\* A query returns what it read.  Nobody sends its result to the orderer.
Answer(t) ==
  /\ pc[t] = "get"
  /\ ~IsRegistration(req[t])
  /\ pc' = [pc EXCEPT ![t] = "answered"]
  /\ UNCHANGED <<committed, ledger, stub, stolen, req, home, at, data, rset, wset>>

-------------------------------------------------------------------------------
(* The channel (external).                                                 *)

Current(t) == \A k \in Keys : rset[t][k] \in {-1, committed[k].ver}

\* The endorsed transaction is ordered and validated.
CommitValid(t) ==
  /\ pc[t] = "endorsed"
  /\ Current(t)
  /\ committed' = [k \in Keys |->
       IF wset[t][k] = NONE THEN committed[k]
       ELSE [ver |-> committed[k].ver + 1, val |-> wset[t][k]]]
  /\ pc' = [pc EXCEPT ![t] = "valid"]
  /\ UNCHANGED <<ledger, stub, stolen, req, home, at, data, rset, wset>>

\* Another transaction was faster: this one is on the chain without effect.
\* Also the client that dies, or finds no orderer, after the endorsement.
CommitInvalid(t) ==
  /\ pc[t] = "endorsed"
  /\ pc' = [pc EXCEPT ![t] = IF Current(t) THEN "failed" ELSE "invalid"]
  /\ UNCHANGED <<committed, ledger, stub, stolen, req, home, at, data, rset, wset>>

\* A peer commits the blocks it has received.  It waits for the simulations
\* under way.
Deliver(p) ==
  /\ InFlight(p) = {}
  /\ ledger[p] # committed
  /\ ledger' = [ledger EXCEPT ![p] = committed]
  /\ UNCHANGED <<committed, stub, stolen, req, home, pc, at, data, rset, wset>>

\* Every transaction of the run has its verdict and every peer knows it.
Done ==
  /\ \A t \in Tx : pc[t] \in Finished \ {"endorsed"}
  /\ \A p \in Peers : ledger[p] = committed
  /\ UNCHANGED vars

Next ==
  \/ \E t \in Tx, p \in Peers, r \in Requests : Invoke(t, p, r)
  \/ \E t \in Tx : \/ Put(t) \/ GetNext(t) \/ Return(t) \/ Answer(t)
                   \/ CommitValid(t) \/ CommitInvalid(t)
  \/ \E p \in Peers : Deliver(p)
  \/ Done

Spec == Init /\ [][Next]_vars

-------------------------------------------------------------------------------
(* Properties.                                                             *)

\* A registration that the channel accepted is in the registry, completely
\* and for good: in the hosts data, and under "orgs" or "osn".  It takes the
\* version check of the channel, and the read-modify-write of
\* updateRegistryObject being made on one transaction (chaincode-dns.js:112).
ValidMeansRegistered ==
  \A t \in Tx : pc[t] = "valid" /\ IsRegistration(req[t]) =>
    \A k \in Keys : Ids(NewData(req[t], k)) \subseteq Ids(committed[k].val)

\* So it is as long as no call has started in a process while a registration was
\* under way there.  A registration may start while a query is.
ValidUnlessStolen == ~stolen => ValidMeansRegistered

\* Until then the objects agree: a peer listed under "orgs" has a hosts entry at
\* the address it is listed with, although the two objects are written by two
\* separate puts (chaincode-dns.js:57,70).
ResolvableUnlessStolen ==
  ~stolen =>
    \A f \in committed["orgs"].val :
      DnsFact(f.ip, <<f.id[2], PeerForm, f.id[1]>>) \in committed["dns"].val

\* Until then every change of the registry is one registration, whole: the
\* chaincode implements the abstract registry.
Registered == [k \in Keys |-> committed[k].val]
R == INSTANCE Registry WITH registry <- Registered
AtomicUnlessStolen == R!Init /\ [][stolen' \/ R!Next]_Registered

\* No registration was made yet that has nothing to enter in the hosts data, which
\* is one of an orderer without its address.
DnsFirst ==
  \A t \in Tx : pc[t] # "idle" /\ IsRegistration(req[t]) => FirstKey(req[t]) = "dns"

\* No valid transaction takes an entry out of the hosts data, not even when the
\* invocations of one process interleave and their writes end up in each other's
\* transactions, unless there is an orderer among them that starts elsewhere: all
\* others have read the hosts data through their own stub
\* (chaincode-dns.js:113,148).
DnsOnlyGrows ==
  [][(stolen' => DnsFirst')
       => Ids(committed["dns"].val) \subseteq Ids(committed'["dns"].val)]_vars

===============================================================================
