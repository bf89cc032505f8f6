------------------------- MODULE ServiceBootstrapProofs -------------------------
(***************************************************************************)
(* Proof that the bootstrap scripts, for any number of organisations, runs *)
(* and faults, never take the registry chaincode away from an organisation *)
(* that the registry lists; and that its variables keep their types.       *)
(*                                                                         *)
(* The argument: the definition is committed once.  Only the bootstrap     *)
(* organisation's commit counts; it comes to it in the run that has set    *)
(* the anchor peers, and no later run gets past them.  And whoever is      *)
(* listed has approved at least once.                                      *)
(***************************************************************************)
EXTENDS ServiceBootstrap, TLAPS

-------------------------------------------------------------------------------
(* The inductive invariant.                                                *)

\* Where the script of the bootstrap organisation may stand once the chaincode is
\* committed.
AfterCommit == {"idle", "create", "anchor", "orderer", "register"}

Types ==
  /\ pc \in [Orgs -> Steps]
  /\ created \in [Orgs -> BOOLEAN]
  /\ approved \in [Orgs -> Nat]
  /\ registered \subseteq joined /\ joined \subseteq Orgs

\* A run that has created the channel has set the anchor peers.
CreatedIsAnchored ==
  /\ created[boot] => anchored
  /\ pc[boot] \in {"create", "anchor"} => ~created[boot]
  /\ pc[boot] = "commit" => created[boot]

CommittedOnce ==
  /\ committed \in {0, 1}
  /\ committed = 1 => anchored /\ pc[boot] \in AfterCommit

ListedHaveApproved ==
  \A o \in registered : committed = 1 /\ approved[o] >= 1

BootInv == Types /\ CreatedIsAnchored /\ CommittedOnce /\ ListedHaveApproved

\* The invariant holds in the beginning.
LEMMA BootInit == Init => BootInv
BY BootAssumption
   DEF Init, BootInv, Types, Steps, CreatedIsAnchored, CommittedOnce, AfterCommit,
       ListedHaveApproved

\* Every step of a script, of the service, and a script's death keep it.
LEMMA BootNext == BootInv /\ [Next]_vars => BootInv'
<1> USE BootAssumption DEF BootInv, Types, Steps
<1> SUFFICES ASSUME BootInv, [Next]_vars PROVE BootInv'
  OBVIOUS
<1>1. ASSUME NEW o \in Orgs, Start(o) PROVE BootInv'
  BY <1>1 DEF Start, Step, Goto, network, Fine, CreatedIsAnchored, CommittedOnce,
              AfterCommit, ListedHaveApproved
<1>2. ASSUME NEW o \in Orgs, Create(o) PROVE BootInv'
  BY <1>2 DEF Create, Step, Goto, local, CreatedIsAnchored, CommittedOnce,
              AfterCommit, ListedHaveApproved
<1>3. ASSUME NEW o \in Orgs, Anchor(o) PROVE BootInv'
  BY <1>3 DEF Anchor, Goto, Fine, CreatedIsAnchored, CommittedOnce,
              AfterCommit, ListedHaveApproved
<1>4. ASSUME NEW o \in Orgs, NEW from, NEW to \in {"again", "join"},
             from \in {"invite", "again"}, Ask(o, from, to)
      PROVE  BootInv'
  BY <1>4 DEF Ask, Step, Goto, local, CreatedIsAnchored, CommittedOnce,
              AfterCommit, ListedHaveApproved
<1>5. ASSUME NEW o \in Orgs, Join(o) PROVE BootInv'
  BY <1>5 DEF Join, Goto, CreatedIsAnchored, CommittedOnce,
              AfterCommit, ListedHaveApproved
<1>6. ASSUME NEW o \in Orgs, Approve(o) PROVE BootInv'
  <2>1. approved' \in [Orgs -> Nat] /\ \A p \in Orgs : approved'[p] >= approved[p]
    BY <1>6 DEF Approve
  <2>2. /\ pc' = [pc EXCEPT ![o] = IF created[o] THEN "commit" ELSE "register"]
        /\ pc[o] = "approve"
        /\ UNCHANGED <<anchored, joined, committed, registered, created>>
    BY <1>6 DEF Approve, Step, Goto, local
  <2>3. Types' /\ CreatedIsAnchored' /\ CommittedOnce'
    BY <2>1, <2>2 DEF CreatedIsAnchored, CommittedOnce, AfterCommit
  <2>4. ListedHaveApproved'
    BY <2>1, <2>2 DEF ListedHaveApproved
  <2> QED
    BY <2>3, <2>4
<1>7. ASSUME NEW o \in Orgs, Commit(o) PROVE BootInv'
  <2>1. CASE o = boot
    BY <1>7, <2>1 DEF Commit, Step, Goto, local, CreatedIsAnchored, CommittedOnce,
                      AfterCommit, ListedHaveApproved
  <2>2. CASE o # boot
    BY <1>7, <2>2 DEF Commit, Step, Goto, local, CreatedIsAnchored, CommittedOnce,
                      AfterCommit, ListedHaveApproved
  <2> QED
    BY <2>1, <2>2
<1>8. ASSUME NEW o \in Orgs, RegisterOrderer(o) PROVE BootInv'
  BY <1>8 DEF RegisterOrderer, Step, Goto, local, CreatedIsAnchored, CommittedOnce,
              AfterCommit, ListedHaveApproved
<1>9. ASSUME NEW o \in Orgs, RegisterOrg(o) PROVE BootInv'
  BY <1>9 DEF RegisterOrg, Runs, Step, Goto, local, CreatedIsAnchored, CommittedOnce,
              AfterCommit, ListedHaveApproved
<1>10. ASSUME NEW o \in Orgs, Handle(o) PROVE BootInv'
  BY <1>10 DEF Handle, local, CreatedIsAnchored, CommittedOnce,
               AfterCommit, ListedHaveApproved
<1>11. ASSUME NEW o \in Orgs, Die(o) PROVE BootInv'
  BY <1>11 DEF Die, Goto, network, local, CreatedIsAnchored, CommittedOnce,
               AfterCommit, ListedHaveApproved
<1>12. CASE UNCHANGED vars
  BY <1>12 DEF vars, network, local, CreatedIsAnchored, CommittedOnce,
               AfterCommit, ListedHaveApproved
<1> QED
  BY <1>1, <1>2, <1>3, <1>4, <1>5, <1>6, <1>7, <1>8, <1>9, <1>10, <1>11, <1>12
     DEF Next, Script

-------------------------------------------------------------------------------
(* The theorem.                                                            *)

\* An organisation that the registry lists runs the committed chaincode for ever,
\* however often the scripts are run and wherever they fail
\* (version-specifics.sh:41-112, container-lib.sh:181-185).
THEOREM ListedServe == Spec => []ListedOnesServe
<1>1. BootInv => ListedOnesServe
  BY DEF BootInv, Types, CommittedOnce, ListedHaveApproved, ListedOnesServe, Runs
<1> QED
  BY <1>1, BootInit, BootNext, PTL DEF Spec

-------------------------------------------------------------------------------
(* Type correctness.                                                       *)

\* Where a script of this run has yet to try to join, and yet to approve.
BeforeJoin    == {"create", "anchor", "invite", "again"}
BeforeApprove == BeforeJoin \cup {"join", "approve"}

\* An organisation approves once in a run, and a run ends its tries of joining.
Counted ==
  \A o \in Orgs :
    /\ pc[o] \in BeforeJoin => tries[o] = 0
    /\ pc[o] = "join" => tries[o] < MaxTries
    /\ approved[o] <= runs[o]
    /\ pc[o] \in BeforeApprove => approved[o] < runs[o]

TypeInv == TypeOK /\ Counted /\ pc[boot] \notin {"invite", "again"}

LEMMA TypeInit == Init => TypeInv
<1> SUFFICES ASSUME Init PROVE TypeInv
  OBVIOUS
<1>1. /\ approved \in [Orgs -> 0 .. MaxRuns] /\ pc \in [Orgs -> Steps]
      /\ created \in [Orgs -> BOOLEAN] /\ isJoined \in [Orgs -> BOOLEAN]
      /\ tries \in [Orgs -> 0 .. MaxTries] /\ runs \in [Orgs -> 0 .. MaxRuns]
  BY BoundsAssumption DEF Init, Steps
<1>2. Counted /\ pc[boot] \notin {"invite", "again"}
  BY BootAssumption DEF Init, Counted, BeforeJoin, BeforeApprove
<1>3. /\ members = {} /\ joined = {} /\ registered = {} /\ late = {} /\ committed = 0
      /\ ~anchored /\ anchored \in BOOLEAN /\ orderer \in BOOLEAN
      /\ faults = 0 /\ hurt \in BOOLEAN
  BY DEF Init
<1> QED
  BY <1>1, <1>2, <1>3, BoundsAssumption DEF TypeInv, TypeOK

\* Every step keeps the types and the counts.
LEMMA TypeNext == TypeInv /\ [Next]_vars => TypeInv'
<1> USE BootAssumption, BoundsAssumption
<1> SUFFICES ASSUME TypeInv, [Next]_vars PROVE TypeInv'
  OBVIOUS
<1> USE DEF TypeInv, TypeOK, Counted, BeforeJoin, BeforeApprove, Steps
<1>1. ASSUME NEW o \in Orgs, Start(o) PROVE TypeInv'
  BY <1>1 DEF Start, Step, Goto, network, Fine
<1>2. ASSUME NEW o \in Orgs, Create(o) PROVE TypeInv'
  BY <1>2 DEF Create, Step, Goto, local, Fine, Fault, OneFault
<1>3. ASSUME NEW o \in Orgs, Anchor(o) PROVE TypeInv'
  <2>1. /\ anchored' \in BOOLEAN /\ (anchored' => members # {})
        /\ hurt' \in BOOLEAN /\ created' \in [Orgs -> BOOLEAN]
    <3>1. CASE anchored
      BY <1>3, <3>1 DEF Anchor, Fine
    <3>2. CASE ~anchored
      BY <1>3, <3>2 DEF Anchor, Fine, OneFault
    <3> QED
      BY <3>1, <3>2
  <2>2. faults' \in 0 .. MaxFaults
    <3>1. faults' = faults \/ (faults < MaxFaults /\ faults' = faults + 1)
      BY <1>3, Zenon DEF Anchor, Fine, OneFault
    <3> QED
      BY <3>1
  <2>3. /\ pc[o] = "anchor" /\ pc' = [pc EXCEPT ![o] = IF anchored THEN "idle" ELSE "join"]
        /\ UNCHANGED <<members, joined, approved, committed, registered, orderer, late,
                       isJoined, tries, runs>>
    BY <1>3 DEF Anchor, Goto
  <2> QED
    BY <2>1, <2>2, <2>3
<1>4. ASSUME NEW o \in Orgs, NEW from, NEW to \in {"again", "join"},
             from \in {"invite", "again"}, Ask(o, from, to)
      PROVE  TypeInv'
  BY <1>4 DEF Ask, Step, Goto, local, Fine, Fault, OneFault, WithMember, Joiners
<1>5. ASSUME NEW o \in Orgs, Join(o) PROVE TypeInv'
  <2>1. /\ joined' \in {joined, joined \cup ({o} \cap members)}
        /\ isJoined' \in [Orgs -> BOOLEAN]
        /\ faults' \in 0 .. MaxFaults /\ hurt' \in BOOLEAN
    <3>1. /\ hurt' = hurt
          /\ faults' = faults \/ (faults < MaxFaults /\ faults' = faults + 1)
      BY <1>5, Zenon DEF Join, Fine, OneFault
    <3>2. isJoined' = isJoined \/ isJoined' = [isJoined EXCEPT ![o] = TRUE]
      BY <1>5, Zenon DEF Join
    <3>3. joined' \in {joined, joined \cup ({o} \cap members)}
      BY <1>5 DEF Join
    <3>4. hurt' \in BOOLEAN
      BY <3>1, Zenon
    <3>5. faults' \in 0 .. MaxFaults
      BY <3>1
    <3>6. isJoined' \in [Orgs -> BOOLEAN]
      BY <3>2
    <3> QED
      BY <3>3, <3>4, <3>5, <3>6, Zenon
  <2>2. /\ pc[o] = "join" /\ tries' = [tries EXCEPT ![o] = tries[o] + 1]
        /\ \/ pc' = [pc EXCEPT ![o] = "approve"]
           \/ pc' = [pc EXCEPT ![o] = "join"] /\ tries'[o] < MaxTries
        /\ UNCHANGED <<members, anchored, approved, committed, registered, orderer, late,
                       created, runs>>
    BY <1>5 DEF Join, Goto
  <2>3. tries' \in [Orgs -> 0 .. MaxTries]
    BY <2>2
  <2> QED
    BY <2>1, <2>2, <2>3
<1>6. ASSUME NEW o \in Orgs, Approve(o) PROVE TypeInv'
  BY <1>6 DEF Approve, Step, Goto, local, Fine, Fault, OneFault
<1>7. ASSUME NEW o \in Orgs, Commit(o) PROVE TypeInv'
  BY <1>7 DEF Commit, Step, Goto, local, Fine, Fault, OneFault
<1>8. ASSUME NEW o \in Orgs, RegisterOrderer(o) PROVE TypeInv'
  <2>1. orderer' \in BOOLEAN
    BY <1>8, Zenon DEF RegisterOrderer, Runs
  <2>2. faults' \in 0 .. MaxFaults /\ hurt' \in BOOLEAN
    BY <1>8 DEF RegisterOrderer, Fine, Fault, OneFault
  <2>3. /\ pc[o] = "orderer" /\ pc' = [pc EXCEPT ![o] = "register"]
        /\ UNCHANGED <<members, anchored, joined, approved, committed, registered, late, local>>
    BY <1>8 DEF RegisterOrderer, Step, Goto
  <2> QED
    BY <2>1, <2>2, <2>3 DEF local
<1>9. ASSUME NEW o \in Orgs, RegisterOrg(o) PROVE TypeInv'
  BY <1>9 DEF RegisterOrg, Step, Goto, local, Fine, Fault, OneFault, Runs
<1>10. ASSUME NEW o \in Orgs, Handle(o) PROVE TypeInv'
  BY <1>10 DEF Handle, WithMember, local
<1>11. ASSUME NEW o \in Orgs, Die(o) PROVE TypeInv'
  BY <1>11 DEF Die, Goto, network, local, Fault, OneFault
<1>12. CASE UNCHANGED vars
  BY <1>12 DEF vars, network, local
<1> QED
  BY <1>1, <1>2, <1>3, <1>4, <1>5, <1>6, <1>7, <1>8, <1>9, <1>10, <1>11, <1>12
     DEF Next, Script

\* No peer joins a channel that its organisation is not in, none registers without
\* having joined, and the sequences stay within the number of runs, although each
\* organisation counts its own (version-specifics.sh:54-59).
THEOREM BootTypes == Spec => []TypeOK
<1>1. TypeInv => TypeOK
  BY DEF TypeInv
<1> QED
  BY TypeInit, TypeNext, <1>1, PTL DEF Spec

===============================================================================
