---------------------------- MODULE ServiceBootstrap ----------------------------
(***************************************************************************)
(* How a network gets its service registry: init-in-open-net.sh, which     *)
(* runs twice for every organisation: install-default-chaincodes.sh:19     *)
(* runs it, and docker-compose-open-net.yaml:31 runs that script and then  *)
(* init-in-open-net.sh again, whatever became of the first run.  The       *)
(* bootstrap organisation creates the service channel, deploys the         *)
(* registry chaincode and registers the orderers and itself; the others    *)
(* ask to be added to the channel, join it, approve the chaincode and      *)
(* register themselves.  Hardly a step looks at the result of the one      *)
(* before.                                                                 *)
(*                                                                         *)
(* The chaincode lifecycle is that of Fabric 2.x.  What the peers, the     *)
(* orderer and the REST service of the bootstrap organisation do is        *)
(* external; the channel's policies are those of                           *)
(* templates/configtx-template.yaml:251-262: a member of the bootstrap     *)
(* organisation endorses the commit of a definition, any one an            *)
(* invocation.                                                             *)
(***************************************************************************)
EXTENDS Integers, FiniteSets

CONSTANTS
  Orgs,
  boot,       \* the bootstrap organisation, which has no BOOTSTRAP_IP
  MaxRuns,    \* runs of the script of each organisation
  MaxTries,   \* of joining the channel, in one run
  MaxFaults   \* bound on calls and answers lost, and on scripts that die

ASSUME BootAssumption == boot \in Orgs

ASSUME BoundsAssumption == MaxRuns \in Nat /\ MaxTries \in Nat \ {0} /\ MaxFaults \in Nat

VARIABLES
  members,    \* the organisations in the channel; nobody, if there is none
  anchored,   \* whether the anchor peers are in the channel's configuration
  joined,     \* the organisations whose peer has joined the channel
  approved,   \* org -> the sequence it has approved last
  committed,  \* the sequence of the chaincode's definition
  registered, \* the organisations that the service chaincode lists
  orderer,    \* whether it lists the orderer
  late,       \* the organisations whose request the service has yet to handle
  pc,         \* org -> the next step of its script
  created,    \* org -> whether createResult is 0
  isJoined,   \* org -> whether joinResult is 0
  tries, runs, faults,
  hurt        \* whether a fault met the bootstrap organisation from the answer to
              \* its anchor peers' update on, the tries of joining excepted

network == <<members, anchored, joined, approved, committed, registered, orderer, late>>
local   == <<created, isJoined, tries, runs>>
vars    == <<network, pc, local, faults, hurt>>

Joiners == Orgs \ {boot}

Steps == {"idle", "create", "anchor", "invite", "again", "join",
          "approve", "commit", "orderer", "register"}

TypeOK ==
  /\ members \subseteq Orgs /\ (members # {} => boot \in members)
  /\ anchored \in BOOLEAN /\ (anchored => members # {})
  /\ joined \subseteq members
  /\ approved \in [Orgs -> 0 .. MaxRuns] /\ committed \in 0 .. MaxRuns
  /\ registered \subseteq joined
  /\ orderer \in BOOLEAN /\ late \subseteq Joiners
  /\ pc \in [Orgs -> Steps]
  /\ created \in [Orgs -> BOOLEAN] /\ isJoined \in [Orgs -> BOOLEAN]
  /\ tries \in [Orgs -> 0 .. MaxTries] /\ runs \in [Orgs -> 0 .. MaxRuns]
  /\ faults \in 0 .. MaxFaults /\ hurt \in BOOLEAN

Init ==
  /\ members = {} /\ anchored = FALSE /\ joined = {}
  /\ approved = [o \in Orgs |-> 0] /\ committed = 0
  /\ registered = {} /\ orderer = FALSE /\ late = {}
  /\ pc = [o \in Orgs |-> "idle"]
  /\ created = [o \in Orgs |-> FALSE] /\ isJoined = [o \in Orgs |-> FALSE]
  /\ tries = [o \in Orgs |-> 0] /\ runs = [o \in Orgs |-> 0]
  /\ faults = 0 /\ hurt = FALSE

-------------------------------------------------------------------------------

Goto(o, step)     == pc' = [pc EXCEPT ![o] = step]
Step(o, from, to) == pc[o] = from /\ Goto(o, to)

OneFault == faults < MaxFaults /\ faults' = faults + 1
Fine     == UNCHANGED <<faults, hurt>>

\* A call of the script fails, or its answer is lost.
Fault(o) == OneFault /\ hurt' = (hurt \/ (o = boot /\ anchored))

\* Mutant: the tries of all runs are counted together.
StartKeepsTries(o) ==
  /\ runs[o] < MaxRuns /\ runs' = [runs EXCEPT ![o] = @ + 1]
  /\ Step(o, "idle", IF o = boot THEN "create" ELSE "invite")
  /\ created' = [created EXCEPT ![o] = o # boot]
  /\ isJoined' = [isJoined EXCEPT ![o] = FALSE]
  /\ UNCHANGED <<network, tries>> /\ Fine

\* A run begins.  Without a channel to create createServiceChannel returns 0.
Start(o) ==
  /\ runs[o] < MaxRuns /\ runs' = [runs EXCEPT ![o] = @ + 1]
  /\ Step(o, "idle", IF o = boot THEN "create" ELSE "invite")
  /\ created' = [created EXCEPT ![o] = o # boot]
  /\ isJoined' = [isJoined EXCEPT ![o] = FALSE]
  /\ tries' = [tries EXCEPT ![o] = 0]
  /\ UNCHANGED network /\ Fine

\* Mutant: when the channel is there the script is done.
CreateOrExit(o) ==
  /\ Step(o, "create", IF members = {} THEN "anchor" ELSE "idle")
  /\ \/ members' = (IF members = {} THEN {boot} ELSE members) /\ Fine
     \/ Fault(o) /\ members' \in {members, IF members = {} THEN {boot} ELSE members}
  /\ UNCHANGED <<anchored, joined, approved, committed, registered, orderer, late, local>>

\* peer channel create, which fails when the channel is there; nobody looks.
Create(o) ==
  /\ Step(o, "create", "anchor")
  /\ \/ members' = (IF members = {} THEN {boot} ELSE members) /\ Fine
     \/ Fault(o) /\ members' \in {members, IF members = {} THEN {boot} ELSE members}
  /\ UNCHANGED <<anchored, joined, approved, committed, registered, orderer, late, local>>

\* Mutant: the script goes on.
AnchorGoesOn(o) ==
  /\ Step(o, "anchor", "join")
  /\ \/ /\ anchored' = (members # {})
        /\ created' = [created EXCEPT ![o] = anchored']
        /\ Fine
     \/ /\ anchored' \in {anchored, members # {}}
        /\ OneFault /\ hurt' = (hurt \/ anchored')
        /\ UNCHANGED created
  /\ UNCHANGED <<members, joined, approved, committed, registered, orderer, late,
                 isJoined, tries, runs>>

\* The status of creating the channel is the one of the update of the anchor peers.
\* When they are in the configuration createConfigUpdateEnvelope ends the script.
Anchor(o) ==
  /\ pc[o] = "anchor"
  /\ IF anchored
     THEN /\ Goto(o, "idle")
          /\ UNCHANGED <<anchored, created>> /\ Fine
     ELSE /\ Goto(o, "join")
          /\ \/ /\ anchored' = (members # {})
                /\ created' = [created EXCEPT ![o] = anchored']
                /\ Fine
             \/ /\ anchored' \in {FALSE, members # {}}
                /\ OneFault /\ hurt' = (hurt \/ anchored')
                /\ UNCHANGED created
  /\ UNCHANGED <<members, joined, approved, committed, registered, orderer, late,
                 isJoined, tries, runs>>

\* The service adds the organisation to the channel, if there is one (external).
WithMember(o) == IF members = {} THEN {} ELSE members \cup {o}

\* One of the two requests for an invitation.  It is handled, or it is lost, or curl
\* gives up before it is handled.
Ask(o, from, to) ==
  /\ Step(o, from, to)
  /\ \/ members' = WithMember(o) /\ UNCHANGED late /\ Fine
     \/ Fault(o) /\ late' \in {late, late \cup {o}} /\ UNCHANGED members
  /\ UNCHANGED <<anchored, joined, approved, committed, registered, orderer, local>>

Handle(o) ==
  /\ o \in late /\ late' = late \ {o}
  /\ members' = WithMember(o)
  /\ UNCHANGED <<anchored, joined, approved, committed, registered, orderer,
                 pc, local, faults, hurt>>

\* Mutant: that the peer has joined before is an error.
JoinOnce(o) ==
  /\ pc[o] = "join"
  /\ tries' = [tries EXCEPT ![o] = @ + 1]
  /\ \/ /\ o \in members \ joined
        /\ joined' = joined \cup {o}
        /\ isJoined' = [isJoined EXCEPT ![o] = TRUE]
        /\ Goto(o, "approve") /\ Fine
     \/ /\ \/ o \notin members \ joined /\ UNCHANGED joined /\ Fine
           \/ OneFault /\ UNCHANGED <<joined, hurt>>
        /\ Goto(o, IF tries'[o] < MaxTries THEN "join" ELSE "approve")
        /\ UNCHANGED isJoined
  /\ UNCHANGED <<members, anchored, approved, committed, registered, orderer, late,
                 created, runs>>

\* One try of joining.  A peer that has joined before says so, which will do.
Join(o) ==
  /\ pc[o] = "join"
  /\ tries' = [tries EXCEPT ![o] = @ + 1]
  /\ \/ /\ o \in members
        /\ joined' = joined \cup {o}
        /\ isJoined' = [isJoined EXCEPT ![o] = TRUE]
        /\ Goto(o, "approve") /\ Fine
     \/ /\ \/ o \notin members /\ UNCHANGED joined /\ Fine
           \/ OneFault /\ UNCHANGED hurt /\ joined' \in {joined, joined \cup ({o} \cap members)}
        /\ Goto(o, IF tries'[o] < MaxTries THEN "join" ELSE "approve")
        /\ UNCHANGED isJoined
  /\ UNCHANGED <<members, anchored, approved, committed, registered, orderer, late,
                 created, runs>>

\* The sequence to approve is one more than the one the organisation has approved
\* last, whatever is committed.  The peer takes the committed one, or the next one
\* (external).
Approve(o) ==
  LET seq   == approved[o] + 1
      takes == o \in joined /\ seq \in {committed, committed + 1}
      after == IF takes THEN [approved EXCEPT ![o] = seq] ELSE approved
  IN
  /\ Step(o, "approve", IF created[o] THEN "commit" ELSE "register")
  /\ \/ approved' = after /\ Fine
     \/ approved' \in {approved, after} /\ Fault(o)
  /\ UNCHANGED <<members, anchored, joined, committed, registered, orderer, late, local>>

\* The sequence to commit is one more than the committed one.  The check before it
\* compares all that the peer says with one line of it, and never holds the commit up.
Commit(o) ==
  LET seq   == committed + 1
      takes == o = boot /\ o \in joined /\ approved[o] >= seq
      after == IF takes THEN seq ELSE committed
  IN
  /\ Step(o, "commit", IF o = boot THEN "orderer" ELSE "register")
  /\ \/ committed' = after /\ Fine
     \/ committed' \in {committed, after} /\ Fault(o)
  /\ UNCHANGED <<members, anchored, joined, approved, registered, orderer, late, local>>

\* The peer runs a chaincode that is committed and whose definition its organisation
\* has approved (external).
Runs(o) == o \in joined /\ committed > 0 /\ approved[o] >= committed

RegisterOrderer(o) ==
  /\ Step(o, "orderer", "register")
  /\ \/ orderer' = (orderer \/ Runs(o)) /\ Fine
     \/ orderer' \in {orderer, orderer \/ Runs(o)} /\ Fault(o)
  /\ UNCHANGED <<members, anchored, joined, approved, committed, registered, late, local>>

RegisterOrg(o) ==
  LET after == IF isJoined[o] /\ Runs(o) THEN registered \cup {o} ELSE registered IN
  /\ Step(o, "register", "idle")
  /\ \/ registered' = after /\ Fine
     \/ registered' \in {registered, after} /\ Fault(o)
  /\ UNCHANGED <<members, anchored, joined, approved, committed, orderer, late, local>>

\* A script dies.
Die(o) ==
  /\ pc[o] # "idle" /\ Goto(o, "idle")
  /\ UNCHANGED <<network, local>>
  /\ Fault(o)

Script(o) ==
  \/ Start(o) \/ Create(o) \/ Anchor(o)
  \/ Ask(o, "invite", "again") \/ Ask(o, "again", "join")
  \/ Join(o) \/ Approve(o) \/ Commit(o) \/ RegisterOrderer(o) \/ RegisterOrg(o)

Next == \E o \in Orgs : Script(o) \/ Handle(o) \/ Die(o)

\* A script that is run goes on, the compose file runs it again, and the service gets
\* round to handling a request.
Fairness == \A o \in Orgs : WF_vars(Script(o)) /\ WF_vars(Handle(o))

Spec == Init /\ [][Next]_vars /\ Fairness

-------------------------------------------------------------------------------
(* Properties.                                                             *)

Served == committed > 0 /\ orderer /\ boot \in registered

\* The network gets its registry, with the bootstrap organisation and the orderer in
\* it, as long as no call but a try of joining fails, and no script dies, from the moment
\* on that the anchor peers are set: what fails before is made up for by the second
\* run, what fails later is not, for the second run ends where it finds the anchor peers
\* (container-lib.sh:182-185, init-in-open-net.sh:45-48).
BootstrapCompletes == <>(Served \/ hurt)

\* An organisation that comes to a network with a registry gets into it, although any
\* one call of its scripts fails or is answered late, or one of them dies: there are
\* two requests (init-in-open-net.sh:101-109), three tries (:132), two runs
\* (install-default-chaincodes.sh:19, docker-compose-open-net.yaml:31), and the second one does not mind what the first
\* one has done (:137).
JoinersGetIn ==
  \A o \in Joiners : (committed > 0 /\ runs[o] = 0) ~> (o \in registered)

\* An organisation that the registry lists goes on serving it: however often the
\* scripts are run, and although each organisation counts its approvals by itself and
\* each one tries to commit (version-specifics.sh:54-59, :84-89), no run replaces the
\* definition by one that others have not approved.
ListedOnesServe == \A o \in registered : Runs(o)

===============================================================================
