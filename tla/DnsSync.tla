-------------------------------- MODULE DnsSync --------------------------------
(***************************************************************************)
(* The name service of a host (middleware/_dns._js): it copies the         *)
(* registry of the "dns" chaincode into the hosts file and downloads the   *)
(* certificates of the orderers it learns about.                           *)
(*                                                                         *)
(* processEvent is called by a timer and by every block event.  It is an   *)
(* async function, so that calls overlap at its awaits; they share the     *)
(* client object fabricStarterClient, which login() replaces, and the      *)
(* flags blockListenerStarted and inProcess.                               *)
(*                                                                         *)
(* The client library, the peer it asks and the block events it delivers   *)
(* are external (fabric-starter-rest): an operation on a client that is    *)
(* not ready for it is refused, any operation may fail.                    *)
(***************************************************************************)
EXTENDS Integers, Sequences, FiniteSets

CONSTANTS
  Orgs, Orderers,  \* what gets registered, each with one name
  Own,             \* those of them at the address of this host, MY_IP
  Calls,           \* calls of processEvent that are under way at a time
  NONE,            \* no answer yet
  MaxLogins,       \* bound on the client objects of one process
  MaxFaults,       \* bound on failing operations
  MaxRestarts      \* bound on restarts of the process

Entries == Orgs \cup Orderers

ASSUME OwnAssumption == Own \subseteq Entries

ASSUME CallsAssumption == IsFiniteSet(Calls)

ASSUME BoundsAssumption ==
  MaxLogins \in Nat /\ MaxFaults \in Nat /\ MaxRestarts \in Nat

ASSUME NoneAssumption == \A obj \in SUBSET Entries : NONE # obj

VARIABLES
  chain,      \* key -> what is registered under it
  hosts,      \* the names in the hosts file, a volume that survives restarts
  orgs,       \* the organisations known to the process
  msp,        \* the orderers whose certificates are on disk
  downloads,  \* the orderers whose certificates are being downloaded
  started,    \* blockListenerStarted
  inProcess,  \* inProcess
  clients,    \* the client objects created so far, the last one is in use
  listeners,  \* the block listeners the process has registered
  excess,     \* the logins begun during another one, and the registrations of a
              \* listener that failed with the listener on
  events,     \* block events that wait to be delivered
  pc,         \* call -> the await it stands at
  target,     \* call -> the client object its operation was called on
  answer,     \* call -> the answer on its way to the call
  slow,       \* whether a call may start while another one logs in: the login
              \* takes longer than the timer's period, or a block arrives
              \* before registerBlockEvent has returned; fixed in Init
  faults, restarts

outside == <<chain, slow, faults, restarts>>
disk    == <<hosts, msp, downloads>>
session == <<started, clients, listeners, excess>>
vars    == <<chain, hosts, orgs, msp, downloads, started, inProcess, clients,
             listeners, excess, events, pc, target, answer, slow, faults, restarts>>

Keys        == {"dns", "osn", "orgs"}
LoginStages == {"init", "login", "listen", "attached"}

TypeOK ==
  /\ chain \in [Keys -> SUBSET Entries]
  /\ hosts \subseteq Entries \ Own
  /\ orgs \subseteq Orgs /\ msp \subseteq Orderers /\ downloads \subseteq Orderers
  /\ started \in BOOLEAN /\ inProcess \in BOOLEAN
  /\ clients \in Seq({"new", "ready", "in"})
  /\ listeners \in Nat /\ excess \in Nat /\ events \in Nat
  /\ pc \in [Calls -> {"idle"} \cup LoginStages \cup Keys]
  /\ target \in [Calls -> Nat]
  /\ answer \in [Calls -> (SUBSET Entries) \cup {NONE}]
  /\ slow \in BOOLEAN
  /\ faults \in 0 .. MaxFaults /\ restarts \in 0 .. MaxRestarts

Init ==
  /\ chain = [k \in Keys |-> {}]
  /\ hosts = {} /\ orgs = {} /\ msp = {} /\ downloads = {}
  /\ started = FALSE /\ inProcess = FALSE
  /\ clients = <<>> /\ listeners = 0 /\ excess = 0 /\ events = 0
  /\ pc = [c \in Calls |-> "idle"]
  /\ target = [c \in Calls |-> 0]
  /\ answer = [c \in Calls |-> NONE]
  /\ slow \in BOOLEAN
  /\ faults = 0 /\ restarts = 0

LoggingIn == \E c \in Calls : pc[c] \in LoginStages
Updating  == {c \in Calls : pc[c] \in Keys}
Client(c) == clients[target[c]]

-------------------------------------------------------------------------------
(* processEvent, from one await to the next.                               *)

\* Go on to the await called stage; what is awaited there is an operation of
\* the client object in use now.
Await(c, stage, current) ==
  /\ pc' = [pc EXCEPT ![c] = stage]
  /\ target' = [target EXCEPT ![c] = current]
  /\ answer' = [answer EXCEPT ![c] = NONE]

\* Mutant: without the inProcess guard.
StartUpdateUnguarded(c) ==
  /\ inProcess' = TRUE
  /\ Await(c, "dns", Len(clients))

\* An update starts unless another one is under way.  Then the call ends, and
\* with it the event that made it.
StartUpdate(c) ==
  IF inProcess
  THEN pc' = [pc EXCEPT ![c] = "idle"] /\ UNCHANGED <<inProcess, target, answer>>
  ELSE inProcess' = TRUE /\ Await(c, "dns", Len(clients))

\* The call up to its first await: login() replaces the client object, or the
\* update starts.
Begin(c) ==
  /\ pc[c] = "idle"
  /\ slow \/ ~LoggingIn
  /\ \/ /\ ~started
        /\ Len(clients) < MaxLogins
        /\ clients' = Append(clients, "new")
        /\ Await(c, "init", Len(clients) + 1)
        /\ excess' = IF LoggingIn THEN excess + 1 ELSE excess
        /\ UNCHANGED <<started, listeners, inProcess>>
     \/ /\ started
        /\ StartUpdate(c)
        /\ UNCHANGED session
  /\ UNCHANGED <<outside, disk, orgs>>

Tick(c) == Begin(c) /\ UNCHANGED events

BlockEvent(c) ==
  /\ events > 0
  /\ events' = events - 1
  /\ Begin(c)

Initialised(c) ==
  /\ pc[c] = "init"
  /\ clients' = [clients EXCEPT ![target[c]] = "ready"]
  /\ Await(c, "login", Len(clients))
  /\ UNCHANGED <<outside, disk, orgs, started, inProcess, listeners, excess, events>>

LoggedIn(c) ==
  /\ pc[c] = "login"
  /\ Client(c) # "new"
  /\ clients' = [clients EXCEPT ![target[c]] = "in"]
  /\ Await(c, "listen", Len(clients))
  /\ UNCHANGED <<outside, disk, orgs, started, inProcess, listeners, excess, events>>

\* The listener is registered, from here on it delivers events.
Attached(c) ==
  /\ pc[c] = "listen"
  /\ Client(c) = "in"
  /\ listeners' = listeners + 1
  /\ Await(c, "attached", target[c])
  /\ UNCHANGED <<outside, disk, orgs, started, inProcess, clients, excess, events>>

\* Mutant: the flag is not set.
ListeningUnflagged(c) ==
  /\ pc[c] = "attached"
  /\ StartUpdate(c)
  /\ UNCHANGED <<outside, disk, orgs, session, events>>

\* registerBlockEvent has returned.
Listening(c) ==
  /\ pc[c] = "attached"
  /\ started' = TRUE
  /\ StartUpdate(c)
  /\ UNCHANGED <<outside, disk, orgs, clients, listeners, excess, events>>

\* The peer evaluates the query on its state at this moment.
Answer(c) ==
  /\ pc[c] \in Keys
  /\ Client(c) = "in"
  /\ answer[c] = NONE
  /\ answer' = [answer EXCEPT ![c] = chain[pc[c]]]
  /\ UNCHANGED <<outside, disk, orgs, session, inProcess, events, pc, target>>

Answered(c, k) == pc[c] = k /\ answer[c] # NONE

\* Mutant: without filterOutByIp.
WriteAllHosts(c) ==
  /\ Answered(c, "dns")
  /\ hosts' = IF answer[c] = {} THEN hosts ELSE answer[c]
  /\ Await(c, "osn", Len(clients))
  /\ UNCHANGED <<outside, orgs, msp, downloads, session, inProcess, events>>

\* The hosts files are rewritten.  A registry without entries is answered with
\* an empty string, which changes nothing.
WriteHosts(c) ==
  /\ Answered(c, "dns")
  /\ hosts' = IF answer[c] = {} THEN hosts ELSE answer[c] \ Own
  /\ Await(c, "osn", Len(clients))
  /\ UNCHANGED <<outside, orgs, msp, downloads, session, inProcess, events>>

\* Mutant: only for orderers the hosts file does not name yet - but it was
\* rewritten a moment ago.
StartDownloadsOnce(c) ==
  /\ Answered(c, "osn")
  /\ downloads' = downloads \cup {o \in answer[c] : o \notin hosts}
  /\ Await(c, "orgs", Len(clients))
  /\ UNCHANGED <<outside, orgs, hosts, msp, session, inProcess, events>>

\* One download per orderer is started, none is awaited.
StartDownloads(c) ==
  /\ Answered(c, "osn")
  /\ downloads' = downloads \cup answer[c]
  /\ Await(c, "orgs", Len(clients))
  /\ UNCHANGED <<outside, orgs, hosts, msp, session, inProcess, events>>

\* _.merge(orgs, chainOrgs), and finally.
MergeOrgs(c) ==
  /\ Answered(c, "orgs")
  /\ orgs' = orgs \cup answer[c]
  /\ inProcess' = FALSE
  /\ pc' = [pc EXCEPT ![c] = "idle"]
  /\ UNCHANGED <<outside, disk, session, events, target, answer>>

\* Mutant: no finally.
ThrowKeepsFlag(c) ==
  /\ pc' = [pc EXCEPT ![c] = "idle"]
  /\ excess' = IF pc[c] = "attached" THEN excess + 1 ELSE excess
  /\ UNCHANGED <<chain, slow, restarts, disk, orgs, started, clients, listeners, inProcess,
                 events, target, answer>>

\* The awaited operation throws.  In the login the call gives up (catch), whether the
\* listener is on or not; in the update the flag is taken back (finally).
Throw(c) ==
  /\ pc' = [pc EXCEPT ![c] = "idle"]
  /\ inProcess' = (inProcess /\ pc[c] \notin Keys)
  /\ excess' = IF pc[c] = "attached" THEN excess + 1 ELSE excess
  /\ UNCHANGED <<chain, slow, restarts, disk, orgs, started, clients, listeners, events,
                 target, answer>>

\* The client object is not ready for the operation.
Refused(c) ==
  /\ \/ pc[c] = "login" /\ Client(c) = "new"
     \/ pc[c] \in {"listen"} \cup Keys /\ Client(c) # "in"
  /\ Throw(c)
  /\ UNCHANGED faults

\* One more fault, within the bound.
OneFault == faults < MaxFaults /\ faults' = faults + 1

\* The operation fails for a reason of its own.  The bound on logins leaves
\* the process another try.
Fails(c) ==
  /\ \/ pc[c] \in Keys
     \/ pc[c] \in LoginStages /\ Len(clients) < MaxLogins
  /\ OneFault
  /\ Throw(c)

-------------------------------------------------------------------------------
(* The background downloads, the process and its surroundings.             *)

Downloaded(o) ==
  /\ o \in downloads
  /\ downloads' = downloads \ {o}
  /\ msp' = msp \cup {o}
  /\ UNCHANGED <<outside, hosts, orgs, session, inProcess, events, pc, target, answer>>

\* The port is not reachable, or the download fails: logged and forgotten.
DownloadFails(o) ==
  /\ o \in downloads
  /\ OneFault
  /\ downloads' = downloads \ {o}
  /\ UNCHANGED <<chain, slow, restarts, hosts, msp, orgs, session, inProcess, events, pc,
                 target, answer>>

\* A registration is committed (external); every listener gets the block.
Register(e) ==
  /\ e \notin chain["dns"]
  /\ chain' = [k \in Keys |->
       IF k = "dns" \/ (k = "orgs" /\ e \in Orgs) \/ (k = "osn" /\ e \in Orderers)
       THEN chain[k] \cup {e} ELSE chain[k]]
  /\ events' = events + listeners
  /\ UNCHANGED <<slow, disk, orgs, session, inProcess, pc, target, answer, faults,
                 restarts>>

\* The connection to the peer's block events breaks (external), with the
\* events it carries.  Nobody registers a new listener.
ListenerLost ==
  /\ listeners > 0
  /\ OneFault
  /\ listeners' = listeners - 1
  /\ events' \in 0 .. events
  /\ UNCHANGED <<chain, slow, restarts, disk, orgs, started, clients, excess, inProcess,
                 pc, target, answer>>

\* The process dies and is started again.
Restart ==
  /\ restarts < MaxRestarts
  /\ restarts' = restarts + 1
  /\ orgs' = {} /\ downloads' = {}
  /\ started' = FALSE /\ inProcess' = FALSE
  /\ clients' = <<>> /\ listeners' = 0 /\ excess' = 0 /\ events' = 0
  /\ pc' = [c \in Calls |-> "idle"]
  /\ target' = [c \in Calls |-> 0]
  /\ answer' = [c \in Calls |-> NONE]
  /\ UNCHANGED <<chain, slow, hosts, msp, faults>>

Continue(c) ==
  \/ Initialised(c) \/ LoggedIn(c) \/ Attached(c) \/ Listening(c)
  \/ Answer(c) \/ WriteHosts(c) \/ StartDownloads(c) \/ MergeOrgs(c)
  \/ Refused(c)

Next ==
  \/ \E c \in Calls : Tick(c) \/ BlockEvent(c) \/ Continue(c) \/ Fails(c)
  \/ \E o \in Orderers : Downloaded(o) \/ DownloadFails(o)
  \/ \E e \in Entries : Register(e)
  \/ ListenerLost
  \/ Restart

\* The timer keeps firing, every operation ends, with or without an error.
Fairness ==
  /\ WF_vars(\E c \in Calls : Tick(c))
  /\ \A c \in Calls : WF_vars(Continue(c))
  /\ \A o \in Orderers : WF_vars(Downloaded(o))

Spec == Init /\ [][Next]_vars /\ Fairness

-------------------------------------------------------------------------------
(* Properties.                                                             *)

\* One update at a time, whatever timers, block events and repeated logins do,
\* and the flag says so, so that a failed update never blocks the next ones
\* (_dns._js:84-87,119-121).
OneUpdateAtATime ==
  /\ inProcess <=> Updating # {}
  /\ \A c, d \in Updating : c = d

\* The process registers one block listener, and no more once it has: each further
\* one, and each that it does not know of, is owed to a login that another one has
\* overtaken at its awaits or to a registration that threw with the listener on,
\* both of which leave the flag unset (_dns._js:73-81).
OneListener ==
  /\ listeners <= 1 + excess
  /\ listeners > excess => started \/ LoggingIn

\* A name that was resolvable stays so: an answer that was on its way while
\* the registry moved on never overwrites a later one.
HostsNeverGoBack == [][hosts \subseteq hosts']_vars

\* The header of _dns._js, lines 1-3: after the registration "verify ip was
\* added to hosts file and the name is now resolvable".
EventuallyResolvable ==
  \A e \in Entries \ Own : e \in chain["dns"] ~> e \in hosts

\* The same for a process whose logins do not overlap, whatever fails once: a
\* query, a login, the connection of the listener, the process itself.
ResolvableUnlessSlow ==
  \A e \in Entries \ Own : e \in chain["dns"] /\ ~slow ~> e \in hosts

\* The certificates of every registered orderer arrive, although a failed
\* download is only logged (_dns._js:98-106), in a process whose logins do not
\* overlap.
TrustedUnlessSlow ==
  \A o \in Orderers : o \in chain["osn"] /\ ~slow ~> o \in msp

===============================================================================
