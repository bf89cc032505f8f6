----------------------------- MODULE DnsSyncProofs -----------------------------
(***************************************************************************)
(* Proofs about the name service, for any number of overlapping calls, of  *)
(* organisations and orderers, and whether or not logins overlap:          *)
(*                                                                         *)
(*   SyncTypes      the variables keep their types;                        *)
(*   OneUpdate      updates exclude each other, and the flag inProcess     *)
(*                  tells;                                                 *)
(*   HostsMonotone  the hosts file never loses a name;                     *)
(*   OneRegistered  every block listener but one is owed to a login that   *)
(*                  another one has overtaken, or to a registration that   *)
(*                  failed with the listener on.                           *)
(***************************************************************************)
EXTENDS DnsSync, FiniteSetTheorems, TLAPS

-------------------------------------------------------------------------------
(* Mutual exclusion of updates.                                            *)

\* The part of the type invariant the argument needs.
FlagsTyped ==
  /\ inProcess \in BOOLEAN
  /\ pc \in [Calls -> {"idle"} \cup LoginStages \cup Keys]

ExclusionInv == FlagsTyped /\ OneUpdateAtATime

USE DEF Keys, LoginStages

LEMMA ExclusionInit == Init => ExclusionInv
BY DEF Init, ExclusionInv, FlagsTyped, OneUpdateAtATime, Updating

\* A step that neither touches the flag nor moves a call into or out of the
\* update.
LEMMA ExclusionKept ==
  ASSUME ExclusionInv, inProcess' = inProcess, NEW c \in Calls,
         NEW s \in {"idle"} \cup LoginStages \cup Keys,
         pc' = [pc EXCEPT ![c] = s], s \in Keys <=> pc[c] \in Keys
  PROVE  ExclusionInv'
  <1>1. FlagsTyped'
    BY DEF ExclusionInv, FlagsTyped
  <1>2. Updating' = Updating
    BY DEF Updating, ExclusionInv, FlagsTyped
  <1> QED
    BY <1>1, <1>2 DEF ExclusionInv, OneUpdateAtATime

\* The last step of an update.
LEMMA ExclusionEnds ==
  ASSUME ExclusionInv, NEW c \in Calls, pc[c] \in Keys, inProcess' = FALSE,
         pc' = [pc EXCEPT ![c] = "idle"]
  PROVE  ExclusionInv'
  <1>1. FlagsTyped'
    BY DEF ExclusionInv, FlagsTyped
  <1>2. Updating' = {}
    BY DEF Updating, ExclusionInv, OneUpdateAtATime, FlagsTyped
  <1> QED
    BY <1>1, <1>2 DEF ExclusionInv, OneUpdateAtATime

\* The guard: an update starts only when none is under way.
LEMMA ExclusionStarts ==
  ASSUME ExclusionInv, NEW c \in Calls, pc[c] \notin Keys, StartUpdate(c)
  PROVE  ExclusionInv'
  <1>1. CASE inProcess
    BY <1>1, ExclusionKept DEF StartUpdate
  <1>2. CASE ~inProcess
    <2>1. FlagsTyped'
      BY <1>2 DEF StartUpdate, Await, ExclusionInv, FlagsTyped
    <2>2. Updating = {}
      BY <1>2 DEF ExclusionInv, OneUpdateAtATime
    <2>3. Updating' = {c}
      BY <1>2, <2>2 DEF StartUpdate, Await, Updating, ExclusionInv, FlagsTyped
    <2> QED
      BY <1>2, <2>1, <2>3 DEF StartUpdate, ExclusionInv, OneUpdateAtATime
  <1> QED
    BY <1>1, <1>2

LEMMA ExclusionThrow ==
  ASSUME ExclusionInv, NEW c \in Calls, Throw(c)
  PROVE  ExclusionInv'
  <1>1. CASE pc[c] \in Keys
    BY <1>1, ExclusionEnds DEF Throw
  <1>2. CASE pc[c] \notin Keys
    BY <1>2, ExclusionKept DEF Throw, ExclusionInv, FlagsTyped
  <1> QED
    BY <1>1, <1>2

LEMMA ExclusionNext == ExclusionInv /\ [Next]_vars => ExclusionInv'
  <1> SUFFICES ASSUME ExclusionInv, [Next]_vars PROVE ExclusionInv'
    OBVIOUS
  <1>1. ASSUME UNCHANGED <<inProcess, pc>> PROVE ExclusionInv'
    BY <1>1 DEF ExclusionInv, FlagsTyped, OneUpdateAtATime, Updating
  <1>2. ASSUME NEW c \in Calls, Begin(c) PROVE ExclusionInv'
    BY <1>2, ExclusionKept, ExclusionStarts DEF Begin, Await
  <1>3. ASSUME NEW c \in Calls, Initialised(c) \/ LoggedIn(c) \/ Attached(c)
        PROVE  ExclusionInv'
    BY <1>3, ExclusionKept DEF Initialised, LoggedIn, Attached, Await
  <1>4. ASSUME NEW c \in Calls, Listening(c) PROVE ExclusionInv'
    BY <1>4, ExclusionStarts DEF Listening
  <1>5. ASSUME NEW c \in Calls, WriteHosts(c) \/ StartDownloads(c)
        PROVE  ExclusionInv'
    BY <1>5, ExclusionKept DEF WriteHosts, StartDownloads, Answered, Await
  <1>6. ASSUME NEW c \in Calls, MergeOrgs(c) PROVE ExclusionInv'
    BY <1>6, ExclusionEnds DEF MergeOrgs, Answered
  <1>7. ASSUME NEW c \in Calls, Refused(c) \/ Fails(c) PROVE ExclusionInv'
    BY <1>7, ExclusionThrow DEF Refused, Fails
  <1>8. CASE Restart
    BY <1>8 DEF Restart, ExclusionInv, FlagsTyped, OneUpdateAtATime, Updating
  <1> QED
    BY <1>1, <1>2, <1>3, <1>4, <1>5, <1>6, <1>7, <1>8
       DEF Next, Continue, Tick, BlockEvent, Answer, Downloaded, DownloadFails,
           Register, ListenerLost, vars

LEMMA ExclusionInvariant == Spec => []ExclusionInv
BY ExclusionInit, ExclusionNext, PTL DEF Spec

\* Updates exclude each other, however timers, block events and logins
\* overlap, and the flag is down whenever none is under way.
THEOREM OneUpdate == Spec => []OneUpdateAtATime
  <1>1. ExclusionInv => OneUpdateAtATime
    BY DEF ExclusionInv
  <1> QED
    BY ExclusionInvariant, <1>1, PTL

-------------------------------------------------------------------------------
(* The hosts file.                                                         *)

AnswersTyped ==
  /\ chain \in [Keys -> SUBSET Entries]
  /\ answer \in [Calls -> (SUBSET Entries) \cup {NONE}]

\* What is in the hosts file is registered, and an answer on its way to the
\* hosts file has all of it.
AnswersRecent ==
  /\ hosts \subseteq chain["dns"] \ Own
  /\ \A c \in Calls :
       Answered(c, "dns") => /\ hosts \subseteq answer[c]
                             /\ answer[c] \subseteq chain["dns"]

HostsInv == ExclusionInv /\ AnswersTyped /\ AnswersRecent

LEMMA HostsInit == Init => HostsInv
BY ExclusionInit
   DEF Init, HostsInv, AnswersTyped, AnswersRecent, Answered, Entries

LEMMA HostsWrite ==
  ASSUME HostsInv, NEW c \in Calls, WriteHosts(c)
  PROVE  /\ hosts \subseteq hosts'
         /\ AnswersTyped' /\ AnswersRecent'
  <1> USE DEF outside
  <1>1. /\ hosts \subseteq answer[c] /\ answer[c] \subseteq chain["dns"]
        /\ hosts \cap Own = {}
    BY DEF HostsInv, AnswersRecent, WriteHosts
  <1>2. hosts \subseteq hosts' /\ hosts' \subseteq chain["dns"] \ Own
    BY <1>1 DEF WriteHosts, HostsInv, AnswersRecent
  <1>3. \A d \in Calls : ~Answered(d, "dns")'
    <2>1. \A d \in Calls \ {c} : pc[d] # "dns"
      BY DEF HostsInv, ExclusionInv, OneUpdateAtATime, Updating, WriteHosts,
             Answered
    <2> QED
      BY <2>1 DEF WriteHosts, Answered, Await, HostsInv, ExclusionInv, FlagsTyped
  <1>4. AnswersTyped'
    BY DEF WriteHosts, Await, HostsInv, AnswersTyped
  <1> QED
    BY <1>2, <1>3, <1>4 DEF AnswersRecent, WriteHosts

LEMMA HostsAnswer ==
  ASSUME HostsInv, NEW c \in Calls, Answer(c)
  PROVE  AnswersTyped' /\ AnswersRecent'
  <1>1. AnswersTyped'
    BY DEF Answer, HostsInv, AnswersTyped, outside
  <1>2. /\ UNCHANGED <<chain, hosts, pc>>
        /\ answer'[c] = chain[pc[c]]
        /\ \A d \in Calls \ {c} : answer'[d] = answer[d]
    BY DEF Answer, HostsInv, AnswersTyped, outside, disk
  <1>3. AnswersRecent'
    BY <1>2 DEF HostsInv, AnswersRecent, Answered
  <1> QED
    BY <1>1, <1>3

LEMMA HostsRegister ==
  ASSUME HostsInv, NEW e \in Entries, Register(e)
  PROVE  AnswersTyped' /\ AnswersRecent'
  <1>1. \A k \in Keys : chain[k] \subseteq chain'[k]
    BY DEF Register
  <1>2. AnswersTyped'
    BY DEF Register, HostsInv, AnswersTyped
  <1>3. UNCHANGED <<hosts, pc, answer>>
    BY DEF Register, disk
  <1> QED
    BY <1>1, <1>2, <1>3 DEF HostsInv, AnswersRecent, Answered

\* A call that goes on to an await has no answer yet; one that ends waits for
\* none.
LEMMA HostsMove ==
  ASSUME HostsInv, NEW c \in Calls, NEW s, UNCHANGED <<chain, hosts>>,
         pc' = [pc EXCEPT ![c] = s],
         \/ answer' = [answer EXCEPT ![c] = NONE]
         \/ s = "idle" /\ answer' = answer
  PROVE  AnswersTyped' /\ AnswersRecent'
  <1>1. AnswersTyped'
    BY DEF HostsInv, AnswersTyped
  <1>2. \A d \in Calls :
          Answered(d, "dns")' => Answered(d, "dns") /\ answer'[d] = answer[d]
    BY DEF Answered, HostsInv, AnswersTyped, ExclusionInv, FlagsTyped
  <1> QED
    BY <1>1, <1>2 DEF HostsInv, AnswersRecent

LEMMA HostsNext ==
  ASSUME HostsInv, [Next]_vars
  PROVE  HostsInv' /\ hosts \subseteq hosts'
  <1> USE DEF outside, disk, session
  <1>1. ExclusionInv'
    BY ExclusionNext DEF HostsInv
  <1>2. ASSUME UNCHANGED <<chain, hosts, pc, answer>>
        PROVE  AnswersTyped' /\ AnswersRecent'
    BY <1>2 DEF HostsInv, AnswersTyped, AnswersRecent, Answered
  <1>3. ASSUME NEW c \in Calls, StartUpdate(c), UNCHANGED <<chain, hosts>>
        PROVE  AnswersTyped' /\ AnswersRecent'
    BY <1>3, HostsMove DEF StartUpdate, Await
  <1>4. ASSUME NEW c \in Calls, Begin(c) \/ Listening(c)
        PROVE  AnswersTyped' /\ AnswersRecent'
    BY <1>3, <1>4, HostsMove DEF Begin, Listening, Await
  <1>5. ASSUME NEW c \in Calls, Initialised(c) \/ LoggedIn(c) \/ Attached(c)
                                \/ StartDownloads(c) \/ MergeOrgs(c)
        PROVE  AnswersTyped' /\ AnswersRecent'
    BY <1>5, HostsMove
       DEF Initialised, LoggedIn, Attached, StartDownloads, MergeOrgs, Await
  <1>6. ASSUME NEW c \in Calls, Refused(c) \/ Fails(c)
        PROVE  AnswersTyped' /\ AnswersRecent'
    BY <1>6, HostsMove DEF Refused, Fails, Throw
  <1>7. ASSUME Restart
        PROVE  AnswersTyped' /\ AnswersRecent'
    BY <1>7 DEF Restart, HostsInv, AnswersTyped, AnswersRecent, Answered
  <1>8. AnswersTyped' /\ AnswersRecent'
    BY <1>2, <1>4, <1>5, <1>6, <1>7, HostsWrite, HostsAnswer, HostsRegister
       DEF Next, Continue, Tick, BlockEvent, Downloaded, DownloadFails,
           ListenerLost, vars
  <1>9. hosts' = hosts \/ \E c \in Calls : WriteHosts(c)
    BY DEF Next, Continue, Tick, BlockEvent, Begin, Initialised, LoggedIn, Attached,
           Listening, Answer, StartDownloads, MergeOrgs, Refused, Fails, Throw,
           Downloaded, DownloadFails, Register, ListenerLost, Restart, vars
  <1> QED
    BY <1>1, <1>8, <1>9, HostsWrite DEF HostsInv

\* The hosts file never loses a name, although queries and registrations
\* overlap and calls fail at any point.
THEOREM HostsMonotone == Spec => HostsNeverGoBack
  <1>1. HostsInv /\ [Next]_vars => HostsInv' /\ [hosts \subseteq hosts']_vars
    BY HostsNext
  <1> QED
    BY HostsInit, <1>1, PTL DEF Spec, HostsNeverGoBack

-------------------------------------------------------------------------------
(* The block listener.                                                     *)

Stage(S)  == {c \in Calls : pc[c] \in S}
Waiting   == Stage({"init", "login", "listen"})
Attaching == Stage({"attached"})

\* Every login that may still register a listener has its share in the bound.  As long
\* as the flag is not set, every listener is one that a call is about to tell of, or one
\* that counts as excess.
ListenerInv ==
  /\ FlagsTyped /\ started \in BOOLEAN /\ listeners \in Nat /\ excess \in Nat
  /\ listeners + Cardinality(Waiting) <= 1 + excess
  /\ ~started => listeners <= excess + Cardinality(Attaching)

LEMMA StageFinite ==
  ASSUME NEW S
  PROVE  IsFiniteSet(Stage(S)) /\ Cardinality(Stage(S)) \in Nat
BY CallsAssumption, FS_Subset, FS_CardinalityType DEF Stage

LEMMA ListenerInit == Init => ListenerInv
  <1> SUFFICES ASSUME Init PROVE ListenerInv
    OBVIOUS
  <1>1. FlagsTyped
    BY DEF Init, FlagsTyped
  <1>2. Waiting = {} /\ Attaching = {}
    BY DEF Init, Waiting, Attaching, Stage
  <1>3. Cardinality(Waiting) = 0 /\ Cardinality(Attaching) = 0
    BY <1>2, FS_EmptySet
  <1>4. started = FALSE /\ listeners = 0 /\ excess = 0
    BY DEF Init
  <1>5. listeners + Cardinality(Waiting) <= 1 + excess
    BY <1>3, <1>4
  <1>6. listeners <= excess + Cardinality(Attaching)
    BY <1>3, <1>4
  <1> QED
    BY <1>1, <1>4, <1>5, <1>6 DEF ListenerInv

\* One call moves from one await to another one, and the others stay.
LEMMA StageMoves ==
  ASSUME FlagsTyped, NEW S, NEW c \in Calls, NEW s, pc' = [pc EXCEPT ![c] = s]
  PROVE  Cardinality(Stage(S))' = IF s \in S
                                  THEN IF pc[c] \in S THEN Cardinality(Stage(S))
                                       ELSE Cardinality(Stage(S)) + 1
                                  ELSE IF pc[c] \in S THEN Cardinality(Stage(S)) - 1
                                       ELSE Cardinality(Stage(S))
  <1>1. Stage(S)' = IF s \in S THEN Stage(S) \cup {c} ELSE Stage(S) \ {c}
    BY DEF Stage, FlagsTyped
  <1>2. IsFiniteSet(Stage(S)) /\ Cardinality(Stage(S)) \in Nat
    BY StageFinite
  <1>3. c \in Stage(S) <=> pc[c] \in S
    BY DEF Stage
  <1>4. CASE s \in S
    BY <1>1, <1>2, <1>3, <1>4, FS_AddElement
  <1>5. CASE s \notin S
    BY <1>1, <1>2, <1>3, <1>5, FS_RemoveElement
  <1> QED
    BY <1>4, <1>5

\* A call that goes on within its login, or within the update, or ends.
LEMMA ListenerKept ==
  ASSUME ListenerInv, NEW c \in Calls, NEW s \in {"idle"} \cup LoginStages \cup Keys,
         pc' = [pc EXCEPT ![c] = s], inProcess' \in BOOLEAN,
         s \in {"init", "login", "listen"} => pc[c] \in {"init", "login", "listen"},
         s # "attached", UNCHANGED listeners, started' \in BOOLEAN, started => started',
         excess' \in {excess, excess + 1},
         excess' = excess => pc[c] # "attached" \/ started'
  PROVE  ListenerInv'
  <1> USE DEF ListenerInv
  <1>1. FlagsTyped'
    BY DEF FlagsTyped
  <1>2. Cardinality(Waiting) \in Nat /\ Cardinality(Attaching) \in Nat
    BY StageFinite DEF Waiting, Attaching
  <1>3. Cardinality(Waiting)' \in {Cardinality(Waiting), Cardinality(Waiting) - 1}
    BY StageMoves DEF Waiting
  <1>4. Cardinality(Attaching)' = IF pc[c] = "attached" THEN Cardinality(Attaching) - 1
                                  ELSE Cardinality(Attaching)
    BY StageMoves DEF Attaching
  <1> QED
    BY <1>1, <1>2, <1>3, <1>4

\* The start of an update, or the end of a call that finds one under way.
LEMMA UpdateStarts ==
  ASSUME FlagsTyped, NEW c \in Calls, StartUpdate(c)
  PROVE  /\ inProcess' \in BOOLEAN
         /\ \E s \in {"idle", "dns"} : pc' = [pc EXCEPT ![c] = s]
BY DEF StartUpdate, Await, FlagsTyped

\* A call begins: a login, if the flag is not set.
LEMMA ListenerBegin ==
  ASSUME ListenerInv, NEW c \in Calls, Begin(c)
  PROVE  ListenerInv'
  <1> USE DEF ListenerInv
  <1>1. CASE started /\ StartUpdate(c) /\ UNCHANGED session
    BY <1>1, UpdateStarts, ListenerKept DEF Begin, session
  <1>2. CASE /\ ~started /\ Await(c, "init", Len(clients) + 1)
             /\ excess' = (IF LoggingIn THEN excess + 1 ELSE excess)
             /\ UNCHANGED <<started, listeners, inProcess>>
    <2>1. pc' = [pc EXCEPT ![c] = "init"] /\ pc[c] = "idle"
      BY <1>2 DEF Begin, Await
    <2>2. FlagsTyped'
      BY <1>2, <2>1 DEF FlagsTyped
    <2>3. Cardinality(Waiting) \in Nat /\ Cardinality(Attaching) \in Nat
      BY StageFinite DEF Waiting, Attaching
    <2>4. Cardinality(Waiting)' = Cardinality(Waiting) + 1
      BY <2>1, StageMoves DEF Waiting
    <2>5. Cardinality(Attaching)' = Cardinality(Attaching)
      BY <2>1, StageMoves DEF Attaching
    <2>6. ASSUME ~LoggingIn PROVE Cardinality(Waiting) = 0 /\ Cardinality(Attaching) = 0
      <3>1. Waiting = {} /\ Attaching = {}
        BY <2>6 DEF LoggingIn, Waiting, Attaching, Stage
      <3> QED
        BY <3>1, FS_EmptySet
    <2> QED
      BY <1>2, <2>2, <2>3, <2>4, <2>5, <2>6
  <1> QED
    BY <1>1, <1>2 DEF Begin

\* The listener is registered.
LEMMA ListenerAttached ==
  ASSUME ListenerInv, NEW c \in Calls, Attached(c)
  PROVE  ListenerInv'
  <1> USE DEF ListenerInv
  <1>1. /\ pc[c] = "listen" /\ pc' = [pc EXCEPT ![c] = "attached"]
        /\ listeners' = listeners + 1 /\ UNCHANGED <<started, inProcess, excess>>
    BY DEF Attached, Await
  <1>2. FlagsTyped'
    BY <1>1 DEF FlagsTyped
  <1>3. Cardinality(Waiting) \in Nat /\ Cardinality(Attaching) \in Nat
    BY StageFinite DEF Waiting, Attaching
  <1>4. Cardinality(Waiting)' = Cardinality(Waiting) - 1
    BY <1>1, StageMoves DEF Waiting
  <1>5. Cardinality(Attaching)' = Cardinality(Attaching) + 1
    BY <1>1, StageMoves DEF Attaching
  <1> QED
    BY <1>1, <1>2, <1>3, <1>4, <1>5

LEMMA ListenerNext == ListenerInv /\ [Next]_vars => ListenerInv'
  <1> SUFFICES ASSUME ListenerInv, [Next]_vars PROVE ListenerInv'
    OBVIOUS
  <1> USE DEF ListenerInv
  <1>1. ASSUME UNCHANGED <<inProcess, pc, started, listeners, excess>> PROVE ListenerInv'
    BY <1>1 DEF FlagsTyped, Waiting, Attaching, Stage
  <1>2. ASSUME NEW c \in Calls, Begin(c) PROVE ListenerInv'
    BY <1>2, ListenerBegin
  <1>3. ASSUME NEW c \in Calls, Initialised(c) \/ LoggedIn(c) PROVE ListenerInv'
    BY <1>3, ListenerKept DEF Initialised, LoggedIn, Await, FlagsTyped
  <1>4. ASSUME NEW c \in Calls, Attached(c) PROVE ListenerInv'
    BY <1>4, ListenerAttached
  <1>5. ASSUME NEW c \in Calls, Listening(c) PROVE ListenerInv'
    <2>1. started' = TRUE /\ UNCHANGED <<listeners, excess>> /\ StartUpdate(c)
      BY <1>5 DEF Listening
    <2>2. PICK s \in {"idle", "dns"} : pc' = [pc EXCEPT ![c] = s]
      BY <2>1, UpdateStarts
    <2>3. inProcess' \in BOOLEAN
      BY <2>1, UpdateStarts
    <2> QED
      BY <2>1, <2>2, <2>3, ListenerKept
  <1>6. ASSUME NEW c \in Calls, WriteHosts(c) \/ StartDownloads(c) PROVE ListenerInv'
    <2>1. pc[c] \in Keys /\ UNCHANGED <<started, listeners, excess, inProcess>>
      BY <1>6 DEF WriteHosts, StartDownloads, Answered, session
    <2>2. PICK s \in Keys : pc' = [pc EXCEPT ![c] = s]
      BY <1>6 DEF WriteHosts, StartDownloads, Await
    <2> QED
      BY <2>1, <2>2, ListenerKept DEF FlagsTyped
  <1>7. ASSUME NEW c \in Calls, MergeOrgs(c) PROVE ListenerInv'
    <2>1. pc[c] = "orgs" /\ inProcess' \in BOOLEAN /\ UNCHANGED <<started, listeners, excess>>
      BY <1>7 DEF MergeOrgs, Answered, session
    <2>2. PICK s \in {"idle"} : pc' = [pc EXCEPT ![c] = s]
      BY <1>7 DEF MergeOrgs
    <2> QED
      BY <2>1, <2>2, ListenerKept
  <1>8. ASSUME NEW c \in Calls, Refused(c) \/ Fails(c) PROVE ListenerInv'
    <2>1. /\ inProcess' \in BOOLEAN /\ UNCHANGED <<started, listeners>>
          /\ excess' = IF pc[c] = "attached" THEN excess + 1 ELSE excess
      BY <1>8 DEF Refused, Fails, Throw, FlagsTyped
    <2>2. PICK s \in {"idle"} : pc' = [pc EXCEPT ![c] = s]
      BY <1>8 DEF Refused, Fails, Throw
    <2>3. /\ excess' \in {excess, excess + 1}
          /\ excess' = excess => pc[c] # "attached"
      BY <2>1
    <2> QED
      BY <2>1, <2>2, <2>3, ListenerKept
  <1>9. CASE ListenerLost
    <2>1. UNCHANGED <<inProcess, pc, started, excess>> /\ listeners' = listeners - 1
          /\ listeners > 0
      BY <1>9 DEF ListenerLost
    <2>2. Cardinality(Waiting) \in Nat /\ Cardinality(Attaching) \in Nat
      BY StageFinite DEF Waiting, Attaching
    <2>3. Waiting' = Waiting /\ Attaching' = Attaching
      BY <2>1 DEF Waiting, Attaching, Stage
    <2> QED
      BY <2>1, <2>2, <2>3 DEF FlagsTyped
  <1>10. CASE Restart
    <2>1. FlagsTyped'
      BY <1>10 DEF Restart, FlagsTyped
    <2>2. Waiting' = {} /\ Attaching' = {}
      BY <1>10 DEF Restart, Waiting, Attaching, Stage
    <2>3. listeners' = 0 /\ excess' = 0 /\ started' = FALSE
      BY <1>10 DEF Restart
    <2>4. Cardinality(Waiting)' = 0 /\ Cardinality(Attaching)' = 0
      BY <2>2, FS_EmptySet
    <2>5. listeners' + Cardinality(Waiting)' <= 1 + excess'
      BY <2>3, <2>4
    <2>6. listeners' <= excess' + Cardinality(Attaching)'
      BY <2>3, <2>4
    <2> QED
      BY <2>1, <2>3, <2>5, <2>6
  <1> QED
    BY <1>1, <1>2, <1>3, <1>4, <1>5, <1>6, <1>7, <1>8, <1>9, <1>10
       DEF Next, Continue, Tick, BlockEvent, Answer, Downloaded, DownloadFails,
           Register, vars, session

\* The process has one block listener, and as many more at most as logins have been
\* overtaken by others or registrations have failed with the listener on; and a listener
\* beyond those is one that the flag tells of, or is about to (_dns._js:73-81).
THEOREM OneRegistered == Spec => []OneListener
  <1>1. ListenerInv => OneListener
    <2> SUFFICES ASSUME ListenerInv PROVE OneListener
      OBVIOUS
    <2>1. Cardinality(Waiting) \in Nat /\ Cardinality(Attaching) \in Nat
      BY StageFinite DEF Waiting, Attaching
    <2>2. ASSUME ~LoggingIn PROVE Cardinality(Attaching) = 0
      <3>1. Attaching = {}
        BY <2>2 DEF LoggingIn, Attaching, Stage
      <3> QED
        BY <3>1, FS_EmptySet
    <2> QED
      BY <2>1, <2>2 DEF ListenerInv, OneListener
  <1> QED
    BY <1>1, ListenerInit, ListenerNext, PTL DEF Spec

-------------------------------------------------------------------------------
(* Type correctness.                                                       *)

\* What an orderer's certificates are downloaded for is an orderer, and what is
\* merged into the organisations is one: an answer is of the kind of its query.
AnswersOfKind ==
  /\ chain["osn"] \subseteq Orderers /\ chain["orgs"] \subseteq Orgs
  /\ \A c \in Calls :
       /\ Answered(c, "osn") => answer[c] \subseteq Orderers
       /\ Answered(c, "orgs") => answer[c] \subseteq Orgs

TypeInv == TypeOK /\ AnswersOfKind

\* The variables that a step of a call leaves alone, or gives values of their type.
RestTyped ==
  /\ chain \in [Keys -> SUBSET Entries]
  /\ hosts \subseteq Entries \ Own
  /\ orgs \subseteq Orgs /\ msp \subseteq Orderers /\ downloads \subseteq Orderers
  /\ started \in BOOLEAN /\ inProcess \in BOOLEAN
  /\ clients \in Seq({"new", "ready", "in"})
  /\ listeners \in Nat /\ excess \in Nat /\ events \in Nat
  /\ slow \in BOOLEAN
  /\ faults \in 0 .. MaxFaults /\ restarts \in 0 .. MaxRestarts

LEMMA TypeInit == Init => TypeInv
<1> SUFFICES ASSUME Init PROVE TypeInv
  OBVIOUS
<1>1. clients \in Seq({"new", "ready", "in"})
  BY DEF Init
<1>2. AnswersOfKind
  <2>1. chain["osn"] = {} /\ chain["orgs"] = {}
    BY DEF Init
  <2>2. \A c \in Calls, k \in Keys : ~Answered(c, k)
    BY DEF Init, Answered
  <2> QED
    BY <2>1, <2>2 DEF AnswersOfKind
<1>3. /\ chain \in [Keys -> SUBSET Entries]
      /\ pc \in [Calls -> {"idle"} \cup LoginStages \cup Keys]
      /\ target \in [Calls -> Nat]
      /\ answer \in [Calls -> (SUBSET Entries) \cup {NONE}]
  BY DEF Init
<1>4. /\ hosts = {} /\ orgs = {} /\ msp = {} /\ downloads = {}
      /\ started \in BOOLEAN /\ inProcess \in BOOLEAN /\ slow \in BOOLEAN
      /\ listeners = 0 /\ excess = 0 /\ events = 0 /\ faults = 0 /\ restarts = 0
  BY DEF Init
<1>5. RestTyped
  BY <1>1, <1>3, <1>4, BoundsAssumption DEF RestTyped
<1> QED
  BY <1>2, <1>3, <1>5 DEF TypeInv, TypeOK, RestTyped

\* A call goes on to an await, whose answer is yet to come, or ends.
LEMMA TypeMove ==
  ASSUME TypeInv, RestTyped', UNCHANGED chain, NEW c \in Calls,
         NEW s \in {"idle"} \cup LoginStages \cup Keys, NEW n \in Nat,
         pc' = [pc EXCEPT ![c] = s],
         \/ target' = [target EXCEPT ![c] = n] /\ answer' = [answer EXCEPT ![c] = NONE]
         \/ s = "idle" /\ UNCHANGED <<target, answer>>
  PROVE  TypeInv'
<1>1. /\ pc' \in [Calls -> {"idle"} \cup LoginStages \cup Keys]
      /\ target' \in [Calls -> Nat]
      /\ answer' \in [Calls -> (SUBSET Entries) \cup {NONE}]
  BY DEF TypeInv, TypeOK
<1>2. \A d \in Calls, k \in Keys :
        Answered(d, k)' => Answered(d, k) /\ answer'[d] = answer[d]
  BY DEF TypeInv, TypeOK, Answered
<1> QED
  BY <1>1, <1>2 DEF TypeInv, TypeOK, RestTyped, AnswersOfKind

LEMMA TypeStartUpdate ==
  ASSUME TypeInv, NEW c \in Calls, StartUpdate(c),
         UNCHANGED <<outside, disk, orgs, clients, listeners, excess>>, started' \in BOOLEAN,
         events' \in Nat
  PROVE  TypeInv'
<1>1. Len(clients) \in Nat
  BY DEF TypeInv, TypeOK
<1>2. RestTyped'
  BY DEF StartUpdate, TypeInv, TypeOK, RestTyped, outside, disk
<1> QED
  BY <1>1, <1>2, TypeMove DEF StartUpdate, Await, outside

LEMMA TypeThrow ==
  ASSUME TypeInv, NEW c \in Calls, Throw(c), faults' \in 0 .. MaxFaults
  PROVE  TypeInv'
<1>1. RestTyped'
  BY DEF Throw, TypeInv, TypeOK, RestTyped, disk
<1> QED
  BY <1>1, TypeMove DEF Throw

LEMMA TypeNext == TypeInv /\ [Next]_vars => TypeInv'
<1> SUFFICES ASSUME TypeInv, [Next]_vars PROVE TypeInv'
  OBVIOUS
<1>0. /\ Len(clients) \in Nat /\ TypeOK /\ MaxFaults \in Nat /\ MaxRestarts \in Nat
      /\ target \in [Calls -> Nat] /\ clients \in Seq({"new", "ready", "in"})
      /\ listeners \in Nat /\ excess \in Nat /\ events \in Nat
  BY BoundsAssumption DEF TypeInv, TypeOK
<1>1. ASSUME NEW c \in Calls, Begin(c), events' \in Nat PROVE TypeInv'
  <2>1. CASE started /\ StartUpdate(c) /\ UNCHANGED session
    BY <1>0, <1>1, <2>1, TypeStartUpdate DEF Begin, session, TypeOK
  <2>2. CASE /\ clients' = Append(clients, "new")
             /\ Await(c, "init", Len(clients) + 1)
             /\ excess' = (IF LoggingIn THEN excess + 1 ELSE excess)
             /\ UNCHANGED <<started, listeners, inProcess>>
    <3>1. RestTyped'
      <4>1. clients' \in Seq({"new", "ready", "in"})
        BY <1>0, <2>2
      <4> QED
        BY <1>0, <1>1, <2>2, <4>1 DEF Begin, TypeOK, RestTyped, outside, disk
    <3>2. /\ UNCHANGED chain /\ Len(clients) + 1 \in Nat
          /\ pc' = [pc EXCEPT ![c] = "init"]
          /\ target' = [target EXCEPT ![c] = Len(clients) + 1]
          /\ answer' = [answer EXCEPT ![c] = NONE]
      BY <1>0, <1>1, <2>2 DEF Begin, Await, outside
    <3> QED
      BY <3>1, <3>2, TypeMove
  <2> QED
    BY <1>1, <2>1, <2>2 DEF Begin
<1>2. ASSUME NEW c \in Calls, Initialised(c) \/ LoggedIn(c) PROVE TypeInv'
  <2>1. clients' \in Seq({"new", "ready", "in"}) /\ Len(clients) \in Nat
    BY <1>0, <1>2 DEF Initialised, LoggedIn
  <2>2. RestTyped'
    BY <1>0, <1>2, <2>1 DEF Initialised, LoggedIn, TypeOK, RestTyped, outside, disk
  <2> QED
    BY <1>2, <2>1, <2>2, TypeMove DEF Initialised, LoggedIn, Await, outside
<1>3. ASSUME NEW c \in Calls, Attached(c) PROVE TypeInv'
  <2>1. RestTyped'
    BY <1>0, <1>3 DEF Attached, TypeOK, RestTyped, outside, disk
  <2> QED
    BY <1>0, <1>3, <2>1, TypeMove DEF Attached, Await, outside
<1>4. ASSUME NEW c \in Calls, Listening(c) PROVE TypeInv'
  BY <1>0, <1>4, TypeStartUpdate DEF Listening
<1>5. ASSUME NEW c \in Calls, Answer(c) PROVE TypeInv'
  <2>1. answer' = [answer EXCEPT ![c] = chain[pc[c]]] /\ chain[pc[c]] \in SUBSET Entries
    BY <1>0, <1>5 DEF Answer, TypeOK
  <2>2. UNCHANGED <<chain, pc>>
    BY <1>5 DEF Answer, outside
  <2>3. AnswersOfKind'
    BY <1>0, <2>1, <2>2 DEF TypeInv, TypeOK, AnswersOfKind, Answered
  <2> QED
    BY <1>5, <1>0, <2>1, <2>3 DEF Answer, TypeInv, TypeOK, outside, disk, session
<1>6. ASSUME NEW c \in Calls, WriteHosts(c) \/ StartDownloads(c) PROVE TypeInv'
  <2>1. answer[c] \in SUBSET Entries /\ (StartDownloads(c) => answer[c] \subseteq Orderers)
    BY <1>0, <1>6 DEF WriteHosts, StartDownloads, Answered, TypeInv, TypeOK, AnswersOfKind
  <2>2. RestTyped'
    BY <1>0, <1>6, <2>1 DEF WriteHosts, StartDownloads, TypeOK, RestTyped, outside, session
  <2> QED
    BY <1>0, <1>6, <2>2, TypeMove DEF WriteHosts, StartDownloads, Await, outside
<1>7. ASSUME NEW c \in Calls, MergeOrgs(c) PROVE TypeInv'
  <2>1. answer[c] \subseteq Orgs
    BY <1>7 DEF MergeOrgs, Answered, TypeInv, AnswersOfKind
  <2>2. RestTyped'
    BY <1>0, <1>7, <2>1 DEF MergeOrgs, TypeOK, RestTyped, outside, disk, session
  <2> QED
    BY <1>0, <1>7, <2>2, TypeMove DEF MergeOrgs, outside
<1>8. ASSUME NEW c \in Calls, Refused(c) \/ Fails(c) PROVE TypeInv'
  BY <1>0, <1>8, TypeThrow DEF Refused, Fails, OneFault, TypeOK
<1>9. ASSUME NEW o \in Orderers, Downloaded(o) \/ DownloadFails(o) PROVE TypeInv'
  <2>1. UNCHANGED <<chain, pc, target, answer>>
    BY <1>9 DEF Downloaded, DownloadFails, outside
  <2>2. AnswersOfKind'
    BY <2>1 DEF TypeInv, AnswersOfKind, Answered
  <2> QED
    BY <1>0, <1>9, <2>2
       DEF Downloaded, DownloadFails, OneFault, TypeInv, TypeOK, outside, session
<1>10. ASSUME NEW e \in Entries, Register(e) PROVE TypeInv'
  <2>1. /\ chain' \in [Keys -> SUBSET Entries]
        /\ chain'["osn"] \subseteq Orderers /\ chain'["orgs"] \subseteq Orgs
    BY <1>0, <1>10 DEF Register, TypeInv, TypeOK, AnswersOfKind
  <2>2. UNCHANGED <<pc, answer>>
    BY <1>10 DEF Register
  <2>3. AnswersOfKind'
    BY <2>1, <2>2 DEF TypeInv, AnswersOfKind, Answered
  <2> QED
    BY <1>0, <1>10, <2>1, <2>3 DEF Register, TypeInv, TypeOK, disk, session
<1>11. CASE ListenerLost
  <2>1. AnswersOfKind'
    BY <1>11 DEF ListenerLost, TypeInv, AnswersOfKind, Answered
  <2> QED
    BY <1>0, <1>11, <2>1 DEF ListenerLost, OneFault, TypeInv, TypeOK, disk
<1>12. CASE Restart
  <2>1. AnswersOfKind'
    <3>1. \A c \in Calls, k \in Keys : ~Answered(c, k)'
      BY <1>12 DEF Restart, Answered
    <3> QED
      BY <1>12, <3>1 DEF Restart, TypeInv, AnswersOfKind
  <2>2. /\ pc' \in [Calls -> {"idle"} \cup LoginStages \cup Keys]
        /\ target' \in [Calls -> Nat]
        /\ answer' \in [Calls -> (SUBSET Entries) \cup {NONE}]
        /\ clients' \in Seq({"new", "ready", "in"})
    BY <1>12 DEF Restart
  <2>3. /\ UNCHANGED <<chain, slow, hosts, msp, faults>>
        /\ orgs' = {} /\ downloads' = {}
        /\ started' \in BOOLEAN /\ inProcess' \in BOOLEAN
        /\ listeners' = 0 /\ excess' = 0 /\ events' = 0
        /\ restarts' = restarts + 1 /\ restarts < MaxRestarts
    BY <1>12 DEF Restart
  <2>4. RestTyped'
    BY <1>0, <2>2, <2>3 DEF TypeOK, RestTyped
  <2> QED
    BY <2>1, <2>2, <2>4 DEF TypeInv, TypeOK, RestTyped
<1>13. CASE UNCHANGED vars
  BY <1>13 DEF vars, TypeInv, TypeOK, AnswersOfKind, Answered
<1> QED
  BY <1>0, <1>1, <1>2, <1>3, <1>4, <1>5, <1>6, <1>7, <1>8, <1>9, <1>10, <1>11, <1>12, <1>13
     DEF Next, Continue, Tick, BlockEvent

\* Names stay names of organisations and orderers on their way from the registry to
\* the hosts file, the certificates and the organisations known to the process
\* (_dns._js:90-118).
THEOREM SyncTypes == Spec => []TypeOK
<1>1. TypeInv => TypeOK
  BY DEF TypeInv
<1> QED
  BY TypeInit, TypeNext, <1>1, PTL DEF Spec

===============================================================================
