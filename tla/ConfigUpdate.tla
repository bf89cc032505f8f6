------------------------------ MODULE ConfigUpdate ------------------------------
(***************************************************************************)
(* The configuration updates of container-scripts: fetch the channel's     *)
(* configuration, edit it with jq, compute the difference with             *)
(* configtxlator, submit it.  Each step leaves a file for the next one in  *)
(* GENERATE_DIR, under a fixed name, and few steps look at whether the     *)
(* step before has succeeded.                                              *)
(*                                                                         *)
(* Scripts run on several hosts, each with its GENERATE_DIR, which several *)
(* scripts on one host share.  The orderer is external: it accepts an update    *)
(* computed from the configuration it has, and rejects any other one.      *)
(* So are configtxlator and jq; what they do with a missing or an empty    *)
(* input is in Translate, Edit, Compute and Wrap.                          *)
(*                                                                         *)
(* One group of one channel is modelled, the one whose members the scripts *)
(* add and remove, with the version that the orderer checks.               *)
(***************************************************************************)
EXTENDS Integers

CONSTANTS
  Workers,    \* script processes, each running one script after the other
  Dirs,       \* the GENERATE_DIRs of the hosts
  Founders, Ops,
  ABSENT, EMPTY, GARBAGE,   \* a file that is not there, has no content, or is
                            \* JSON but no configuration
  MaxRuns,    \* bound on scripts
  MaxFaults,  \* bound on failing fetches and edits
  MaxLost     \* bound on submissions, or answers to them, that get lost

ASSUME BoundsAssumption == MaxRuns \in Nat /\ MaxFaults \in Nat /\ MaxLost \in Nat

ASSUME OpsAssumption == \A o \in Ops : o.kind \in {"add", "remove"}

VARIABLES
  channel,   \* the configuration at the orderer: [ver, members]
  pb,        \* dir -> <channel>.pb, the block fetched
  config,    \* dir -> config.json
  updated,   \* dir -> updated_config.json
  update,    \* dir -> update.json
  envelope,  \* dir -> update_in_envelope.pb
  pc,        \* worker -> the next step of its script
  dir,       \* worker -> the directory its script runs in, ABSENT if none runs
  clashed,   \* the directories in which two scripts have run at a time
  op,        \* worker -> the operation asked for
  status,    \* worker -> exit status of its last script
  runs, faults, lost

files == <<pb, config, updated, update, envelope>>
vars  == <<channel, files, pc, dir, clashed, op, status, runs, faults, lost>>

C == INSTANCE ChannelConfig WITH members <- channel.members

IsConfig(file) == file \notin {ABSENT, EMPTY, GARBAGE}

Members  == Founders \cup {o.who : o \in Ops}
Configs  == [ver : Nat, members : SUBSET Members]
Contents == Configs \cup {ABSENT, EMPTY, GARBAGE}

\* A configuration is none of the marks for a file without one.
ASSUME FilesAssumption == {ABSENT, EMPTY, GARBAGE} \cap Configs = {}

Steps == {"idle", "fetch", "translate", "edit", "diff", "compute", "wrap", "submit"}

TypeOK ==
  /\ channel \in Configs
  /\ \A d \in Dirs :
       /\ pb[d] \in Configs \cup {ABSENT}
       /\ config[d] \in Configs \cup {ABSENT, EMPTY}
       /\ updated[d] \in Contents
       /\ update[d] \in Configs \cup {ABSENT}
       /\ envelope[d] \in Configs \cup {ABSENT, EMPTY}
  /\ pc \in [Workers -> Steps]
  /\ dir \in [Workers -> Dirs \cup {ABSENT}] /\ clashed \subseteq Dirs
  /\ op \in [Workers -> Ops \cup {ABSENT}]
  /\ status \in [Workers -> {"none", "ok", "error"}]
  /\ runs \in 0 .. MaxRuns /\ faults \in 0 .. MaxFaults /\ lost \in 0 .. MaxLost

Init ==
  /\ channel = [ver |-> 0, members |-> Founders]
  /\ pb = [d \in Dirs |-> ABSENT] /\ config = [d \in Dirs |-> ABSENT]
  /\ updated = [d \in Dirs |-> ABSENT] /\ update = [d \in Dirs |-> ABSENT]
  /\ envelope = [d \in Dirs |-> ABSENT]
  /\ pc = [w \in Workers |-> "idle"]
  /\ dir = [w \in Workers |-> ABSENT] /\ clashed = {}
  /\ op = [w \in Workers |-> ABSENT]
  /\ status = [w \in Workers |-> "none"]
  /\ runs = 0 /\ faults = 0 /\ lost = 0

-------------------------------------------------------------------------------

Goto(w, step) == pc' = [pc EXCEPT ![w] = step]

Exit(w, result) ==
  /\ Goto(w, "idle")
  /\ dir' = [dir EXCEPT ![w] = ABSENT]
  /\ status' = [status EXCEPT ![w] = result]

\* From one step to the next one of the same script.
Step(w, from, to) ==
  /\ pc[w] = from
  /\ Goto(w, to)
  /\ UNCHANGED <<dir, clashed, op, status>>

OneFault == faults < MaxFaults /\ faults' = faults + 1
OneLost  == lost < MaxLost /\ lost' = lost + 1

\* A script is started in directory d, whoever else runs there: the files of the
\* fetch are removed, the others stay.
Begin(w, d, o) ==
  /\ pc[w] = "idle"
  /\ runs < MaxRuns /\ runs' = runs + 1
  /\ Goto(w, "fetch")
  /\ dir' = [dir EXCEPT ![w] = d]
  /\ clashed' = IF \E v \in Workers : dir[v] = d THEN clashed \cup {d} ELSE clashed
  /\ op' = [op EXCEPT ![w] = o]
  /\ status' = [status EXCEPT ![w] = "none"]
  /\ pb' = [pb EXCEPT ![d] = ABSENT]
  /\ config' = [config EXCEPT ![d] = ABSENT]
  /\ UNCHANGED <<channel, updated, update, envelope, faults, lost>>

\* peer channel fetch.  When it fails there is no block, and nobody looks.
Fetch(w) ==
  /\ Step(w, "fetch", "translate")
  /\ \/ pb' = [pb EXCEPT ![dir[w]] = channel] /\ UNCHANGED faults
     \/ OneFault /\ UNCHANGED pb
  /\ UNCHANGED <<channel, config, updated, update, envelope, runs, lost>>

\* configtxlator and jq; without a block the redirection leaves an empty file.
Translate(w) ==
  /\ Step(w, "translate", "edit")
  /\ config' = [config EXCEPT ![dir[w]] =
                  IF IsConfig(pb[dir[w]]) THEN pb[dir[w]] ELSE EMPTY]
  /\ UNCHANGED <<channel, pb, updated, update, envelope, runs, faults, lost>>

\* Mutant: jq's "=" in place of "*": the new member instead of the others.
EditedReplaces(o, file) ==
  IF IsConfig(file)
  THEN [file EXCEPT !.members = IF o.kind = "add" THEN {o.who} ELSE @ \ {o.who}]
  ELSE EMPTY

\* What jq makes of config.json.  To add an organisation it merges two inputs,
\* of which one may be missing; to remove one it filters the only input.
Edited(o, file) ==
  IF IsConfig(file) THEN [file EXCEPT !.members = C!Applied(o, @)]
  ELSE IF o.kind = "add" THEN GARBAGE ELSE EMPTY

\* The edit; when jq fails the file is empty.
Edit(w) ==
  /\ Step(w, "edit", "diff")
  /\ \/ /\ updated' = [updated EXCEPT ![dir[w]] = Edited(op[w], config[dir[w]])]
        /\ UNCHANGED faults
     \/ OneFault /\ updated' = [updated EXCEPT ![dir[w]] = EMPTY]
  /\ UNCHANGED <<channel, pb, config, update, envelope, runs, lost>>

\* "diff" says nothing on its standard output: the files are equal, or one of
\* them is not there.
NoDifference(d) == config[d] = updated[d] \/ config[d] = ABSENT

\* The template of an organisation resets the version numbers in its entry, so
\* that adding a member once more may show a difference.
EntryReset(w) == op[w].kind = "add" /\ IsConfig(config[dir[w]])

\* Without a difference the script is done, with exit status 0.
Compare(w) ==
  /\ pc[w] = "diff"
  /\ \/ NoDifference(dir[w]) /\ Exit(w, "ok")
     \/ /\ ~NoDifference(dir[w]) \/ EntryReset(w)
        /\ Goto(w, "compute")
        /\ UNCHANGED <<dir, status>>
  /\ UNCHANGED <<channel, files, clashed, op, runs, faults, lost>>

\* Mutant: ";" in place of "&&": the last call empties update.json.
ComputeUnchained(w) ==
  LET d == dir[w] IN
  /\ Step(w, "compute", "wrap")
  /\ update' = [update EXCEPT ![d] =
       IF /\ IsConfig(config[d]) /\ IsConfig(updated[d])
          /\ config[d].members # updated[d].members
       THEN [ver |-> config[d].ver, members |-> updated[d].members]
       ELSE EMPTY]
  /\ UNCHANGED <<channel, pb, config, updated, envelope, runs, faults, lost>>

\* The "&&" chain of configtxlator calls.  It takes two configurations that
\* differ; in any other case it breaks, and update.json stays as it is.
Compute(w) ==
  LET d == dir[w] IN
  /\ Step(w, "compute", "wrap")
  /\ update' = [update EXCEPT ![d] =
       IF /\ IsConfig(config[d]) /\ IsConfig(updated[d])
          /\ config[d].members # updated[d].members
       THEN [ver |-> config[d].ver, members |-> updated[d].members]
       ELSE @]
  /\ UNCHANGED <<channel, pb, config, updated, envelope, runs, faults, lost>>

\* update.json, of this script or of an earlier one, is put into an envelope.
Wrap(w) ==
  /\ Step(w, "wrap", "submit")
  /\ envelope' = [envelope EXCEPT ![dir[w]] =
                    IF IsConfig(update[dir[w]]) THEN update[dir[w]] ELSE EMPTY]
  /\ UNCHANGED <<channel, pb, config, updated, update, runs, faults, lost>>

\* The orderer's check (external).
Acceptable(file) == IsConfig(file) /\ file.ver = channel.ver

\* Mutant: the exit status of "peer channel update" is not the script's.
SubmitBlindly(w) ==
  /\ pc[w] = "submit"
  /\ Exit(w, "ok")
  /\ channel' = IF Acceptable(envelope[dir[w]])
                THEN [envelope[dir[w]] EXCEPT !.ver = channel.ver + 1] ELSE channel
  /\ UNCHANGED <<files, clashed, op, runs, faults, lost>>

\* peer channel update, whose exit status is the script's.  The submission may
\* get lost on its way, or the answer on its way back.
Submit(w) ==
  LET file == envelope[dir[w]] IN
  /\ pc[w] = "submit"
  /\ \/ /\ Acceptable(file)
        /\ channel' = [ver |-> channel.ver + 1, members |-> file.members]
        /\ \/ Exit(w, "ok") /\ UNCHANGED lost
           \/ Exit(w, "error") /\ OneLost
     \/ ~Acceptable(file) /\ Exit(w, "error") /\ UNCHANGED <<channel, lost>>
     \/ OneLost /\ Exit(w, "error") /\ UNCHANGED channel
  /\ UNCHANGED <<files, clashed, op, runs, faults>>

Next ==
  \E w \in Workers :
    \/ \E d \in Dirs, o \in Ops : Begin(w, d, o)
    \/ Fetch(w) \/ Translate(w) \/ Edit(w) \/ Compare(w)
    \/ Compute(w) \/ Wrap(w) \/ Submit(w)

Spec == Init /\ [][Next]_vars

-------------------------------------------------------------------------------
(* Properties.                                                             *)

\* Every change of the configuration is one requested operation on the current
\* configuration: no update takes back what another host has done in between,
\* although update.json may be left over from an earlier script
\* (container-lib.sh:187-196).  Two scripts that overlap in one directory remove and
\* overwrite each other's files (container-lib.sh:134); what is submitted from there
\* is excepted, what other hosts submit is not.
AtomicUnlessClashed ==
  /\ C!Init
  /\ [][C!Next \/ \E w \in Workers : dir[w] \in clashed /\ Submit(w)]_(channel.members)

\* What test/cli/add-org-to-channel.sh:22 says of exit status 0: "Organization
\* [..] added to [..] channel".  It is stated for operations that no other one
\* undoes.
SuccessMeansDone ==
  \A w \in Workers :
    status[w] = "ok" => C!Applied(op[w], channel.members) = channel.members

\* As long as every fetch and every edit succeeds, and no two scripts overlap in one
\* directory, exit status 0 means just that, whatever the other hosts do, and
\* whichever answers of the orderer get lost and leave their update.json behind
\* (container-lib.sh:195-197).
SuccessUnlessFault == faults = 0 /\ clashed = {} => SuccessMeansDone

================================================================================
