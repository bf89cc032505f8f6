----------------------------- MODULE RaftConsenters -----------------------------
(***************************************************************************)
(* The scripts that add orderers to a Raft cluster and take them out of    *)
(* it, run on several hosts.  Like ConfigUpdate they fetch the             *)
(* configuration, edit it and submit the difference; here the edits are a  *)
(* chain of files under fixed names, some of which survive the failure of  *)
(* the command that should have replaced them.                             *)
(*                                                                         *)
(* The files of a host are its own, and what its script does between the   *)
(* fetch and the submission touches nothing else: it is one step.  The     *)
(* orderer is external: it accepts an update whose parts are computed from *)
(* the parts it has.                                                       *)
(***************************************************************************)
EXTENDS Integers, Sequences, SequencesExt

CONSTANTS
  Workers,    \* the hosts scripts run on
  Founders,   \* the orderers of the beginning, a sequence
  Ops, Alike(_),
  ABSENT, EMPTY, GARBAGE,   \* a file that is not there, has no content, or is
                            \* JSON but no configuration
  MaxRuns,    \* bound on the scripts that are run
  MaxFaults,  \* bound on failing fetches and edits
  MaxLost     \* bound on submissions, or answers to them, that get lost

Kinds == {"full", "msp", "consenter", "endpoint", "dropAddress", "dropConsenter"}

\* The second half of a removal is an operation like any other; the other operations
\* have a host, whose name ends with itself.
ASSUME OpsAssumption ==
  \A o \in Ops :
    /\ o.kind \in Kinds
    /\ o.kind = "dropAddress" => [kind |-> "dropConsenter", index |-> o.index] \in Ops
    /\ o.kind \notin {"dropAddress", "dropConsenter"} =>
         "host" \in DOMAIN o /\ o.host \in Alike(o.host)

\* The genesis block lists an orderer once.
ASSUME FoundersAssumption ==
  /\ Founders \in Seq(ToSet(Founders))
  /\ \A i, j \in DOMAIN Founders : Founders[i] = Founders[j] => i = j

ASSUME BoundsAssumption == MaxRuns \in Nat /\ MaxFaults \in Nat /\ MaxLost \in Nat

VARIABLES
  orderers,   \* the configuration at the orderer: [msps, consenters, addresses]
  ver,        \* the versions of its two parts: [group, addresses]
  files,      \* worker -> its files
  op,         \* worker -> what its script is asked for
  pc,         \* worker -> "idle", "submit", or "second" between two removals
  plain,      \* the hosts that plain scripts have listed
  fulls,      \* the hosts that a full add was run for
  mixed,      \* whether an update has been computed from files of two scripts
  broken,     \* whether a removal was interrupted, or one of its halves failed
  runs, faults, lost

bounded == <<runs, faults, lost>>
vars == <<orderers, ver, files, op, pc, plain, fulls, mixed, broken, bounded>>

R == INSTANCE RaftConfig

NoConfig == {ABSENT, EMPTY, GARBAGE}

IsConfig(file) == file \notin NoConfig

Hosts == {o.host : o \in {p \in Ops : "host" \in DOMAIN p}} \cup ToSet(Founders)

Configs == [msps : SUBSET Hosts, consenters : Seq(Hosts), addresses : Seq(Hosts)]

ASSUME FilesAssumption == \A file \in NoConfig : file \notin Configs

Init ==
  /\ orderers = [msps |-> ToSet(Founders), consenters |-> Founders, addresses |-> Founders]
  /\ ver = [group |-> 0, addresses |-> 0]
  /\ files = [w \in Workers |->
                [withMsp |-> ABSENT, withoutConsenter |-> ABSENT, withoutAddress |-> ABSENT,
                 withConsenter |-> ABSENT, updated |-> ABSENT, update |-> ABSENT]]
  /\ op = [w \in Workers |-> ABSENT] /\ pc = [w \in Workers |-> "idle"]
  /\ plain = {} /\ fulls = {} /\ mixed = FALSE /\ broken = FALSE
  /\ runs = 0 /\ faults = 0 /\ lost = 0

-------------------------------------------------------------------------------
(* The edits.  c is config.json, f the files, and failing the command of   *)
(* the script that fails, if any.                                          *)

\* jq filters the entries of a list, or appends one.  What is no configuration has
\* no list to filter; and when the command fails the output of an earlier script
\* stays.
Filtered(input, output, list, hosts, works) ==
  IF works /\ IsConfig(input) THEN [input EXCEPT ![list] = R!Without(@, hosts)] ELSE output

\* Mutant: the redirection goes to the file itself.
MergedEmptied(input, output, list, host, works) ==
  IF works /\ IsConfig(input) THEN [input EXCEPT ![list] = Append(@, host)] ELSE EMPTY

Merged(input, output, list, host, works) ==
  IF works /\ IsConfig(input) THEN [input EXCEPT ![list] = Append(@, host)] ELSE output

\* jq merges the template in; the redirection empties the file in any case.
Inserted(input, host, works) ==
  IF ~works THEN EMPTY
  ELSE IF IsConfig(input) THEN [input EXCEPT !.msps = @ \cup {host}] ELSE GARBAGE

\* raft-full-add-new-consenter.sh: the result of a removal is overwritten by the
\* one of the next command.
FullAdd(h, c, f, failing) ==
  LET msp      == Inserted(c, h, failing # "insert")
      noCons   == Filtered(msp, f.withoutConsenter, "consenters", {h},
                           failing # "removeConsenter")
      noAddr   == Filtered(noCons, f.withoutAddress, "addresses", Alike(h),
                           failing # "removeAddress")
      merged   == failing # "mergeConsenter" /\ IsConfig(noAddr)
      cons     == Merged(noAddr, f.withConsenter, "consenters", h, merged)
      complete == merged /\ failing # "mergeAddress"
  IN  [files    |-> [f EXCEPT !.withMsp = msp, !.withoutConsenter = noCons,
                              !.withoutAddress = noAddr, !.withConsenter = cons,
                              !.updated = Merged(cons, @, "addresses", h, complete)],
       complete |-> complete,
       stale    |-> failing \in {"insert", "removeConsenter", "removeAddress"}]

\* Whatever the edit results in, the others go on to the difference.
OtherEdit(o, c, f, failing) ==
  LET works == failing = "none"
      adds  == o.kind \in {"consenter", "endpoint"}
      made  == IF o.kind = "msp" THEN Inserted(c, o.host, works)
               ELSE IF works /\ IsConfig(c) THEN R!After(o, c)
               ELSE IF ~adds THEN EMPTY
               ELSE IF works THEN GARBAGE ELSE f.updated
  IN  [files |-> [f EXCEPT !.updated = made], complete |-> TRUE, stale |-> adds /\ ~works]

Edit(o, c, f, failing) ==
  IF o.kind = "full" THEN FullAdd(o.host, c, f, failing) ELSE OtherEdit(o, c, f, failing)

Commands(o) ==
  IF o.kind = "full"
  THEN {"insert", "removeConsenter", "removeAddress", "mergeConsenter", "mergeAddress"}
  ELSE {"edit"}

\* "diff" says nothing on its standard output.
NoDifference(c, updated) == c = updated \/ updated = ABSENT

\* Mutant: the update is computed from what the file holds, fetched or not.
ComputedUnfetched(c, f) ==
  IF IsConfig(f.updated) /\ c # f.updated THEN [ver |-> ver, from |-> orderers, to |-> f.updated]
  ELSE f.update

\* The "&&" chain of configtxlator: update.json stays as it is if it breaks.
Computed(c, f) ==
  IF IsConfig(c) /\ IsConfig(f.updated) /\ c # f.updated
  THEN [ver |-> ver, from |-> c, to |-> f.updated] ELSE f.update

IsRemoval(o) == o.kind \in {"dropAddress", "dropConsenter"}

Removing == {w \in Workers : pc[w] # "idle" /\ IsRemoval(op[w])}

\* Another script is run while an orderer is being removed.
Overlapping == \E w \in Removing : \E v \in Workers \ {w} : pc[v] # "idle"

\* From the fetch to the envelope.  Without a difference there is nothing to submit
\* and the script ends, which after the first half of a removal means that the
\* second one begins.  A template resets the version numbers in an entry, so that
\* adding it once more may show a difference.
Prepare(w, o, next) ==
  \E failing \in {"none", "fetch"} \cup Commands(o) :
    LET c      == IF failing = "fetch" THEN EMPTY ELSE orderers
        edit   == Edit(o, c, files[w], IF failing = "fetch" THEN "none" ELSE failing)
        update == Computed(c, edit.files)
        goesOn == edit.complete /\ ~NoDifference(c, edit.files.updated)
    IN
    /\ faults' = IF failing = "none" THEN faults ELSE faults + 1
    /\ faults' <= MaxFaults
    /\ op' = [op EXCEPT ![w] = o]
    /\ \/ /\ goesOn \/ (edit.complete /\ o.kind \in {"full", "msp"} /\ IsConfig(c))
          /\ files' = [files EXCEPT ![w] = [edit.files EXCEPT !.update = update]]
          /\ pc' = [pc EXCEPT ![w] = "submit"]
          /\ mixed' = (mixed \/ (edit.stale /\ update # files[w].update))
       \/ /\ ~goesOn
          /\ files' = [files EXCEPT ![w] = edit.files]
          /\ pc' = [pc EXCEPT ![w] = next]
          /\ UNCHANGED mixed
    /\ broken' = (broken \/ Overlapping'
                       \/ (IsRemoval(o) /\ (failing # "none" \/ pc'[w] # "submit")))

\* Mutant: the exit of the first half is the script's.
ThenExit(o) == "idle"

\* What a script does after a submission, or without one.
Then(o) == IF o.kind = "dropAddress" THEN "second" ELSE "idle"

\* A script is started.  A removal begins with the addresses.
Run(w, o) ==
  /\ pc[w] = "idle" /\ o.kind # "dropConsenter"
  /\ runs < MaxRuns /\ runs' = runs + 1
  /\ Prepare(w, o, Then(o))
  /\ plain' = IF o.kind \in {"consenter", "endpoint"} THEN plain \cup {o.host} ELSE plain
  /\ fulls' = IF o.kind = "full" THEN fulls \cup {o.host} ELSE fulls
  /\ UNCHANGED <<orderers, ver, lost>>

\* The second half of a removal: the consenter of the same index.
RunSecond(w) ==
  /\ pc[w] = "second"
  /\ Prepare(w, [kind |-> "dropConsenter", index |-> op[w].index], "idle")
  /\ UNCHANGED <<orderers, ver, plain, fulls, runs, lost>>

-------------------------------------------------------------------------------
(* The orderer (external).                                                 *)

GroupChanged(u)     == ~R!SameGroup(u.from, u.to)
AddressesChanged(u) == u.from.addresses # u.to.addresses

Acceptable(u) ==
  /\ IsConfig(u)
  /\ GroupChanged(u) => u.ver.group = ver.group
  /\ AddressesChanged(u) => u.ver.addresses = ver.addresses

Accept(u) ==
  LET group == IF GroupChanged(u) THEN u.to ELSE orderers
      addrs == IF AddressesChanged(u) THEN u.to ELSE orderers
  IN  /\ orderers' = [msps |-> group.msps, consenters |-> group.consenters,
                      addresses |-> addrs.addresses]
      /\ ver' = [group     |-> ver.group + (IF GroupChanged(u) THEN 1 ELSE 0),
                 addresses |-> ver.addresses + (IF AddressesChanged(u) THEN 1 ELSE 0)]

\* peer channel update.  The submission may get lost, or the answer, which makes no
\* difference to what the scripts do next.
Submit(w) ==
  /\ pc[w] = "submit"
  /\ \/ /\ Acceptable(files[w].update)
        /\ Accept(files[w].update)
        /\ UNCHANGED <<broken, lost>>
     \/ /\ \/ ~Acceptable(files[w].update) /\ UNCHANGED lost
           \/ lost < MaxLost /\ lost' = lost + 1
        /\ broken' = (broken \/ IsRemoval(op[w]))
        /\ UNCHANGED <<orderers, ver>>
  /\ pc' = [pc EXCEPT ![w] = Then(op[w])]
  /\ UNCHANGED <<files, op, plain, fulls, mixed, runs, faults>>

Next == \E w \in Workers : (\E o \in Ops : Run(w, o)) \/ RunSecond(w) \/ Submit(w)

Spec == Init /\ [][Next]_vars

-------------------------------------------------------------------------------
(* Properties.                                                             *)

Versions == [group : Nat, addresses : Nat]

\* What the files may hold: the output of an insertion may be empty or no
\* configuration, the one of the other commands stays as it was when they fail.
Files ==
  [withMsp : Configs \cup NoConfig, withoutConsenter : Configs \cup {ABSENT},
   withoutAddress : Configs \cup {ABSENT}, withConsenter : Configs \cup {ABSENT},
   updated : Configs \cup NoConfig,
   update : [ver : Versions, from : Configs, to : Configs] \cup {ABSENT}]

TypeOK ==
  /\ orderers \in Configs /\ ver \in Versions
  /\ files \in [Workers -> Files]
  /\ op \in [Workers -> Ops \cup {ABSENT}]
  /\ pc \in [Workers -> {"idle", "submit", "second"}]
  /\ \A w \in Workers : pc[w] = "second" => op[w].kind = "dropAddress"
  /\ plain \subseteq Hosts /\ fulls \subseteq Hosts
  /\ mixed \in BOOLEAN /\ broken \in BOOLEAN
  /\ runs \in 0 .. MaxRuns /\ faults \in 0 .. MaxFaults /\ lost \in 0 .. MaxLost

\* No script takes back what another one has done, on whichever host and with
\* whichever fetches and answers lost, unless jq has failed in a script that then
\* computed the update from the file of an earlier one
\* (raft-full-add-new-consenter.sh:33-36, container-lib.sh:161).
AtomicUnlessMixed == [][mixed' \/ R!Next]_orderers

Once(h, list) == \A i, j \in DOMAIN list : list[i] = h /\ list[j] = h => i = j

\* An orderer is listed twice only if it was added by the scripts that append
\* without a look at the list (raft-add-consenter.sh:25): a full add may be
\* repeated, and run on two hosts at a time, whatever has got lost.
ListedOnce ==
  mixed \/ \A h \in Hosts \ plain :
             Once(h, orderers.consenters) /\ Once(h, orderers.addresses)

\* The consenter and the address of an orderer have the same place in their lists,
\* which is how raft-remove-consenter.sh:9-11 finds them, unless the lists were
\* edited by the scripts that know but one of them, or another script was run during
\* a removal, or one of its halves failed.  A full add of a host whose name others
\* end with takes their addresses, but not their consenters, too (:35).
Aligned ==
  \/ mixed \/ broken \/ plain # {}
  \/ \E h \in fulls : Alike(h) # {h}
  \/ Removing # {}
  \/ orderers.consenters = orderers.addresses

===============================================================================
