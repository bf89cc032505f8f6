--------------------------- MODULE ConfigUpdateProofs ---------------------------
(***************************************************************************)
(* Proofs about the configuration updates, for any number of hosts, of     *)
(* scripts that run on each at a time, of operations and faults:           *)
(*                                                                         *)
(*   UpdateTypes     the variables keep their types.                       *)
(*   UpdatesAtomic   every change of the configuration is one requested    *)
(*                   operation on the configuration as it is, unless it    *)
(*                   comes from a directory in which scripts overlapped.   *)
(*   SuccessIsDone   where no fetch and no edit fails, and no scripts      *)
(*                   overlap in a directory, exit status 0 means that the  *)
(*                   operation has been made.                              *)
(*                                                                         *)
(* The argument: whatever file a failed step leaves behind in a directory  *)
(* that scripts use one after the other, its version says which            *)
(* configuration it was made from.  If that is the current one, a fetched  *)
(* file has the current members and an update one operation more; if not,  *)
(* the orderer will not accept it.  Whatever else is accepted makes a new  *)
(* version.                                                                *)
(* For the last theorem: without failures a script works on its own files, *)
(* and nothing that is done is undone, so that what was done in the        *)
(* configuration it fetched is done when it ends.                          *)
(***************************************************************************)
EXTENDS ConfigUpdate, TLAPS

USE DEF IsConfig, Contents, Configs, Steps

-------------------------------------------------------------------------------
(* Type correctness.                                                       *)

Busy(w) == pc[w] # "idle"

\* A file is where its script put it, and a script that is under way knows where it
\* runs and what it was asked for.
TypeInv ==
  /\ TypeOK
  /\ pb = [d \in Dirs |-> pb[d]] /\ config = [d \in Dirs |-> config[d]]
  /\ updated = [d \in Dirs |-> updated[d]] /\ update = [d \in Dirs |-> update[d]]
  /\ envelope = [d \in Dirs |-> envelope[d]]
  /\ \A w \in Workers : Busy(w) => op[w] \in Ops /\ dir[w] \in Dirs

LEMMA AppliedTyped ==
  ASSUME NEW o \in Ops, NEW set \in SUBSET Members
  PROVE  C!Applied(o, set) \in SUBSET Members
BY DEF C!Applied, Members

LEMMA TypeInit == Init => TypeInv
BY BoundsAssumption DEF Init, TypeInv, TypeOK, Busy, Members

LEMMA TypeNext == TypeInv /\ [Next]_vars => TypeInv'
<1> SUFFICES ASSUME TypeInv, [Next]_vars PROVE TypeInv'
  OBVIOUS
<1>1. ASSUME NEW w \in Workers, NEW d \in Dirs, NEW o \in Ops, Begin(w, d, o) PROVE TypeInv'
  <2>1. clashed' \subseteq Dirs /\ runs' \in 0 .. MaxRuns
    BY <1>1, BoundsAssumption DEF Begin, TypeInv, TypeOK
  <2>2. \A v \in Workers : Busy(v)' => op'[v] \in Ops /\ dir'[v] \in Dirs
    BY <1>1 DEF Begin, Goto, TypeInv, TypeOK, Busy
  <2> QED
    BY <1>1, <2>1, <2>2 DEF Begin, Goto, TypeInv, TypeOK
<1>2. ASSUME NEW w \in Workers, Fetch(w) PROVE TypeInv'
  BY <1>2, BoundsAssumption DEF Fetch, Step, Goto, OneFault, TypeInv, TypeOK, Busy
<1>3. ASSUME NEW w \in Workers, Translate(w) PROVE TypeInv'
  BY <1>3 DEF Translate, Step, Goto, TypeInv, TypeOK, Busy
<1>4. ASSUME NEW w \in Workers, Edit(w) PROVE TypeInv'
  <2>1. op[w] \in Ops /\ dir[w] \in Dirs
    BY <1>4 DEF Edit, Step, TypeInv, Busy
  <2>2. Edited(op[w], config[dir[w]]) \in Contents
    BY <2>1, AppliedTyped DEF Edited, TypeInv, TypeOK
  <2>3. /\ updated' = [updated EXCEPT ![dir[w]] = updated'[dir[w]]]
        /\ updated'[dir[w]] \in Contents
    BY <1>4, <2>1, <2>2 DEF Edit, TypeInv
  <2>4. faults' \in 0 .. MaxFaults
    BY <1>4, BoundsAssumption DEF Edit, OneFault, TypeInv, TypeOK
  <2> QED
    BY <1>4, <2>3, <2>4 DEF Edit, Step, Goto, TypeInv, TypeOK, Busy
<1>5. ASSUME NEW w \in Workers, Compare(w) PROVE TypeInv'
  BY <1>5 DEF Compare, Exit, Goto, files, TypeInv, TypeOK, Busy
<1>6. ASSUME NEW w \in Workers, Compute(w) PROVE TypeInv'
  BY <1>6 DEF Compute, Step, Goto, TypeInv, TypeOK, Busy
<1>7. ASSUME NEW w \in Workers, Wrap(w) PROVE TypeInv'
  BY <1>7 DEF Wrap, Step, Goto, TypeInv, TypeOK, Busy
<1>8. ASSUME NEW w \in Workers, Submit(w) PROVE TypeInv'
  <2>1. channel' \in Configs
    BY <1>8 DEF Submit, Acceptable, TypeInv, TypeOK, Busy
  <2>2. lost' \in 0 .. MaxLost
    BY <1>8, BoundsAssumption DEF Submit, OneLost, TypeInv, TypeOK
  <2>3. /\ UNCHANGED <<files, clashed, op, runs, faults>>
        /\ pc' = [pc EXCEPT ![w] = "idle"]
        /\ dir' = [dir EXCEPT ![w] = ABSENT]
        /\ \E r \in {"ok", "error"} : status' = [status EXCEPT ![w] = r]
    BY <1>8 DEF Submit, Exit, Goto
  <2> QED
    BY <2>1, <2>2, <2>3 DEF files, TypeInv, TypeOK, Busy
<1>9. CASE UNCHANGED vars
  BY <1>9 DEF vars, files, TypeInv, TypeOK, Busy
<1> QED
  BY <1>1, <1>2, <1>3, <1>4, <1>5, <1>6, <1>7, <1>8, <1>9 DEF Next

\* Whatever fails, and whoever else writes to the directory, no file holds anything
\* but a configuration, an empty or an aborted output, and the orderer has a
\* configuration of the organisations asked for (container-lib.sh:120-197).
THEOREM UpdateTypes == Spec => []TypeOK
<1>1. TypeInv => TypeOK
  BY DEF TypeInv
<1> QED
  BY TypeInit, TypeNext, <1>1, PTL DEF Spec

-------------------------------------------------------------------------------
(* The files of directories that scripts use one after the other.          *)

\* A configuration the orderer once had.
Fetched(file) ==
  IsConfig(file) =>
    file.ver <= channel.ver /\ (file.ver = channel.ver => file.members = channel.members)

\* An update computed from one.
Computed(file) ==
  IsConfig(file) =>
    /\ file.ver <= channel.ver
    /\ file.ver = channel.ver =>
         \E o \in Ops : file.members = C!Applied(o, channel.members)

Current(d) ==
  Fetched(pb[d]) /\ Fetched(config[d]) /\ Computed(update[d]) /\ Computed(envelope[d])

\* The result of the edit, until it is used.
EditDone(w) ==
  pc[w] \in {"diff", "compute"} /\ IsConfig(config[dir[w]]) /\ IsConfig(updated[dir[w]]) =>
    updated[dir[w]].members = C!Applied(op[w], config[dir[w]].members)

Alone(w) == \A v \in Workers : v # w /\ Busy(v) => dir[v] # dir[w]

FilesInv ==
  /\ TypeInv
  /\ \A d \in Dirs : d \notin clashed => Current(d)
  /\ \A w \in Workers : Busy(w) /\ dir[w] \notin clashed => EditDone(w) /\ Alone(w)

LEMMA FilesInit == ASSUME Init PROVE FilesInv
BY TypeInit DEF Init, FilesInv, Current, Fetched, Computed, Busy

\* The orderer accepts an update only if it was computed from the current
\* configuration, and then it is one operation.
LEMMA AcceptedIsOneOperation ==
  ASSUME FilesInv, NEW d \in Dirs, d \notin clashed, Acceptable(envelope[d])
  PROVE  \E o \in Ops : envelope[d].members = C!Applied(o, channel.members)
BY DEF FilesInv, Current, Computed, Acceptable

\* A step of one script in its directory leaves the others as they are, and the
\* files of the others that are alone.
LEMMA OthersStay ==
  ASSUME FilesInv, NEW w \in Workers, Busy(w), UNCHANGED <<channel, clashed>>,
         \A v \in Workers : v # w => pc'[v] = pc[v] /\ dir'[v] = dir[v] /\ op'[v] = op[v],
         dir'[w] = dir[w] \/ ~Busy(w)',
         \A d \in Dirs : d # dir[w] => config'[d] = config[d] /\ updated'[d] = updated[d]
  PROVE  /\ \A v \in Workers : Busy(v)' /\ dir'[v] \notin clashed' => Alone(v)'
         /\ \A v \in Workers : v # w /\ Busy(v)' /\ dir'[v] \notin clashed' => EditDone(v)'
<1>1. ASSUME NEW v \in Workers, Busy(v)', dir'[v] \notin clashed' PROVE Alone(v)'
  <2>1. Busy(v) /\ dir[v] = dir'[v] /\ dir[v] \notin clashed
    BY <1>1 DEF Busy
  <2>2. Alone(v)
    BY <2>1 DEF FilesInv
  <2>3. ASSUME NEW u \in Workers, u # v, Busy(u)' PROVE dir'[u] # dir'[v]
    <3>1. Busy(u) /\ dir'[u] = dir[u]
      BY <2>3 DEF Busy
    <3> QED
      BY <2>1, <2>2, <2>3, <3>1 DEF Alone
  <2> QED
    BY <2>3 DEF Alone
<1>2. ASSUME NEW v \in Workers, v # w, Busy(v)', dir'[v] \notin clashed' PROVE EditDone(v)'
  <2>1. Busy(v) /\ dir'[v] = dir[v] /\ pc'[v] = pc[v] /\ op'[v] = op[v] /\ dir[v] \notin clashed
    BY <1>2 DEF Busy
  <2>2. EditDone(v) /\ Alone(v) /\ dir[v] \in Dirs
    BY <2>1 DEF FilesInv, TypeInv
  <2>3. dir[v] # dir[w]
    BY <1>2, <2>2 DEF Alone
  <2> QED
    BY <2>1, <2>2, <2>3 DEF EditDone
<1> QED
  BY <1>1, <1>2

LEMMA FilesStep == ASSUME FilesInv, [Next]_vars PROVE FilesInv'
<1> USE DEF Current
<1>0. TypeInv /\ TypeInv'
  BY TypeNext DEF FilesInv
<1>1. ASSUME NEW w \in Workers, NEW d \in Dirs, NEW o \in Ops, Begin(w, d, o) PROVE FilesInv'
  <2>1. /\ \A v \in Workers : v # w => pc'[v] = pc[v] /\ dir'[v] = dir[v] /\ op'[v] = op[v]
        /\ pc'[w] = "fetch" /\ dir'[w] = d
        /\ ~Busy(w) /\ UNCHANGED <<channel, updated, update, envelope>>
        /\ \A e \in Dirs : /\ pb'[e] = IF e = d THEN ABSENT ELSE pb[e]
                           /\ config'[e] = IF e = d THEN ABSENT ELSE config[e]
        /\ clashed \subseteq clashed'
        /\ d \notin clashed' => \A v \in Workers : dir[v] # d
    BY <1>0, <1>1 DEF Begin, Goto, TypeInv, TypeOK, Busy
  <2>2. ASSUME NEW e \in Dirs, e \notin clashed' PROVE Current(e)'
    BY <2>1, <2>2 DEF FilesInv, Fetched, Computed
  <2>3. ASSUME NEW v \in Workers, Busy(v)', dir'[v] \notin clashed'
        PROVE  EditDone(v)' /\ Alone(v)'
    <3>1. CASE v = w
      BY <2>1, <2>3, <3>1 DEF EditDone, Alone, Busy
    <3>2. CASE v # w
      <4>1. Busy(v) /\ dir[v] \notin clashed /\ dir[v] # d /\ dir[v] \in Dirs
        BY <1>0, <2>1, <2>3, <3>2 DEF Busy, TypeInv
      <4>2. EditDone(v) /\ Alone(v)
        BY <4>1 DEF FilesInv
      <4> QED
        BY <2>1, <3>2, <4>1, <4>2 DEF EditDone, Alone, Busy
    <3> QED
      BY <3>1, <3>2
  <2> QED
    BY <1>0, <2>2, <2>3 DEF FilesInv
<1>2. ASSUME NEW w \in Workers, Fetch(w) PROVE FilesInv'
  <2>1. /\ Busy(w) /\ pc'[w] = "translate"
        /\ \A v \in Workers : v # w => pc'[v] = pc[v]
        /\ UNCHANGED <<channel, clashed, dir, op, config, updated, update, envelope>>
    BY <1>0, <1>2 DEF Fetch, Step, Goto, Busy, TypeInv, TypeOK
  <2>2. ASSUME NEW e \in Dirs, e \notin clashed' PROVE Current(e)'
    BY <1>0, <1>2, <2>1, <2>2 DEF Fetch, FilesInv, TypeInv, TypeOK, Fetched, Computed
  <2>3. EditDone(w)'
    BY <2>1 DEF EditDone
  <2> QED
    BY <1>0, <2>1, <2>2, <2>3, OthersStay DEF FilesInv
<1>3. ASSUME NEW w \in Workers, Translate(w) PROVE FilesInv'
  <2>1. /\ Busy(w) /\ pc'[w] = "edit" /\ dir[w] \in Dirs
        /\ \A v \in Workers : v # w => pc'[v] = pc[v]
        /\ UNCHANGED <<channel, clashed, dir, op, pb, updated, update, envelope>>
        /\ \A e \in Dirs : e # dir[w] => config'[e] = config[e]
        /\ config'[dir[w]] = IF IsConfig(pb[dir[w]]) THEN pb[dir[w]] ELSE EMPTY
    BY <1>0, <1>3 DEF Translate, Step, Goto, Busy, TypeInv, TypeOK
  <2>2. ASSUME NEW e \in Dirs, e \notin clashed' PROVE Current(e)'
    BY <2>1, <2>2 DEF FilesInv, Fetched, Computed
  <2>3. EditDone(w)'
    BY <2>1 DEF EditDone
  <2> QED
    BY <1>0, <2>1, <2>2, <2>3, OthersStay DEF FilesInv
<1>4. ASSUME NEW w \in Workers, Edit(w) PROVE FilesInv'
  <2>1. /\ Busy(w) /\ dir[w] \in Dirs
        /\ \A v \in Workers : v # w => pc'[v] = pc[v]
        /\ UNCHANGED <<channel, clashed, dir, op, pb, config, update, envelope>>
        /\ \A e \in Dirs : e # dir[w] => updated'[e] = updated[e]
        /\ updated'[dir[w]] \in {Edited(op[w], config[dir[w]]), EMPTY}
    BY <1>0, <1>4 DEF Edit, Step, Goto, Busy, TypeInv, TypeOK
  <2>2. ASSUME NEW e \in Dirs, e \notin clashed' PROVE Current(e)'
    BY <2>1, <2>2 DEF FilesInv, Fetched, Computed
  <2>3. EditDone(w)'
    <3>1. config[dir[w]] \in Contents
      BY <1>0, <2>1 DEF TypeInv, TypeOK
    <3>2. IsConfig(config[dir[w]]) =>
            Edited(op[w], config[dir[w]]).members = C!Applied(op[w], config[dir[w]].members)
      BY <3>1 DEF Edited
    <3> QED
      BY <2>1, <3>2 DEF EditDone
  <2> QED
    BY <1>0, <2>1, <2>2, <2>3, OthersStay DEF FilesInv
<1>5. ASSUME NEW w \in Workers, Compare(w) PROVE FilesInv'
  <2>1. /\ Busy(w) /\ pc[w] = "diff"
        /\ \A v \in Workers : v # w => pc'[v] = pc[v] /\ dir'[v] = dir[v]
        /\ pc'[w] = "idle" \/ (pc'[w] = "compute" /\ dir'[w] = dir[w])
        /\ UNCHANGED <<channel, clashed, op, pb, config, updated, update, envelope>>
    BY <1>0, <1>5 DEF Compare, Exit, Goto, files, Busy, TypeInv, TypeOK
  <2>2. ASSUME NEW e \in Dirs, e \notin clashed' PROVE Current(e)'
    BY <2>1, <2>2 DEF FilesInv, Fetched, Computed
  <2>3. Busy(w)' /\ dir'[w] \notin clashed' => EditDone(w)'
    BY <2>1 DEF EditDone, FilesInv, Busy
  <2> QED
    BY <1>0, <2>1, <2>2, <2>3, OthersStay DEF FilesInv, Busy
<1>6. ASSUME NEW w \in Workers, Compute(w) PROVE FilesInv'
  <2>1. /\ Busy(w) /\ pc[w] = "compute" /\ pc'[w] = "wrap" /\ dir[w] \in Dirs
        /\ \A v \in Workers : v # w => pc'[v] = pc[v]
        /\ UNCHANGED <<channel, clashed, dir, op, pb, config, updated, envelope>>
        /\ \A e \in Dirs : e # dir[w] => update'[e] = update[e]
    BY <1>0, <1>6 DEF Compute, Step, Goto, Busy, TypeInv, TypeOK
  <2>2. dir[w] \notin clashed => Computed(update[dir[w]])'
    <3> SUFFICES ASSUME dir[w] \notin clashed PROVE Computed(update[dir[w]])'
      OBVIOUS
    <3>1. EditDone(w) /\ Fetched(config[dir[w]]) /\ Computed(update[dir[w]]) /\ op[w] \in Ops
      BY <2>1 DEF FilesInv, TypeInv
    <3>2. \/ update'[dir[w]] = update[dir[w]]
          \/ /\ IsConfig(config[dir[w]]) /\ IsConfig(updated[dir[w]])
             /\ update'[dir[w]] = [ver |-> config[dir[w]].ver, members |-> updated[dir[w]].members]
      BY <1>0, <1>6, <2>1 DEF Compute, TypeInv
    <3> QED
      BY <2>1, <3>1, <3>2 DEF EditDone, Fetched, Computed
  <2>3. ASSUME NEW e \in Dirs, e \notin clashed' PROVE Current(e)'
    BY <2>1, <2>2, <2>3 DEF FilesInv, Fetched, Computed
  <2>4. EditDone(w)'
    BY <2>1 DEF EditDone
  <2> QED
    BY <1>0, <2>1, <2>3, <2>4, OthersStay DEF FilesInv
<1>7. ASSUME NEW w \in Workers, Wrap(w) PROVE FilesInv'
  <2>1. /\ Busy(w) /\ pc'[w] = "submit" /\ dir[w] \in Dirs
        /\ \A v \in Workers : v # w => pc'[v] = pc[v]
        /\ UNCHANGED <<channel, clashed, dir, op, pb, config, updated, update>>
        /\ \A e \in Dirs : e # dir[w] => envelope'[e] = envelope[e]
        /\ envelope'[dir[w]] = IF IsConfig(update[dir[w]]) THEN update[dir[w]] ELSE EMPTY
    BY <1>0, <1>7 DEF Wrap, Step, Goto, Busy, TypeInv, TypeOK
  <2>2. ASSUME NEW e \in Dirs, e \notin clashed' PROVE Current(e)'
    BY <2>1, <2>2 DEF FilesInv, Fetched, Computed
  <2>3. EditDone(w)'
    BY <2>1 DEF EditDone
  <2> QED
    BY <1>0, <2>1, <2>2, <2>3, OthersStay DEF FilesInv
<1>8. ASSUME NEW w \in Workers, Submit(w) PROVE FilesInv'
  <2>1. /\ Busy(w) /\ ~Busy(w)'
        /\ \A v \in Workers : v # w => pc'[v] = pc[v] /\ dir'[v] = dir[v]
        /\ UNCHANGED <<clashed, op, pb, config, updated, update, envelope>>
    BY <1>0, <1>8 DEF Submit, Exit, Goto, files, Busy, TypeInv, TypeOK
  <2>2. ASSUME NEW e \in Dirs, e \notin clashed' PROVE Current(e)'
    <3>1. Current(e)
      BY <2>1, <2>2 DEF FilesInv
    <3>2. CASE UNCHANGED channel
      BY <2>1, <3>1, <3>2 DEF Fetched, Computed
    <3>3. CASE channel' = [ver |-> channel.ver + 1, members |-> envelope[dir[w]].members]
      <4>1. channel'.ver = channel.ver + 1 /\ channel.ver \in Nat
        BY <1>0, <3>3 DEF TypeInv, TypeOK
      <4>2. \A file \in {pb[e], config[e], update[e], envelope[e]} :
              IsConfig(file) => file.ver \in Nat
        BY <1>0 DEF TypeInv, TypeOK
      <4> QED
        BY <2>1, <3>1, <4>1, <4>2 DEF Fetched, Computed
    <3> QED
      BY <1>8, <3>2, <3>3 DEF Submit
  <2>3. ASSUME NEW v \in Workers, Busy(v)', dir'[v] \notin clashed'
        PROVE  EditDone(v)' /\ Alone(v)'
    <3>1. v # w /\ Busy(v) /\ dir[v] \notin clashed
      BY <2>1, <2>3 DEF Busy
    <3>2. EditDone(v) /\ Alone(v)
      BY <3>1 DEF FilesInv
    <3> QED
      BY <2>1, <3>1, <3>2 DEF EditDone, Alone, Busy
  <2> QED
    BY <1>0, <2>2, <2>3 DEF FilesInv
<1>9. CASE UNCHANGED vars
  BY <1>0, <1>9 DEF vars, files, FilesInv, Fetched, Computed, Busy, EditDone, Alone
<1> QED
  BY <1>1, <1>2, <1>3, <1>4, <1>5, <1>6, <1>7, <1>8, <1>9 DEF Next

\* Whatever files failed steps leave behind: once there is a version the
\* orderer checks, what it accepts was made from what it has
\* (container-lib.sh:120-197).
LEMMA FilesCurrent == Spec => []FilesInv
BY FilesInit, FilesStep, PTL DEF Spec

-------------------------------------------------------------------------------
(* Refinement of ChannelConfig.                                            *)

FromClashed == \E w \in Workers : dir[w] \in clashed /\ Submit(w)

LEMMA StepRefines ==
  ASSUME FilesInv, [Next]_vars PROVE [C!Next \/ FromClashed]_(channel.members)
<1>1. ASSUME NEW w \in Workers, Submit(w) PROVE [C!Next \/ FromClashed]_(channel.members)
  <2>1. CASE UNCHANGED channel
    BY <2>1
  <2>2. CASE dir[w] \in clashed
    BY <1>1, <2>2 DEF FromClashed
  <2>3. CASE /\ channel' = [ver |-> channel.ver + 1, members |-> envelope[dir[w]].members]
             /\ Acceptable(envelope[dir[w]]) /\ dir[w] \notin clashed
    <3>1. dir[w] \in Dirs
      BY <1>1 DEF Submit, FilesInv, TypeInv, Busy
    <3> QED
      BY <2>3, <3>1, AcceptedIsOneOperation DEF C!Next, C!Applied
  <2> QED
    BY <1>1, <2>1, <2>2, <2>3 DEF Submit
<1>2. CASE UNCHANGED channel
  BY <1>2
<1> QED
  BY <1>1, <1>2 DEF Next, vars, Begin, Fetch, Translate, Edit, Compare, Compute, Wrap

\* No update takes back what another host has done in between, and none does
\* more than was asked for, although steps fail, answers get lost and files of
\* earlier scripts stay in the directory (container-lib.sh:176-197), unless it is
\* submitted from a directory in which scripts have overlapped: the damage that
\* these do to each other's files does not go beyond their own submissions.
THEOREM UpdatesAtomic == Spec => AtomicUnlessClashed
<1>1. Init => C!Init
  BY DEF Init, C!Init
<1>2. FilesInv /\ [Next]_vars =>
        [C!Next \/ \E w \in Workers : dir[w] \in clashed /\ Submit(w)]_(channel.members)
  BY StepRefines DEF FromClashed
<1> QED
  BY <1>1, <1>2, FilesCurrent, PTL DEF Spec, AtomicUnlessClashed

-------------------------------------------------------------------------------
(* Exit status 0.                                                          *)

\* No operation undoes another one.
NothingUndone == \A o, p \in Ops : o.who = p.who => o.kind = p.kind

Done(o, set) == C!Applied(o, set) = set

\* What was done in a configuration that was fetched is still done.
StillDone(file) ==
  IsConfig(file) => \A o \in Ops : Done(o, file.members) => Done(o, channel.members)

\* The script's operation has been made, or the file makes it.
Makes(w, file) ==
  \/ Done(op[w], channel.members)
  \/ IsConfig(file) /\ Done(op[w], file.members)

\* What the files are good for in a script that met no fault.
FilesServe(w) ==
  LET d == dir[w] IN
    /\ StillDone(pb[d]) /\ StillDone(config[d])
    /\ pc[w] = "translate" => IsConfig(pb[d])
    /\ pc[w] \in {"edit", "diff", "compute"} => IsConfig(config[d])
    /\ pc[w] \in {"diff", "compute"} => updated[d] = Edited(op[w], config[d])
    /\ pc[w] = "wrap" => Makes(w, update[d])
    /\ pc[w] = "submit" => Makes(w, envelope[d])

Knows(w) ==
  /\ Busy(w) => FilesServe(w)
  /\ status[w] = "ok" => op[w] \in Ops /\ Done(op[w], channel.members)

Undisturbed == faults = 0 /\ clashed = {}

DoneInv == FilesInv /\ (Undisturbed => \A w \in Workers : Knows(w))

LEMMA AppliedIsDone == ASSUME NEW o \in Ops, NEW set PROVE Done(o, C!Applied(o, set))
BY DEF Done, C!Applied

LEMMA DoneStays ==
  ASSUME NothingUndone, NEW o \in Ops, NEW p \in Ops, NEW set, Done(o, set)
  PROVE  Done(o, C!Applied(p, set))
BY OpsAssumption DEF NothingUndone, Done, C!Applied

LEMMA DoneInit == Init => DoneInv
BY FilesInit DEF Init, DoneInv, Knows, Busy

\* A step that leaves the files of a script alone, and the script, and the channel.
LEMMA OthersKnow ==
  ASSUME NEW v \in Workers, Knows(v), UNCHANGED channel,
         Busy(v) => LET d == dir[v] IN
                      /\ pb'[d] = pb[d] /\ config'[d] = config[d] /\ updated'[d] = updated[d]
                      /\ update'[d] = update[d] /\ envelope'[d] = envelope[d],
         pc'[v] = pc[v], dir'[v] = dir[v], op'[v] = op[v], status'[v] = status[v]
  PROVE  Knows(v)'
BY DEF Knows, FilesServe, StillDone, Makes, Edited, Busy

\* A script keeps its files to itself.
LEMMA Apart ==
  ASSUME FilesInv, Undisturbed, NEW w \in Workers, NEW v \in Workers, v # w, Busy(w), Busy(v)
  PROVE  dir[v] # dir[w]
BY DEF FilesInv, Undisturbed, Alone

\* Faults and clashes are not forgotten.
LEMMA StaysDisturbed == ASSUME FilesInv, [Next]_vars, Undisturbed' PROVE Undisturbed
<1>1. faults \in Nat /\ clashed \subseteq clashed' /\ (faults' = faults \/ faults' = faults + 1)
  <2>1. ASSUME NEW w \in Workers, NEW d \in Dirs, NEW o \in Ops, Begin(w, d, o)
        PROVE  clashed \subseteq clashed' /\ faults' = faults
    BY <2>1 DEF Begin
  <2>2. ASSUME NEW w \in Workers,
               Fetch(w) \/ Translate(w) \/ Edit(w) \/ Compute(w) \/ Wrap(w)
        PROVE  clashed' = clashed /\ (faults' = faults \/ faults' = faults + 1)
    BY <2>2 DEF Fetch, Translate, Edit, Compute, Wrap, Step, OneFault
  <2>3. ASSUME NEW w \in Workers, Compare(w) \/ Submit(w)
        PROVE  clashed' = clashed /\ faults' = faults
    BY <2>3 DEF Compare, Submit
  <2>4. ASSUME UNCHANGED vars PROVE clashed' = clashed /\ faults' = faults
    BY <2>4 DEF vars
  <2> QED
    BY <2>1, <2>2, <2>3, <2>4 DEF Next, FilesInv, TypeInv, TypeOK
<1> QED
  BY <1>1 DEF Undisturbed

\* Every step of a script keeps what the files are good for.
LEMMA KnowsNext ==
  ASSUME NothingUndone, DoneInv, [Next]_vars, Undisturbed'
  PROVE  \A v \in Workers : Knows(v)'
<1>0. /\ Undisturbed /\ FilesInv /\ TypeInv /\ TypeOK
      /\ \A v \in Workers : Knows(v)
      /\ \A v \in Workers : Busy(v) => op[v] \in Ops /\ dir[v] \in Dirs
      /\ faults = 0 /\ clashed = {} /\ faults' = 0 /\ clashed' = {}
  BY StaysDisturbed DEF DoneInv, FilesInv, TypeInv, Undisturbed
<1>1. ASSUME NEW w \in Workers, NEW d \in Dirs, NEW o \in Ops, Begin(w, d, o)
      PROVE  \A v \in Workers : Knows(v)'
  <2>1. /\ \A v \in Workers : dir[v] # d
        /\ \A v \in Workers : v # w => /\ pc'[v] = pc[v] /\ dir'[v] = dir[v]
                                       /\ op'[v] = op[v] /\ status'[v] = status[v]
        /\ pc'[w] = "fetch" /\ dir'[w] = d /\ status'[w] = "none"
        /\ UNCHANGED <<channel, updated, update, envelope>>
        /\ \A e \in Dirs : /\ pb'[e] = IF e = d THEN ABSENT ELSE pb[e]
                           /\ config'[e] = IF e = d THEN ABSENT ELSE config[e]
    BY <1>0, <1>1 DEF Begin, Goto, TypeInv, TypeOK
  <2>2. ASSUME NEW v \in Workers, v # w PROVE Knows(v)'
    BY <1>0, <2>1, <2>2, OthersKnow
  <2>3. Knows(w)'
    BY <2>1 DEF Knows, FilesServe, StillDone
  <2> QED
    BY <2>2, <2>3
<1>2. ASSUME NEW w \in Workers, Fetch(w) PROVE \A v \in Workers : Knows(v)'
  <2>1. /\ Busy(w) /\ dir[w] \in Dirs /\ pc'[w] = "translate"
        /\ \A v \in Workers : v # w => pc'[v] = pc[v]
        /\ UNCHANGED <<channel, dir, op, status, config, updated, update, envelope>>
        /\ pb' = [pb EXCEPT ![dir[w]] = channel]
    BY <1>0, <1>2 DEF Fetch, Step, Goto, OneFault, Busy, TypeOK
  <2>2. ASSUME NEW v \in Workers, v # w PROVE Knows(v)'
    BY <1>0, <2>1, <2>2, Apart, OthersKnow
  <2>3. pb'[dir[w]] = channel /\ channel \in Configs
    BY <1>0, <2>1 DEF TypeInv, TypeOK
  <2>4. FilesServe(w) /\ (status[w] = "ok" => op[w] \in Ops /\ Done(op[w], channel.members))
    BY <1>0, <2>1 DEF Knows
  <2>5. FilesServe(w)'
    BY <2>1, <2>3, <2>4, FilesAssumption DEF FilesServe, StillDone
  <2>6. Knows(w)'
    BY <2>1, <2>4, <2>5 DEF Knows, Done
  <2> QED
    BY <2>2, <2>6
<1>3. ASSUME NEW w \in Workers, Translate(w) PROVE \A v \in Workers : Knows(v)'
  <2>1. /\ Busy(w) /\ dir[w] \in Dirs /\ pc[w] = "translate" /\ pc'[w] = "edit"
        /\ \A v \in Workers : v # w => pc'[v] = pc[v]
        /\ UNCHANGED <<channel, dir, op, status, pb, updated, update, envelope>>
        /\ \A e \in Dirs : e # dir[w] => config'[e] = config[e]
        /\ config'[dir[w]] = IF IsConfig(pb[dir[w]]) THEN pb[dir[w]] ELSE EMPTY
    BY <1>0, <1>3 DEF Translate, Step, Goto, Busy, TypeInv, TypeOK
  <2>2. ASSUME NEW v \in Workers, v # w PROVE Knows(v)'
    BY <1>0, <2>1, <2>2, Apart, OthersKnow
  <2>3. FilesServe(w) /\ (status[w] = "ok" => op[w] \in Ops /\ Done(op[w], channel.members))
    BY <1>0, <2>1 DEF Knows
  <2>4. FilesServe(w)'
    BY <2>1, <2>3 DEF FilesServe, StillDone
  <2>5. Knows(w)'
    BY <2>1, <2>3, <2>4 DEF Knows, Done
  <2> QED
    BY <2>2, <2>5
<1>4. ASSUME NEW w \in Workers, Edit(w) PROVE \A v \in Workers : Knows(v)'
  <2>1. /\ Busy(w) /\ dir[w] \in Dirs /\ pc[w] = "edit" /\ pc'[w] = "diff"
        /\ \A v \in Workers : v # w => pc'[v] = pc[v]
        /\ UNCHANGED <<channel, dir, op, status, pb, config, update, envelope>>
        /\ \A e \in Dirs : e # dir[w] => updated'[e] = updated[e]
        /\ updated'[dir[w]] = Edited(op[w], config[dir[w]])
    BY <1>0, <1>4 DEF Edit, Step, Goto, OneFault, Busy, TypeInv, TypeOK
  <2>2. ASSUME NEW v \in Workers, v # w PROVE Knows(v)'
    BY <1>0, <2>1, <2>2, Apart, OthersKnow
  <2>3. FilesServe(w) /\ (status[w] = "ok" => op[w] \in Ops /\ Done(op[w], channel.members))
    BY <1>0, <2>1 DEF Knows
  <2>4. FilesServe(w)'
    BY <2>1, <2>3 DEF FilesServe, StillDone, Edited
  <2>5. Knows(w)'
    BY <2>1, <2>3, <2>4 DEF Knows, Done
  <2> QED
    BY <2>2, <2>5
<1>5. ASSUME NEW w \in Workers, Compare(w) PROVE \A v \in Workers : Knows(v)'
  <2>1. /\ Busy(w) /\ dir[w] \in Dirs /\ op[w] \in Ops /\ pc[w] = "diff"
        /\ \A v \in Workers : v # w => /\ pc'[v] = pc[v] /\ dir'[v] = dir[v]
                                       /\ status'[v] = status[v]
        /\ UNCHANGED <<channel, op, pb, config, updated, update, envelope>>
        /\ \/ pc'[w] = "idle" /\ NoDifference(dir[w])
           \/ pc'[w] = "compute" /\ dir'[w] = dir[w] /\ status'[w] = status[w]
    BY <1>0, <1>5 DEF Compare, Exit, Goto, files, Busy, TypeOK
  <2>2. ASSUME NEW v \in Workers, v # w PROVE Knows(v)'
    BY <1>0, <2>1, <2>2, OthersKnow
  <2>3. FilesServe(w) /\ (status[w] = "ok" => Done(op[w], channel.members))
    BY <1>0, <2>1 DEF Knows
  <2>4. ASSUME pc'[w] = "idle", NoDifference(dir[w]) PROVE Knows(w)'
    <3>1. config[dir[w]] = updated[dir[w]] /\ config[dir[w]] \in Configs
      BY <1>0, <2>1, <2>3, <2>4 DEF NoDifference, FilesServe, TypeInv, TypeOK
    <3>2. Done(op[w], config[dir[w]].members)
      BY <2>1, <2>3, <3>1 DEF FilesServe, Edited, Done
    <3>3. Done(op[w], channel.members)
      BY <2>1, <2>3, <3>2 DEF FilesServe, StillDone
    <3> QED
      BY <2>1, <2>4, <3>3 DEF Knows, Busy, Done
  <2>5. ASSUME pc'[w] = "compute", dir'[w] = dir[w], status'[w] = status[w] PROVE Knows(w)'
    <3>1. FilesServe(w)'
      BY <2>1, <2>3, <2>5 DEF FilesServe, StillDone, Edited
    <3> QED
      BY <2>1, <2>3, <2>5, <3>1 DEF Knows, Done
  <2> QED
    BY <2>1, <2>2, <2>4, <2>5
<1>6. ASSUME NEW w \in Workers, Compute(w) PROVE \A v \in Workers : Knows(v)'
  <2>1. /\ Busy(w) /\ dir[w] \in Dirs /\ op[w] \in Ops /\ pc[w] = "compute" /\ pc'[w] = "wrap"
        /\ \A v \in Workers : v # w => pc'[v] = pc[v]
        /\ UNCHANGED <<channel, dir, op, status, pb, config, updated, envelope>>
        /\ \A e \in Dirs : e # dir[w] => update'[e] = update[e]
    BY <1>0, <1>6 DEF Compute, Step, Goto, Busy, TypeInv, TypeOK
  <2>2. ASSUME NEW v \in Workers, v # w PROVE Knows(v)'
    BY <1>0, <2>1, <2>2, Apart, OthersKnow
  <2>3. FilesServe(w) /\ (status[w] = "ok" => Done(op[w], channel.members))
    BY <1>0, <2>1 DEF Knows
  <2> DEFINE old == config[dir[w]]
             new == updated[dir[w]]
             result == update'[dir[w]]
  <2>4. /\ old \in Configs /\ IsConfig(old) /\ StillDone(old)
        /\ new = [old EXCEPT !.members = C!Applied(op[w], old.members)]
    BY <1>0, <2>1, <2>3 DEF FilesServe, Edited, TypeInv, TypeOK
  <2>5. /\ result = IF IsConfig(old) /\ IsConfig(new) /\ old.members # new.members
                    THEN [ver |-> old.ver, members |-> new.members] ELSE update[dir[w]]
    BY <1>0, <1>6, <2>1 DEF Compute, TypeInv
  <2> HIDE DEF old, new, result
  <2>6. new \in Configs /\ new.members = C!Applied(op[w], old.members)
    BY <2>1, <2>4, AppliedTyped
  <2>7. Makes(w, result)
    <3>1. CASE old.members = new.members
      BY <2>1, <2>4, <2>6, <3>1 DEF Done, StillDone, Makes
    <3>2. CASE old.members # new.members
      <4>1. result = [ver |-> old.ver, members |-> new.members]
        BY <2>4, <2>5, <2>6, <3>2, FilesAssumption
      <4>2. result \in Configs /\ result.members = C!Applied(op[w], old.members)
        BY <2>4, <2>6, <4>1
      <4> QED
        BY <2>1, <4>2, AppliedIsDone, FilesAssumption DEF Makes
    <3> QED
      BY <3>1, <3>2
  <2>8. Makes(w, update[dir[w]])'
    BY <2>1, <2>7 DEF Makes, Done, result
  <2>9. FilesServe(w)'
    BY <2>1, <2>3, <2>8 DEF FilesServe, StillDone
  <2>10. Knows(w)'
    BY <2>1, <2>3, <2>9 DEF Knows, Done
  <2> QED
    BY <2>2, <2>10
<1>7. ASSUME NEW w \in Workers, Wrap(w) PROVE \A v \in Workers : Knows(v)'
  <2>1. /\ Busy(w) /\ dir[w] \in Dirs /\ op[w] \in Ops /\ pc[w] = "wrap" /\ pc'[w] = "submit"
        /\ \A v \in Workers : v # w => pc'[v] = pc[v]
        /\ UNCHANGED <<channel, dir, op, status, pb, config, updated, update>>
        /\ \A e \in Dirs : e # dir[w] => envelope'[e] = envelope[e]
        /\ envelope'[dir[w]] = IF IsConfig(update[dir[w]]) THEN update[dir[w]] ELSE EMPTY
    BY <1>0, <1>7 DEF Wrap, Step, Goto, Busy, TypeInv, TypeOK
  <2>2. ASSUME NEW v \in Workers, v # w PROVE Knows(v)'
    BY <1>0, <2>1, <2>2, Apart, OthersKnow
  <2>3. FilesServe(w) /\ (status[w] = "ok" => Done(op[w], channel.members))
    BY <1>0, <2>1 DEF Knows
  <2>4. Makes(w, envelope[dir[w]])'
    BY <2>1, <2>3 DEF FilesServe, Makes, Done
  <2>5. FilesServe(w)'
    BY <2>1, <2>3, <2>4 DEF FilesServe, StillDone
  <2>6. Knows(w)'
    BY <2>1, <2>3, <2>5 DEF Knows, Done
  <2> QED
    BY <2>2, <2>6
<1>8. ASSUME NEW w \in Workers, Submit(w) PROVE \A v \in Workers : Knows(v)'
  <2>1. /\ Busy(w) /\ dir[w] \in Dirs /\ op[w] \in Ops /\ pc[w] = "submit" /\ pc'[w] = "idle"
        /\ \A v \in Workers : v # w => /\ pc'[v] = pc[v] /\ dir'[v] = dir[v]
                                       /\ status'[v] = status[v]
        /\ UNCHANGED <<op, pb, config, updated, update, envelope>>
        /\ status'[w] = "ok" => channel'.members = envelope[dir[w]].members
    <3>1. "ok" # "error"
      OBVIOUS
    <3> QED
      BY <1>0, <1>8, <3>1 DEF Submit, Exit, Goto, files, Busy, TypeOK
  \* What is done stays done.
  <2>2. ASSUME NEW o \in Ops, Done(o, channel.members) PROVE Done(o, channel.members)'
    <3>1. CASE UNCHANGED channel
      BY <2>2, <3>1 DEF Done
    <3>2. CASE channel' = [ver |-> channel.ver + 1, members |-> envelope[dir[w]].members]
               /\ Acceptable(envelope[dir[w]])
      <4>1. PICK p \in Ops : envelope[dir[w]].members = C!Applied(p, channel.members)
        BY <1>0, <2>1, <3>2, AcceptedIsOneOperation
      <4> QED
        BY <2>2, <3>2, <4>1, DoneStays
    <3> QED
      BY <1>8, <3>1, <3>2 DEF Submit
  <2>3. ASSUME NEW v \in Workers, v # w PROVE Knows(v)'
    <3>1. ASSUME Busy(v) PROVE FilesServe(v)'
      <4>1. FilesServe(v) /\ op[v] \in Ops /\ dir'[v] = dir[v] /\ pc'[v] = pc[v]
        BY <1>0, <2>1, <2>3, <3>1 DEF Knows
      <4> QED
        BY <2>1, <2>2, <4>1 DEF FilesServe, StillDone, Makes, Edited
    <3> QED
      BY <1>0, <2>1, <2>2, <2>3, <3>1 DEF Knows, Busy
  <2>4. status'[w] = "ok" => Done(op[w], channel.members)'
    <3>1. Makes(w, envelope[dir[w]])
      BY <1>0, <2>1 DEF Knows, FilesServe
    <3> QED
      BY <2>1, <2>2, <3>1 DEF Makes, Done
  <2>5. Knows(w)'
    BY <2>1, <2>4 DEF Knows, Busy
  <2> QED
    BY <2>3, <2>5
<1>9. CASE UNCHANGED vars
  BY <1>0, <1>9, OthersKnow DEF vars, files
<1> QED
  BY <1>1, <1>2, <1>3, <1>4, <1>5, <1>6, <1>7, <1>8, <1>9 DEF Next

\* Where every fetch and every edit succeeds, and no scripts overlap in a directory,
\* exit status 0 means that the operation has been made and has stayed, for any
\* number of hosts and lost answers, and whatever update.json they leave behind
\* (container-lib.sh:181-197).
THEOREM SuccessIsDone ==
  ASSUME NothingUndone PROVE Spec => []SuccessUnlessFault
<1>1. Init => DoneInv
  BY DoneInit
<1>2. DoneInv /\ [Next]_vars => DoneInv'
  BY FilesStep, KnowsNext DEF DoneInv
<1>3. DoneInv => SuccessUnlessFault
  BY DEF DoneInv, Undisturbed, Knows, Done, SuccessUnlessFault, SuccessMeansDone
<1> QED
  BY <1>1, <1>2, <1>3, PTL DEF Spec

================================================================================
