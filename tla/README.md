# Fabric-starter in TLA+

Fabric-starter boots and operates a Hyperledger Fabric network: shell scripts
that run in containers and on the hosts, a chaincode that serves as the
registry of the network's nodes, a middleware that keeps the hosts files in
step with it, and sample chaincodes with a web application. This directory
holds TLA+ models of the parts whose behaviour depends on who runs when and on
what fails, their TLC configurations, and proofs checked by TLAPS.

## 1. The system

| Component | State | Operations | Interacts with |
|---|---|---|---|
| Service registry, `chaincode/2x/node/dns`; older copies `chaincode/node/dns` (1.x), `chaincode/2x/java/dns` | ledger keys `dns`, `orgs`, `osn`, each one JSON object; in Node.js the field `this.stub` of the process | `registerOrg`, `registerOrderer` and their `ByParams` forms, `get` | called by the bootstrap scripts, the REST server and the middleware |
| Name service, `middleware/_dns._js` | hosts files, client object, `blockListenerStarted`, `inProcess`, known organisations | timer, block events, login, three queries, certificate downloads | queries the registry, its hosts files are mounted in the other containers |
| Configuration updates, `container-scripts/lib/container-lib.sh` and `ops`, `network`, `orderer` | files in `GENERATE_DIR`; the configuration at the orderer | fetch, translate, edit, diff, compute, wrap, submit | the orderer; the scripts of other hosts |
| Raft consenter scripts, `container-scripts/orderer`, `ops` | the same files and a chain of intermediate ones; the lists of consenters and addresses | full add; add MSP, consenter, endpoint; remove by index | the same |
| Service channel bootstrap, `container-scripts/init-in-open-net.sh` | the channel, who has joined, what is approved and committed, who is registered | create, set anchor peers, invite, join, approve, commit, register | orderer, registry, REST server of the first organisation |
| Chaincode lifecycle, `lib/2x/version-specifics.sh` | approved and committed sequence numbers | package, install, approve, check readiness, commit | peers of several organisations |
| Sample account chaincodes (`example02` in Go, Node.js, Java) | one ledger key per account | init, transfer, delete, query | clients |
| Token contract (Scala) | accounts, history of operations | transfer, getTokens, queries | the web application |
| Token transfer web application | token and table profiles in the local storage, socket, page, table with its columns, messages, requests under way | login, logout, queries, calls, block events; ticking, filtering and storing columns | REST server, socket, token contract, other tabs through the local storage |
| Crypto material and genesis, `container-orderer.sh`, `container-peer.sh` | certificates, genesis block on a volume | generate unless present | every start of a node |
| Raft cluster start, `raft/` | progress of a joining orderer | prepare, add MSP, add consenter, start, update endpoints | consenter scripts on another host |
| Backup and restore, `lib/backup-point.sh`, `lib/restore-point.sh` | copies of volumes | save, restore | all containers |
| Host orchestration, `deploy.sh`, `network-create.sh`, `lib.sh`, ... | none of its own | sequences of docker-compose and ssh calls | starts all of the above |

The hard behaviour:

* the registry's processes run several invocations at a time that share one
  object, and several peers change the same three JSON objects concurrently;
* the middleware's calls overlap at every `await`, and its login replaces an
  object that calls under way still use;
* scripts of several hosts, and several scripts of one host, change one
  configuration; each step works on files whoever ran last has left behind, and
  most steps do not look at the result of the one before;
* everything is retried, mostly without a look at what the first try achieved,
  and the bootstrap is run twice by every organisation;
* calls of the account chaincodes are computed from what a peer knew some time
  ago, and ordered later;
* the web application is told about blocks by a socket, asks again with
  whatever token it has, and takes answers as they come.

What makes the components correct:

* registry: an accepted registration is there, completely, and takes nothing
  away from others; its objects agree with each other;
* name service: what is registered becomes resolvable and trusted, whatever
  fails once; what is resolvable stays so; updates exclude each other;
* configuration updates: every change is one requested operation on the current
  configuration; exit status 0 means that it has been made;
* Raft scripts: no script takes back another one's change; nobody is listed
  twice; the two lists agree, as removal by index needs;
* bootstrap: the registry gets going, whoever comes later gets in, and nobody
  who is in is thrown out by a later run;
* accounts and tokens: calls take effect one at a time, money is neither made
  nor spent twice, the history explains the balances;
* web application: it ends up showing the ledger as it is, logged in, with
  nothing pending; its table shows the columns and the rows that its settings
  ask for, and the settings survive a reload.

`PROJECT.json` lists the places where these can go wrong ("hazards").

## 2. The modules

| Module | Models | Composes |
|---|---|---|
| `RegistryData` | requests, the facts they add to the three objects, the merge | |
| `Registry` | what the registry promises: one registration, one step | `RegistryData` |
| `DnsRegistry` | the Node.js chaincode in its processes, endorsement, ordering, validation | `RegistryData`; refines `Registry` |
| `DnsNames` | the layout of names in a hosts line, the substring test, the listed peers, in three chaincodes | |
| `DnsSync` | the name service of one host | |
| `ChannelConfig` | what the configuration scripts promise | |
| `ConfigUpdate` | the scripts, their files, faults, the orderer's check | refines `ChannelConfig` unless scripts overlap in one directory |
| `RaftConfig` | what the Raft scripts promise about lists | `Filtering` |
| `RaftConsenters` | the Raft scripts, their chain of files, faults, the orderer's check | refines `RaftConfig` unless files are mixed |
| `ServiceBootstrap` | the bootstrap of several organisations with the chaincode lifecycle | |
| `Transfers` | what each call of the four account chaincodes results in | |
| `Bank` | what an account chaincode promises: one call, one step | |
| `Accounts` | the account chaincodes on their channel | `Transfers`; refines `Bank` |
| `Filtering` | a list without some of its entries, as a recursive function | |
| `AlertService` | the messages at the foot of the web application | `Filtering` |
| `TokenPage` | the web application, its server, socket and ledger | `AlertService`, `Transfers` |
| `HandyTable` | the table of the web application, its columns, filters and stored profile, in several tabs | |
| `MC...` | small instances for TLC | |
| `...Proofs` | theorems; those about `TokenPage` and `HandyTable` are in `WebProofs` | |

### Registry (`RegistryData`, `Registry`, `DnsRegistry`)

A JSON object is a set of facts `[id, ip]`, one per leaf that matters, and
`_.merge` and `dnsUpdater` alike replace the leaves of the same path, unless the
new one is undefined, and keep the rest (`Merge`). For the hosts data this is
sound as long as names are found on their line, which is what `DnsNames` is
about. A hosts name is `<<peer, separator, organisation>>`: the 2.x code enters
`peer.org` and `peer-org` when it has the peer's port, and `peer-org` only for
the peers listed in the request, the 1.x code `peer.org` alone (constant
`Version`); `ResolvableUnlessStolen` is about the form that is always entered. A
request without the property `peers` carries the empty function there; the code
tells `{}` from nothing in the argument check only, and no script sends `{}`.
The `ByParams` functions build the JSON argument and call the others; they are
the same requests.

`DnsRegistry` has one action per stretch of code between two awaits. `Invoke`
runs up to the first `getState`; `Put` is `updateRegistryObject` from its `get`
to its `put`; `GetNext` goes on to the second object; `Return` and `Answer` end
the call. `this.stub` is `stub[p]`: `Invoke` assigns it, `Put` and `GetNext` use
whatever is there, so that a write may land in the write set of another
transaction, or meet a transaction that has returned, which fails. The history
variable `stolen` records that a call has replaced the stub of a registration
under way. The peer, the
client and the orderer are external: a transaction reads the peer's committed
state, which waits for simulations under way; it is valid if the versions it
read are current; a client that gives up after the endorsement is the case
`failed` of `CommitInvalid`. The base class of the 1.x copy is a package outside
the repository and is taken to be what the 2.x copy of it is.

### Names and peers in three chaincodes (`DnsNames`)

A line is a sequence of words. `Includes` is `_.includes(line, ' ' + dns)`: in
Node.js nothing precedes the first word of a line, so it is never found, and the
last word found may go on behind what was looked for. Java puts a blank in front
of every word. Which domains begin which is a constant, because TLA+ strings
have no prefixes. Entries have several words where the code puts several names
in one entry, and the empty one for the `www` name of a peer other than `peer0`.
`lang` is the chaincode that is installed: they enter different names, merge
(Node.js) or replace (Java) the peers of an organisation, and check different
arguments. The history variables `once` and `twice` are the registrations that
have been made, and made again. In Java `registerOrgByParams` passes the `www`
port where the constructor takes the peer's name, which `JavaPeer` does too. The
Java chaincode keeps nothing between transactions, so that its concurrency is
that of `DnsRegistry` with one call at a time per process.

### Name service (`DnsSync`)

`pc[c]` is the await at which call `c` of `processEvent` stands: `init`,
`login`, `listen`, `attached` (the listener is on, `registerBlockEvent` has not
returned), then one query per key. `clients` are the client objects that `login`
has created; the last one is `fabricStarterClient`, and `target[c]` is the one
the operation under way was called on. `Throw` is both the `catch` of the login
and the `finally` of the update. External: an operation on a client that is not
ready for it is refused; an operation may fail, also `registerBlockEvent` with
its listener on (`Fails` at `attached`); a listener delivers one event per block
and may be lost. The hosts files are mounted volumes and survive a `Restart`;
everything else of the process is lost. A file is written in one step
(`util.writeFile` is synchronous for the process); the two files are written
with the same contents and modelled as one. The history variable `slow` records
that a call has started while another one was logging in, and `excess` counts
the causes for which the code registers a listener too many: logins begun during
another one, and registrations that threw with their listener on. Either leaves
`blockListenerStarted` unset where a listener is on or about to be.

### Configuration updates (`ChannelConfig`, `ConfigUpdate`)

One group of one channel is modelled, the members the scripts add and remove,
with the version the orderer checks. A file is a configuration (or an update,
with the version it was computed from), or `ABSENT`, `EMPTY`, or `GARBAGE`: JSON
that is no configuration. A script runs in the `GENERATE_DIR` of a host
(`dir[w]`), whoever else runs there; the history variable `clashed` holds the
directories in which two scripts have been under way at a time. What a script
finds half-written by another one is not modelled: the properties promise
nothing about what comes from such a directory, and what they promise about all
others does not depend on it. The steps are those of
`txTranslateChannelConfigBlock` (`Begin`, `Fetch`, `Translate`), of the jq edits
(`Edit`), and of `createConfigUpdateEnvelope` (`Compare`, `Compute`, `Wrap`,
`Submit`). Which files a step finds decides what it does: `Translate` makes an
empty file from no block; adding an organisation to an empty file gives
`GARBAGE`, since jq merges the template with nothing; `Compute` is the `&&`
chain, which leaves `update.json` alone when it breaks; `diff` of a missing file
says nothing; `EntryReset` is an addition repeated, which shows a difference in
version numbers only. The orderer's verdict is one step.

### Raft consenter scripts (`RaftConfig`, `RaftConsenters`)

The configuration is `[msps, consenters, addresses]`, the last two being lists
in which an entry is known by its host, and the orderer versions two parts of
it: the group with MSPs and consenters, and the addresses. One script runs on a
host at a time and its files are that host's, so that everything from the fetch
to the envelope is one step, `Prepare`, and the submission another; between them
other hosts act. What the files hold matters after a failure: `Filtered` and
`Merged` leave the output of an earlier script when jq fails, `Inserted` empties
it, `FullAdd` is the chain of five commands of
`raft-full-add-new-consenter.sh`, where the results of the two removals are
overwritten, and `Computed` the `&&` chain. `Removing` an orderer is two updates
with one index; `exit 0` of the first one ends only its own script, so that the
second follows (`Then`, `RunSecond`). `Alike(h)` are the hosts that the
unanchored regular expression of line 35 takes for `h`. History variables name
the exceptions of the properties: `mixed` (an update was computed from files of
two scripts), `broken` (a removal was interrupted, or half of it failed),
`plain` and `fulls` (hosts that the scripts were run for).

### Bootstrap (`ServiceBootstrap`)

`pc[o]` is the next call of the script of organisation `o`; a run is one
execution of `main`, of which every organisation has two:
`install-default-chaincodes.sh:19` runs `init-in-open-net.sh`, and
`docker-compose-open-net.yaml:31` runs it again after that script. A call may
fail or lose its answer (`Fault`), and a script may die in between (`Die`); the
second run comes all the same. `createServiceChannel` returns the status of the
anchor peers' update (of `createChannel`'s last command), and 0 where there is a
`BOOTSTRAP_IP`, which is why joiners take the branch that commits. Where the
anchor peers are set already, `createConfigUpdateEnvelope` ends the calling
script (`Anchor`). `Approve` and `Commit` compute their sequence numbers from
two different queries. External: the service of the bootstrap organisation
handles an invitation at once, later, or never; a peer takes an approval for the
committed or the next sequence; a commit takes the bootstrap organisation's
approval, as the channel's policies say; a peer runs a chaincode that is
committed and approved by its organisation. The lifecycle is that of 2.x.

### Account chaincodes (`Transfers`, `Bank`, `Accounts`)

`Transfers` says what a call reads, writes and answers in each language, given
the accounts: integers of `w` bits that wrap in Go, Java and Scala, numbers with
NaN in Node.js (exact here: the 53 bits are out of the instances' reach),
missing keys, too many arguments, refused amounts. Each handler gets
its stub as an argument, so that a simulation is one step (`Endorse`) on the
state of one peer, which may lag; `CommitValid` and `CommitInvalid` validate the
read versions, as in `DnsRegistry`. `Bank` is the promise: calls take effect one
at a time on the accounts as they are.

### Web application (`AlertService`, `TokenPage`)

The page is one thread of callbacks, each one step; what it has sent is in
`wire` (queries) and `calls`. A query stands for those of `queryAll` that read
what is shown: the balance and the operations. A query is answered with the
ledger at some height between sending and answering, in order, except for
`Overtake`. What is shown is the height it is from, so that "current" is
comparable; the rest of `shown` is the table's flag. `good` names the tokens
that the server accepts, all those issued since it last stopped accepting any
(`Expire`); the user may log in any number of times. What was asked for a page
that has been replaced is only of interest for being answered, or refused
(`Gone`). `BlockQueries` includes those of pages long gone: `attached()`
subscribes twice and disposes of the second subscription only. Others make
calls too (`OthersInvoke`), transfers and `getTokens` of any amount, as the
contract lets them. A 401 is looked at twice in `fetch`; both looks are in the
step `Refused`. `missed` are the kinds of things the page was not told and
cannot know of. `tableFirst` leaves the order of attaching view and table to the
framework. Left out: the amount field and its reset, and the lists of the form
(organisations, channels). The table is here as far as it reads data; the rest
of it is the next module, whose names differ so that one module can prove about
both.

### Table (`HandyTable`)

`tabs[t]` is the table in one tab: its `cols`, each visible or not, with a
filter that is active or not and has a value; `visiblecolumns`, the list the
view is made from; the `loading` flag; and in `wire` what it has asked for. All
tabs share the `profile` in the local storage, one entry for the visible columns
and one for the filters, written whole. Each handler is one step:
`columnsChanged` with the attachment that follows (`Open`, also of a tab that is
reloaded), the six kinds of clicks, an edit of a value, which changes the column
only, a block event, and the two ends of a query. Rows are named by the query
they answer. The order within a handler is kept where the storage may refuse
(`Taken`): the change of a column comes before the storing, binding and asking
after it, but the buttons ask first. What goes to the storage and comes back is
converted (`FilterToJson`, `JsonToFilter`): dates through numbers, where 0 is
lost, and entries by a key that two columns of the same field share, so that the
first of them gets the entry of the last. `if` and the query's filter take the
empty text and the date 0 for nothing (`Falsy`). The flags `unasked`, `upset`
and `unbound` record the exceptions of the properties, and `kept` the columns of
the table that has stored last. External: the function that reads the data, the
inputs of the view, the storage. Left out: the sorting of rows, downloads, and
`filterExpressionBuilder` and `onReadError`, which no page of the application
sets. The home page has the filters hidden (`can-filter-columns`), so that they
concern the other pages the table is made for.

## 3. The runs

Passing:

| Run | Checks | Instance | States |
|---|---|---|---|
| `registry` | `TypeOK`, `ValidUnlessStolen`, `ResolvableUnlessStolen`, `AtomicUnlessStolen`, `DnsOnlyGrows` | 2.x; 2 peers, 3 transactions of 7 requests, two calls at a time per process | 1,059,644 |
| `names` | `TypeOK`, `NamesResolvable`, `RepeatsSettle`, `PeersResolvable` | 3 chaincodes, 2 addresses, 2 domains of which one begins the other, 7 requests | 113,245 |
| `sync` | `TypeOK`, `OneListener`, `OneUpdateAtATime`, `HostsNeverGoBack`, `ResolvableUnlessSlow`, `TrustedUnlessSlow` | 2 calls, 3 logins, 1 fault, 1 restart | 928,963 |
| `config_update` | `TypeOK`, `SuccessUnlessFault`, `AtomicUnlessClashed` | 2 directories, 4 scripts, two at a time, in one directory or in both, 2 additions and a removal, one lost message, two failing fetches or edits | 4,337,391 |
| `accounts` | `TypeOK`, `Serializable`, `Conserved`, `NoDoubleSpend`, `HistoryExplains` | 4 chaincodes, 2 peers, 3 calls of 12 kinds, 3 accounts, 3-bit integers | 81,475 |
| `tokens` | `TypeOK`, `NoOverdraft`, `AlertsBounded`, `EventuallyCurrent`, `SessionReturns`, `PendingEnds` | 3 blocks, one click of the user, a transfer from another browser, any number of logins, 1 fault, a stack of 3 messages | 946,196 |
| `table` | `TablesOK`, `ViewRight`, `Restored` | 2 tabs, 4 columns of which two share a key, 4 clicks, edits, block events or loads, 1 failing query or refusal | 97,470 |
| `raft` | `TypeOK`, `ListedOnce`, `Aligned`, `AtomicUnlessMixed` | 2 hosts, 3 scripts of 7 kinds, 4 orderers, 1 failing command, 1 lost message | 117,740 |
| `bootstrap` | `TypeOK`, `ListedOnesServe`, `BootstrapCompletes`, `JoinersGetIn` | 3 organisations, 2 runs each, 3 tries of joining, 1 fault | 226,933 |

Violated, each with a finding in `PROJECT.json`:

| Run | Property | What happens |
|---|---|---|
| `registry_stolen_stub` | `ValidMeansRegistered` | a query is invoked while a registration awaits the peer, and takes over its `put`: the registration is valid and has written nothing |
| `sync_lost_client` | `EventuallyResolvable` | two logins overlap, the one that came second fails, its client stays in use |
| `config_update_leftover` | `SuccessMeansDone` | an edit (or fetch) fails, the `update.json` of an earlier script is submitted and accepted |

What these three show to be false in general is checked in the passing runs
with the exception spelled out: `~stolen` (`ValidUnlessStolen`), `~slow`
(`ResolvableUnlessSlow`), no failed fetch or edit and no overlap
(`SuccessUnlessFault`).

More disagreements met on the way, which have no run of their own:

* A name that begins another one on the same line is never entered
  (`peer0-org1.com` after `peer0-org1.com.au`): the exception in `NamesResolvable`,
  which the instance of `names` contains.
* In example02 a transfer to oneself makes money, and in the Node.js copy the checks
  for missing accounts and for amounts that are no number never fire, so that a
  balance becomes NaN: the two exceptions in `Conserved`.
* In Java the registration of one peer takes the others out of the object of its
  organisation; the second part of
  `PeersResolvable`, that no peer is lost, is about Node.js.
* A listener that is on when its registration throws stays on, and the next timer
  period registers another one: `OneListener` counts it in `excess`.
* The check of `registerOrderer` (`chaincode-dns.js:98`) tests the domain in
  place of the port its message asks for; the Java one tests the port.
* `DnsChaincode.java:41` passes the `www` port where the constructor takes the
  peer's name.
* The `registerOrg` call of `docs/multihost.md:169-170`, two plain strings, is
  refused because the code expects one JSON argument.
* Two scripts of one host, which share file names in `GENERATE_DIR`, can remove
  each other's files; an update computed from files of both takes back what is in
  the configuration, and both scripts may exit with 0: the exceptions in
  `AtomicUnlessClashed` and `SuccessUnlessFault`. TLC refutes both without them.
* `raft-full-add-new-consenter.sh:35` takes the addresses of hosts whose names
  end with the new one's: the exception in `Aligned`. Its exit status (`:49`) is
  that of the last edit, whatever becomes of the submission.
* A bootstrap organisation whose script dies after its anchor peers are set is
  stranded, as its second run ends there: the exception in `BootstrapCompletes`.
* `version-specifics.sh:92` compares the whole output of the readiness check
  with one line of it, so that it never waits.
* In the web application a 401 to a query sent with an old token ends the
  session that has begun since; `SessionReturns` says that it begins again.

The bounds. Three transactions are enough for each to interfere with another and
for a third to see the result; two peers for one to lag behind the other; two
overlapping calls for every pair of stretches between awaits to interleave; two
hosts for a configuration to change between another's fetch and submission; four
scripts for two of them to overlap in one directory, and for others to run there
and elsewhere afterwards; three scripts for a file to be left behind, the
configuration to change, and the file to be used; three organisations for two
joiners to interfere with each other and with the first one; three bits to
overflow with amounts of one digit; three blocks and a token that expires for an
answer to come in after the page, the session or the ledger has moved on, and
for the sessions that answers to old tokens throw out to be begun again, however
many there are; another
browser's transfer for the screen to offer what has been spent;
four steps of the table to open it, set a filter, change it and open it again,
in the same tab or another. `MaxInFlight`, `MaxLogins` (of `DnsSync`),
`MaxFaults`, `MaxRestarts`, `MaxLost`, `MaxRuns`, `MaxBlocks`, `MaxClicks`,
`MaxSteps` and `MaxFailures` are the only bounds inside guards; `MaxTries`, and
`MaxRuns` of `ServiceBootstrap`, are the code's own. In `tokens`
others make one kind of call, the transfer that empties the account; that the
contract refuses whatever is not there is a theorem for all calls of others, negative
amounts of tokens included. Processes and transactions are
symmetric where the run has no liveness property. The run of the registry is the
2.x code; the theorems about it hold for both values of `Version`, and `names`
has all three chaincodes.

Deadlock. In `DnsRegistry` and `Accounts` the step `Done` is the end of a run,
and any other deadlock would be reported; `DnsNames` can
always go on. It is not checked where the system may stop: `DnsSync` (without
registrations and with its login bound used up the process has nothing to do
between two ticks), `ConfigUpdate` and `RaftConsenters` (all scripts
run), `ServiceBootstrap` (all
runs over), `TokenPage` and `HandyTable` (nobody clicks).

Fairness. Faults are never forced and never repeated for ever, which is to say
that the liveness properties hold once the surroundings have calmed down.

* `DnsSync`: the timer keeps firing (`setInterval`), and every operation of the
  client library ends, with or without an error. Nothing is assumed about block
  events, nor about registrations. The weak fairness of `Continue(c)` is for each
  call by itself, as each waits for its own operation.
* `ServiceBootstrap`: a script that is run goes on, a second run follows the
  first (the `;` of `docker-compose-open-net.yaml:31`), and the service gets
  round to a request it has accepted. Every call of a script ends (`curl` has a
  time limit, the loops a count).
* `TokenPage`: the network answers, the server handles a call, the socket
  delivers what is not lost, and a user who is logged out logs in again. The
  last one is the user's part; without it `SessionReturns` and
  `EventuallyCurrent` say nothing after a logout. Nobody is assumed to click
  anything else.

## 4. The proofs

All are for every value of the constants: any number of peers, hosts, calls,
transactions, accounts, retries and faults.

| Theorem | States | Assumes |
|---|---|---|
| `DnsRegistryProofs!TypeCorrect` | `Spec => []TypeOK` | |
| `DnsRegistryProofs!StaysRegistered` | `Spec => []ValidUnlessStolen` | |
| `DnsRegistryProofs!StaysAtomic` | `Spec => AtomicUnlessStolen` (refinement) | |
| `DnsRegistryProofs!StaysResolvable` | `Spec => []ResolvableUnlessStolen` | |
| `DnsRegistryProofs!DnsNeverShrinks` | `Spec => DnsOnlyGrows` | |
| `DnsNamesProofs!NamesTyped` | `Spec => []TypeOK` | |
| `DnsNamesProofs!AskedIsKnown` | `Spec => []NamesResolvable` | |
| `DnsNamesProofs!SecondSettles` | `Spec => []RepeatsSettle` | |
| `DnsNamesProofs!ListedIsKnown` | `Spec => []PeersResolvable` | |
| `DnsSyncProofs!SyncTypes` | `Spec => []TypeOK` | |
| `DnsSyncProofs!OneUpdate` | `Spec => []OneUpdateAtATime` | |
| `DnsSyncProofs!OneRegistered` | `Spec => []OneListener` | |
| `DnsSyncProofs!HostsMonotone` | `Spec => HostsNeverGoBack` | |
| `ConfigUpdateProofs!UpdateTypes` | `Spec => []TypeOK` | |
| `ConfigUpdateProofs!UpdatesAtomic` | `Spec => AtomicUnlessClashed` (refinement) | |
| `ConfigUpdateProofs!SuccessIsDone` | `Spec => []SuccessUnlessFault` | `NothingUndone`: no operation undoes another |
| `RaftConsentersProofs!RaftTypes` | `Spec => []TypeOK` | |
| `RaftConsentersProofs!UnmixedAtomic` | `Spec => AtomicUnlessMixed` | |
| `RaftConsentersProofs!NoneTwice` | `Spec => []ListedOnce` | |
| `RaftConsentersProofs!StaysAligned` | `Spec => []Aligned` | |
| `ServiceBootstrapProofs!BootTypes` | `Spec => []TypeOK` | |
| `ServiceBootstrapProofs!ListedServe` | `Spec => []ListedOnesServe` | |
| `AccountsProofs!TypeCorrect` | `Spec => []TypeOK` | |
| `AccountsProofs!CallsSerializable` | `Spec => Serializable` (refinement) | |
| `AccountsProofs!NothingSpentTwice` | `Spec => NoDoubleSpend` | |
| `AccountsProofs!HistoryTrue` | `Spec => []HistoryExplains` | |
| `AccountsProofs!TransfersConserve` | `Spec => Conserved` | |
| `WebProofs!PageTypes` | `Spec => []TypeOK` | |
| `WebProofs!StackBounded` | `Spec => []AlertsBounded` | |
| `WebProofs!NeverOverdrawn` | `Spec => []NoOverdraft` | |
| `WebProofs!TablesTyped` | `TableSpec => []TablesOK` | |
| `WebProofs!ViewStaysRight` | `TableSpec => []ViewRight` | |
| `WebProofs!ProfileRestored` | `TableSpec => Restored` | |

The constants have assumptions of their own, named where they are declared and
evaluated by TLC in every run. Most say what kind of value a constant is. The
others: finitely many transactions, accounts and calls of the name service (sums
and counts are over them), and no organisation called `faucet`, which stands for
where tokens come from (`Accounts`); a domain is not the empty text, and an
organisation's registration gives its addresses, as every script does
(`DnsNames`, `DnsRegistry`); the orderers a channel starts with are listed once,
and the addresses are removed along with the consenters, as the script does both
(`RaftConsenters`); columns with one key are all of dates or all not, as they
are of one field (`HandyTable`). Some are about the values of the model only: a
configuration is none of the marks for a file without one (`ConfigUpdate`,
`RaftConsenters`), and what stands for nothing is no text, date, range or
profile (`HandyTable`).

The theorems about the registry allow any number of overlapping calls. Three of
them end where a call has replaced the stub of a registration under way, which
the deployment does not prevent; `registry_stolen_stub` shows that this is
needed. What is left after it is `DnsNeverShrinks`.

*Registry* (`RegistryInv`). As long as nothing is stolen (`SerialInv`) a
registration that is running is the one in its peer's stub, however many queries
share the process, so that it reads and writes on its own behalf; what it has
read is the value and the version its peer had; what it has written is that
value with its own data merged in. A peer's state with the current version has
the current value. Hence a transaction whose reads are current writes exactly
its registration into the current objects, which is a step of `Registry`.
`ValidUnlessStolen` then follows from the registry never losing an identifier,
`ResolvableUnlessStolen` from a registration bringing the hosts entries of its
peers and the hosts data being complete. Stolen or not (`DnsInv`), as long as
every registration has started with the hosts data, a transaction that has a
write for `dns` in its set also has a read of `dns`, made by its own `Invoke`;
the value written contains what was read at that version or is older, in which
case the read is not current either.

*Names* (`TypeInv`, then each property by itself). What a request does to the
lines is a loop over its entries, a recursive function of how many have been
made; `UpdateInduct` says once what an induction over it yields, for a family of
sets of lines. A line is only ever extended (`EnterExtends`). So whatever is
found on it is found again (`StaysIncluded`); a name that the substring test
takes for known is on the line or begins one that is, which is how
`NamesResolvable` counts it (`IncludedIsKnown`), and an entry that is appended
has its names there. For `RepeatsSettle` (`RepeatInv`): an entry is settled when
it would not be made again. One that was appended behind others is settled and
stays so whatever follows (`StaysSettled`); only one that began its line is not,
as nothing precedes it there. It is ready, that is, settled or to be appended
behind others, from then on and whatever is registered in between, so that it is
settled when it has been made twice; Java, which puts a blank in front of
everything, saves one round. The empty entry is found on every line of two words
and more, and is the exception on a line of one. For `PeersResolvable`,
`ListHasWord` finds the peer's name among the request's own entries, for all
ways in which the three chaincodes build their list of peers; `PeersKept`, its
second part, is inductive by itself, as Node.js merges into what is stored.

*Name service*. `ExclusionInv` is the property with the types of two variables.
For `HostsNeverGoBack` the invariant says that an answer under way to the call
that is updating contains what the hosts file has, because the file was written
from an answer to an earlier query and the registry only grows; at most one call
is updating, by the first theorem. `OneListener` needs more than itself
(`ListenerInv`), and counts: every call that has not registered its listener yet
(`Waiting`) has its share in the bound already, since it is the first or began
during another login, and as long as the flag is not set, every listener is one
whose call stands between `registerBlockEvent` and its answer (`Attaching`), or
one that counts as `excess`. `TypeOK` is inductive once it says of an answer
under way that it holds what its query asks for: orderers of `osn`,
organisations of `orgs`.

*Configuration updates* (`FilesInv`). In a directory that scripts use one after
the other (`Alone`), whatever file a failed step leaves behind, its version says
which configuration it was made from: a fetched file that has the current
version has the current members, an update that has it is one requested
operation away (`Current`). When the orderer accepts an update, its version goes
up and all other updates become unacceptable, those that were in order and those
that scripts have spoiled for each other in a shared directory alike; so
`Current` survives a bad update from elsewhere, and one host's carelessness is
not another host's loss. For `SuccessUnlessFault` the invariant (`DoneInv`) adds
what a script that met no fault knows of its own files: the fetched one is a
configuration, the edited one is it with the operation made, and the update, or
the configuration as it has become, has the operation made, whatever an earlier
script has left in `update.json`. Nothing that is done is undone, because
accepted updates are single operations; this needs that nobody's scripts
overlap, wherever they run.

*Raft consenters* (`RaftInv`). The same argument with two versions, as the
orderer checks the MSPs with the consenters and the addresses apart. An update
records the versions of the parts that it was computed from, and what it makes
of a part depends on that part alone (`AfterParts`). As long as
nothing has been mixed it is one requested operation on every configuration
with those parts. A part whose version is unchanged is what the orderer has, so
that an update it accepts is that operation on the configuration it has now.

For `ListedOnce` (`OnceInv`), an accepted update is one requested operation on
the current lists; a full add filters its host out before it appends it, and
removals only shorten a list. That a filtered list has no entry twice, and none
that was filtered out, comes from `FilterWell`: there is a strictly growing map
from the places of the result to the places of the list it was made from. For
`Aligned` (`AlignInv`) the two lists are equal except while a removal is between
its halves, when the addresses are the consenters without the entry of its
index. The removal then has the cluster to itself, and an update left over from
before is spent: it changes nothing in the order of the lists, or its version is
past. That is why the property excepts removals that were interrupted or had
company.

*Bootstrap* (`BootInv`). The organisations count their approvals by themselves
but the definition is committed once only: the orderer takes a commit with the
bootstrap organisation's approval, that organisation commits only in the run
that set the anchor peers, and no later run gets past them. Whoever gets as far
as asking to be listed has approved; as approvals are not taken back and the
committed definition is not replaced, that approval goes on counting.

*Accounts*. What a call results in depends only on the accounts it reads
(`Agree`), and writes only to accounts it reads, except for `init` and
`delete`, which read nothing. The invariant says that a peer's copy of an
account with the current version has the current value, and that a result was
computed from values of the versions it has seen. A transaction whose versions
are current therefore has the result that its call would have now, which is a
step of `Bank`; and the check of the payer's balance, being part of that
result, holds now as well.

The other two are about sums over sets. `SumAdd`, `SumChange` and `SumChangeTwo`
say what a sum becomes when an element joins or one or two values change. They
are proved from the definition of the fold, by showing that sums exist and are
unique on every finite set. Sums of balances are taken modulo the width of the
integers, where wrapping changes nothing (`WrapShift`): a transfer that
overflows moves the same amount as one that does not. `HistoryInv` says of each
account that its balance is the wrapped difference of the recorded amounts, that
an account to which nothing has come does not exist and has sent nothing, and
that a recorded operation belongs to a transaction that has become valid, so
that no transaction is recorded twice. For `Conserved` a valid transfer writes
the two balances it has read, changed by its amount (`MoveWrites`), unless payer
and payee are one account, where the last write stands, or one of the values is
no number, where what is written is none either.

*Web application*. `AlertsBounded` needs nothing of the page: a message replaces
the pending ones of its scope or is put on top of a stack that is then cut off
(`Good` is preserved by every `Told`); the stack is filtered, so that
`FilterWell` is needed again. For `NoOverdraft` (`BookInv`) the ledger's blocks
are built by the contract's calls, whatever the page or others send
(`ChainGrows`); whatever the balances have become by then, by negative amounts
or by wrapping around, a call that changes two of them is a transfer that the
contract has granted (`AfterCall`).

*Table* (`TableInv`, for each open tab `TabInv`). Queries are numbered. Unless
something was upset, the last one asked is in flight as long as any is
(`Asking`): an answer that does not overtake is the oldest under way, so that
the last to come is the last asked. Unless something is unasked, that one has
the filters of the columns as they are, since a handler that changes what a
column asks either asks again or sets `unasked`. So the rows of the last answer
are those of the filters (`Waiting`). `Stored` says that the profile was made
from the columns in `kept`. For `ProfileRestored`, a column with a key of its
own gets its own entry (`OwnEntry`), and what it asks survives both conversions
(`AskedSurvives`): a date that is lost on the way is one that the query's filter
takes for nothing. For `TablesTyped` it matters that an entry comes from a
column with the same key, thus of the same type (`EntryTyped`), even where two
columns share a key.

Recursion and inductions. Recursive definitions that theorems are about are
recursive functions on numbers (`Filtering`, the loop of `DnsNames`). The
library's induction principles take operators as parameters, which the provers
at hand cannot instantiate; instead each module proves that a nonempty set of
numbers has a least element (`Least`, from the well-foundedness of `<`) and that
a set of numbers which contains 0 and every successor contains all (`Induct`).
Inductions are then about sets. The lemmas on filtering occur twice, in
`RaftConsentersProofs` and in `WebProofs`, which have no module in common
that holds proofs.

Only model-checked: all liveness (`ResolvableUnlessSlow`, `TrustedUnlessSlow`,
`EventuallyCurrent`, `SessionReturns`, `PendingEnds`, `BootstrapCompletes`,
`JoinersGetIn`), which needs fairness and `ENABLED`. Every other property of a
passing run is a theorem.

## 5. Not modelled

* The plain storage calls of the registry (`put`, `delete`, `range`, `list`): no
  script calls them on this chaincode.
* The two `/settings/tasks` routes of the middleware, which hold one value for a
  web page.
* Packaging and installation of chaincodes, which change one peer only, and the
  1.x lifecycle, which is one call.
* `addMeToConsortiumIfOrdererExists`, whose call is commented out.
* Crypto material and genesis block: what `cryptogen` and `configtxgen` write is
  not in the repository, and a mismatch between block and certificates is a
  matter of their contents.
* Raft cluster start, host orchestration, backup and restore: sequences of calls
  from one shell, of which the parts that others can interfere with are modelled
  in the components they start.
* Contents of certificates, templates and policies; an update the orderer
  rejects for its contents is the case of a rejected submission.
* Views of the web application that nothing depends on (the sorting of rows,
  downloads, the panel of messages), its generated build scripts, and the
  demonstration chaincode `chaincode/node/reference`.

## 6. What could follow

1. `OrdererGenesis`: crypto material and genesis block across restarts, with the
   external tools as nondeterministic writers.
2. `RaftJoin`: the host side of joining an orderer, composed with
   `RaftConsenters`.
