-------------------------------- MODULE DnsNames --------------------------------
(***************************************************************************)
(* How the three "dns" chaincodes - Node.js for Fabric 1.x and 2.x, Java - *)
(* enter names into the hosts line of an address, and peers into the       *)
(* object of an organisation.  Registrations come one after the other;     *)
(* what happens when they do not is the subject of DnsRegistry.            *)
(*                                                                         *)
(* A hosts line is one string, the names in it separated by blanks;        *)
(* whether an entry is there already is a substring test for the entry     *)
(* with a blank in front.  A line is the sequence of its words, an entry   *)
(* too, as several names may go into one entry.  A word is <<host,         *)
(* separator, domain>>; what matters of its letters is which words begin   *)
(* with it, and they do when their domain begins with its domain.          *)
(***************************************************************************)
EXTENDS Integers, Sequences, FiniteSets, SequencesExt

CONSTANTS
  Addresses, Domains,
  DomainPrefixes, \* the pairs of different domains of which one begins the other
  Requests,       \* the registrations, records as described below
  NONE            \* "no such argument"

(***************************************************************************)
(* Requests.                                                               *)
(*   [fcn |-> "registerOrg", params, domain, peer, ip, port, www, peers]   *)
(*        params tells registerOrgByParams from registerOrg, peers is a    *)
(*        function from the listed peers to their addresses                *)
(*   [fcn |-> "registerOrderer", name, domain, ip, port]                   *)
(* The domain of an organisation stands for orgId.domain.                  *)
(***************************************************************************)
ASSUME PrefixAssumption == DomainPrefixes \subseteq Domains \X Domains /\ "" \notin Domains

\* Every script that registers something gives its address.
ASSUME RequestsAssumption ==
  \A r \in Requests :
    /\ r.fcn \in {"registerOrg", "registerOrderer"} /\ r.domain \in Domains
    /\ r.fcn = "registerOrderer" => r.ip \in Addresses \cup {NONE}
    /\ r.fcn = "registerOrg" =>
         /\ r.ip \in Addresses
         /\ IsFiniteSet(DOMAIN r.peers) /\ r.peers \in [DOMAIN r.peers -> Addresses]

VARIABLES
  lang,   \* the chaincode that is installed: "node2x", "node1x", "java"
  lines,  \* address -> its line, <<>> when there is none
  orgs,   \* domain -> peer -> [ip, port], the object stored under "orgs"
  asked,  \* address -> the names that registrations asked for
  once,   \* the registrations that have been made,
  twice   \* and those that have been made again

vars == <<lang, lines, orgs, asked, once, twice>>

EMPTY == <<"", "", "">>   \* the www entry of a peer other than peer0

Begins(v, w) ==
  \/ v = EMPTY
  \/ v[1] = w[1] /\ v[2] = w[2] /\ (v[3] = w[3] \/ <<v[3], w[3]>> \in DomainPrefixes)

-------------------------------------------------------------------------------
(* The entries of a registration, in the order in which they are made.     *)

Entry(ip, words) == [ip |-> ip, dns |-> words]

PeerName(r) == IF r.peer = NONE THEN "peer0" ELSE r.peer

Www(r) ==
  Entry(r.ip, <<IF PeerName(r) = "peer0" THEN <<"www", ".", r.domain>> ELSE EMPTY>>)

Peer(r, name, seps) ==
  IF r.port = NONE THEN <<>>
  ELSE <<Entry(r.ip, [i \in DOMAIN seps |-> <<name, seps[i], r.domain>>])>>

Listed(r, sep) ==
  LET names == SetToSeq(DOMAIN r.peers)
  IN  [i \in DOMAIN names |-> Entry(r.peers[names[i]], <<<<names[i], sep, r.domain>>>>)]

OrgNode2x(r) == <<Www(r)>> \o Peer(r, PeerName(r), <<".", "-">>) \o Listed(r, "-")

OrgNode1x(r) == <<Www(r)>> \o Peer(r, PeerName(r), <<".">>) \o Listed(r, ".")

\* The constructor called by registerOrgByParams takes the name of the peer
\* and the www port in the other order.
JavaPeer(r) == IF r.params THEN r.www ELSE PeerName(r)

OrgJava(r) == Peer(r, JavaPeer(r), <<"-">>)

OrdererNode(r) ==
  IF r.ip = NONE THEN <<>>
  ELSE <<Entry(r.ip, <<<<r.name, ".", r.domain>>, <<"www", ".", r.domain>>,
                       <<"www." \o r.name, ".", r.domain>>>>)>>

OrdererJava(r) ==
  IF r.ip = NONE THEN <<>> ELSE <<Entry(r.ip, <<<<r.name, ".", r.domain>>>>)>>

Entries(r) ==
  IF r.fcn = "registerOrderer"
  THEN IF lang = "java" THEN OrdererJava(r) ELSE OrdererNode(r)
  ELSE CASE lang = "node2x" -> OrgNode2x(r)
         [] lang = "node1x" -> OrgNode1x(r)
         [] lang = "java"   -> OrgJava(r)

\* Java alone looks at the port of an orderer.
Accepted(r) ==
  IF r.fcn = "registerOrg" THEN r.port # NONE \/ DOMAIN r.peers # {}
  ELSE lang = "java" => r.port # NONE

-------------------------------------------------------------------------------
(* The hosts line.                                                         *)

\* Mutant: an entry counts as there only when it is the whole line.
IsWholeLine(line, dns) == line = dns

\* The line contains a blank and the entry.  In Java every word of a line has
\* a blank in front of it, in Node.js all but the first.  The last word found
\* need not end where the entry ends.
Includes(line, dns) ==
  \E i \in (IF lang = "java" THEN 1 ELSE 2) .. Len(line) - Len(dns) + 1 :
    /\ \A j \in 1 .. Len(dns) - 1 : line[i + j - 1] = dns[j]
    /\ Begins(dns[Len(dns)], line[i + Len(dns) - 1])

\* Mutant: the entry replaces the line.
Overwrite(line, dns) == dns

\* The empty entry leaves an empty line empty.
Extend(line, dns) ==
  IF line = <<>> /\ dns = <<EMPTY>> THEN <<>> ELSE line \o dns

Enter(current, entry) ==
  IF Includes(current[entry.ip], entry.dns) THEN current
  ELSE [current EXCEPT ![entry.ip] = Extend(@, entry.dns)]

\* n -> the lines after the first n entries.
EnterAll(current, entries) ==
  LET after[n \in 0 .. Len(entries)] ==
        IF n = 0 THEN current ELSE Enter(after[n - 1], entries[n])
  IN  after

\* The update function applied to the stored object.
Update(current, request) ==
  LET entries == Entries(request) IN EnterAll(current, entries)[Len(entries)]

-------------------------------------------------------------------------------
(* The object of the organisation.                                         *)

Listing(ip, port) == [ip |-> ip, port |-> port]

\* The peers of a registration; the named one, when its port is given, replaces an
\* entry of the same name in the list.
NewPeers(r) ==
  LET listed == [p \in DOMAIN r.peers |-> Listing(r.peers[p], NONE)]
  IN  IF r.port = NONE THEN listed
      ELSE [p \in DOMAIN listed \cup {PeerName(r)} |->
              IF p = PeerName(r) THEN Listing(r.ip, r.port) ELSE listed[p]]

\* Mutant: in place of what is stored.
PeersReplaced(r, stored) == NewPeers(r)

\* Merged into what is stored, where a port stays when none is given.
PeersNode(r, stored) ==
  LET new     == NewPeers(r)
      port(p) == IF new[p].port = NONE /\ p \in DOMAIN stored THEN stored[p].port
                 ELSE new[p].port
  IN  [p \in DOMAIN stored \cup DOMAIN new |->
         IF p \in DOMAIN new THEN Listing(new[p].ip, port(p)) ELSE stored[p]]

\* Mutant: address and port in the other order.
PeersSwapped(r) == [p \in {JavaPeer(r)} |-> Listing(r.port, r.ip)]

\* In place of what is stored, the named peer alone.
PeersJava(r) == [p \in {JavaPeer(r)} |-> Listing(r.ip, r.port)]

-------------------------------------------------------------------------------

\* The names a registration asks for.
NamesFor(request, ip) ==
  LET entries == Entries(request)
  IN  (UNION {ToSet(entries[i].dns) : i \in {j \in DOMAIN entries : entries[j].ip = ip}})
        \ {EMPTY}

NoPeers == [p \in {} |-> NONE]

Init ==
  /\ lang \in {"node2x", "node1x", "java"}
  /\ lines = [ip \in Addresses |-> <<>>]
  /\ orgs = [d \in Domains |-> NoPeers]
  /\ asked = [ip \in Addresses |-> {}]
  /\ once = {} /\ twice = {}

Register(r) ==
  /\ Accepted(r)
  /\ lines' = Update(lines, r)
  /\ asked' = [ip \in Addresses |-> asked[ip] \cup NamesFor(r, ip)]
  /\ orgs' = IF r.fcn = "registerOrderer" THEN orgs
             ELSE [orgs EXCEPT ![r.domain] =
                     IF lang = "java" THEN PeersJava(r) ELSE PeersNode(r, @)]
  /\ once' = once \cup {r}
  /\ twice' = IF r \in once THEN twice \cup {r} ELSE twice
  /\ UNCHANGED lang

Next == \E r \in Requests : Register(r)

Spec == Init /\ [][Next]_vars

-------------------------------------------------------------------------------
(* Properties.                                                             *)

TypeOK ==
  /\ lang \in {"node2x", "node1x", "java"}
  /\ \A ip \in Addresses :
       \A w \in ToSet(lines[ip]) \cup asked[ip] : w = EMPTY \/ w[3] \in Domains
  /\ \A d \in Domains : \A p \in DOMAIN orgs[d] : orgs[d][p].ip \in Addresses

\* The name, or another one that hides it from the substring test.
Known(ip, w) == \E v \in ToSet(lines[ip]) \ {EMPTY} : Begins(w, v)

\* "verify ip was added to hosts file and the name is now resolvable"
\* (_dns._js:3): a registered name is on the line of its address, with one exception: it
\* is not entered when a longer name that begins with it is there, which the substring
\* test takes for it (chaincode-dns.js:137).  Neither the first name of a line, which has
\* no blank in front, nor the empty entry, nor an entry of several names lets the test or
\* the line lose a name; and nothing else is there.  This is what lets RegistryData see a
\* line as the set of its names.
NamesResolvable ==
  \A ip \in Addresses :
    /\ ToSet(lines[ip]) \ {EMPTY} \subseteq asked[ip]
    /\ \A w \in asked[ip] : Known(ip, w)

\* Every start of a node makes its registrations again, between those of others: the
\* lines do not grow for ever.  In Node.js an entry that starts a line is not found
\* there, so it may be entered twice; what has been registered twice is not entered
\* again, whatever was registered before, in between and since.  There is one
\* exception: the www entry of a peer other than peer0, which is empty, lengthens a
\* line of one word by a blank.  In Java what has been registered once is not entered
\* again (chaincode-dns.js:124-139).
RepeatsSettle ==
  /\ \A r \in twice : \A ip \in Addresses :
       LET line == Update(lines, r)[ip] IN
       line = lines[ip] \/ (Len(lines[ip]) = 1 /\ line = Append(lines[ip], EMPTY))
  /\ lang = "java" => \A r \in once : Update(lines, r) = lines

PeersNamed ==
  \A d \in Domains : \A p \in DOMAIN orgs[d] :
    lang # "java" \/ orgs[d][p].port # NONE =>
      Known(orgs[d][p].ip, <<p, IF lang = "node1x" THEN "." ELSE "-", d>>)

PeersKept ==
  lang # "java" =>
    \A r \in {q \in once : q.fcn = "registerOrg"} :
      DOMAIN NewPeers(r) \subseteq DOMAIN orgs[r.domain]

\* The objects agree, although they are made by different parts of the handlers: a peer
\* of an organisation has a name on the line of the address it is listed with; in Java
\* this takes a port (chaincode-dns.js:47-67, DnsChaincode.java:60-83).  And in Node.js
\* every peer that some registration has named or listed is in the object, whatever else
\* has been registered since (chaincode-dns.js:57-69,112-122); in Java the last
\* registration is all there is.
PeersResolvable == PeersNamed /\ PeersKept

===============================================================================
