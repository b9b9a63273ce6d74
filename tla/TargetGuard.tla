------------------------------ MODULE TargetGuard ------------------------------
(***************************************************************************)
(* Which endpoints the centre stores and contacts (internal/netguard, its  *)
(* use in cmd/web/register.go and in nodeBaseURL, cmd/web/nodeclient.go).  *)
(*                                                                         *)
(* A registration is judged once, its node is contacted for years: in      *)
(* between, the centre is restarted with other settings and the node's     *)
(* name resolves to other addresses.  What was stored is parsed anew for   *)
(* every contact, so it must still read as the endpoint it was.            *)
(*                                                                         *)
(* A host is a text: netguard leaves the case of a name and the form of an *)
(* IPv6 literal as they are written, and the table compares bytes          *)
(* (store.go:108, 229), so "node" and "NODE" are two hosts with one answer *)
(* of DNS.  An address is a host with something around it; a port is one   *)
(* of the blocked ones, out of range, or neither.                          *)
(*                                                                         *)
(* A contact is two steps: nodeBaseURL looks the host up and judges the    *)
(* answer, then the HTTP client looks it up again to dial.  Redirects that *)
(* a node answers with, which the client follows, are left out.            *)
(***************************************************************************)
EXTENDS Naturals, FiniteSets

CONSTANTS Names,        \* bound: host names, as texts
          Domain,       \* what DNS knows each of them as: case is nothing to it
          Literals,     \* bound: IP literals
          IPv6,         \* those of them that contain a colon
          Class,        \* what classify says of a literal; "": not objectionable
          Answers,      \* bound: the answers of LookupHost, sets of literals
          OpenPorts,    \* bound: ports that are not in BlockedPorts
          BlockedPort, OutOfRange,
          Protocols,    \* bound: values of ALLOWED_NODE_PROTOCOLS, sets
          NoAnswer,     \* LookupHost fails
          NoContact,
          NotDialled,
          MaxRows,      \* bound: registered nodes
          MaxChanges    \* bound: restarts and changes of DNS

\* There is no class for reserved addresses.
Classes == {"", "unspecified", "loopback", "link-local", "multicast", "private",
            "unparsable"}

\* An answer that ParseIP cannot read, with a zone, is no address either.
Hosts == Names \cup {ip \in Literals : Class[ip] # "unparsable"}

Domains == {Domain[n] : n \in Names}

\* "[host]", "host" with blanks around it, "http://host", "host/path" and
\* "host:port".
Spellings == {"plain", "bracketed", "padded", "url", "path", "port"}

ASSUME HostAssumption == /\ Names \cap Literals = {}
                         /\ IPv6 \subseteq Literals
                         /\ NotDialled \notin Literals
                         /\ Class \in [Literals -> Classes]
ASSUME AnswerAssumption ==
    /\ Answers \subseteq ((SUBSET Literals) \ {{}}) \cup {NoAnswer}
    /\ MaxChanges \in Nat /\ MaxRows \in Nat
    /\ \A p \in Protocols : p \subseteq {"http", "https"} /\ p # {}

VARIABLES settings, \* AllowPrivateNodes, AllowedNodeProtocols
          dns,      \* what each domain resolves to
          rows,     \* the registered nodes: address, port, protocol
          contact,  \* the last contact: its node, the answer that was judged
                    \* and the address dialled since
          changes

vars == <<settings, dns, rows, contact, changes>>

-----------------------------------------------------------------------------
(* netguard.                                                               *)

Address == [host : Hosts, spelling : Spellings]

\* Protocols are written in lower case or not.
Target == [address : Address, port : OpenPorts \cup {BlockedPort, OutOfRange},
           protocol : {"http", "https", "ftp"}, upper : BOOLEAN]

Stored(host, port, protocol) ==
    [address |-> [host |-> host, spelling |-> "plain"], port |-> port,
     protocol |-> protocol, upper |-> FALSE]

\* Seeded fault: the address is stored as it was written.
StoredAsWritten(t) == [t EXCEPT !.upper = FALSE]

\* The Host, Port and Protocol of Resolved.
Normalised(t) == Stored(t.address.host, t.port, t.protocol)

\* Seeded fault: an IPv6 literal needs its brackets.
BracketsRequired(a) ==
    /\ a.spelling \in {"plain", "bracketed", "padded"}
    /\ a.host \in IPv6 => a.spelling = "bracketed"

\* An address that passes the checks of its characters.
WellFormed(a) == a.spelling \in {"plain", "bracketed", "padded"}

\* ResolveAddresses
ResolveAddresses(host) == IF host \in Literals THEN {host} ELSE dns[Domain[host]]

\* An answer that ParseIP does not read is passed over.
Permitted(addresses) ==
    settings.AllowPrivateNodes \/
        \A ip \in addresses : Class[ip] \in {"", "unparsable"}

\* Seeded fault: ports are checked for their range only.
AcceptablePort(t) ==
    /\ t.protocol \in settings.AllowedNodeProtocols
    /\ WellFormed(t.address)
    /\ t.port # OutOfRange

\* ValidateNodeTarget returns no error, without looking at addresses.
Acceptable(t) ==
    /\ t.protocol \in settings.AllowedNodeProtocols
    /\ WellFormed(t.address)
    /\ t.port \in OpenPorts

\* ValidateNodeTarget with Resolve.
Valid(t) ==
    /\ Acceptable(t)
    /\ ResolveAddresses(t.address.host) # NoAnswer
    /\ Permitted(ResolveAddresses(t.address.host))

\* BaseURL: hosts with a colon get their brackets back.
URLHost(host) ==
    [host |-> host, spelling |-> IF host \in IPv6 THEN "bracketed" ELSE "plain"]

-----------------------------------------------------------------------------
(* Its callers.                                                            *)

\* register: a row of the same endpoint is replaced.
Register(t) ==
    /\ Valid(t)
    /\ rows' = {Normalised(t)} \cup
                 {r \in rows : <<r.address, r.port>> # <<Normalised(t).address, t.port>>}
    /\ Cardinality(rows') <= MaxRows
    /\ UNCHANGED <<settings, dns, contact, changes>>

\* Seeded fault: what was accepted once is not judged again.
BaseURLOfRegistered(r) ==
    Acceptable(r) /\ ResolveAddresses(r.address.host) # NoAnswer

\* nodeBaseURL succeeds.
BaseURL(r) == Valid(r)

\* checkHealth, the measurements and the proxies, up to their request.
Check(r) ==
    /\ BaseURL(r)
    /\ contact' = [node |-> r, url |-> URLHost(Normalised(r).address.host),
                   judged |-> ResolveAddresses(Normalised(r).address.host),
                   dialled |-> NotDialled]
    /\ UNCHANGED <<settings, dns, rows, changes>>

\* client.Do: any address of the answer DNS gives now.  Every request of the
\* measurement may dial anew; one that is sent over a connection kept alive
\* changes nothing here.
Dial(ip) ==
    /\ contact # NoContact
    /\ ResolveAddresses(contact.node.address.host) # NoAnswer
    /\ ip \in ResolveAddresses(contact.node.address.host)
    /\ contact' = [contact EXCEPT !.dialled = ip]
    /\ UNCHANGED <<settings, dns, rows, changes>>

Change == changes < MaxChanges /\ changes' = changes + 1

\* The centre is restarted with other settings, and its contacts end.
Restart(s) ==
    /\ Change
    /\ settings' = s
    /\ contact' = NoContact
    /\ UNCHANGED <<dns, rows>>

ChangeDNS(n, a) ==
    /\ Change
    /\ dns' = [dns EXCEPT ![n] = a]
    /\ UNCHANGED <<settings, rows, contact>>

Delete(r) ==
    /\ rows' = rows \ {r}
    /\ UNCHANGED <<settings, dns, contact, changes>>

SettingsSet == [AllowPrivateNodes : BOOLEAN, AllowedNodeProtocols : Protocols]

Init ==
    /\ settings \in SettingsSet
    /\ dns \in [Domains -> Answers]
    /\ rows = {}
    /\ contact = NoContact
    /\ changes = 0

Next ==
    \/ \E t \in Target : Register(t)
    \/ \E r \in rows : Check(r) \/ Delete(r)
    \/ \E ip \in Literals : Dial(ip)
    \/ \E s \in SettingsSet : Restart(s)
    \/ \E n \in Domains, a \in Answers : ChangeDNS(n, a)

Spec == Init /\ [][Next]_vars

-----------------------------------------------------------------------------
(* Properties.                                                             *)

TypeOK ==
    /\ settings \in SettingsSet
    /\ dns \in [Domains -> Answers]
    /\ rows \subseteq {t \in Target : t.port \in OpenPorts}
    /\ changes \in 0..MaxChanges
    /\ contact \in [node : Target, url : Address, judged : SUBSET Literals,
                    dialled : Literals \cup {NotDialled}] \cup {NoContact}

\* Blanks, brackets and the protocol around a host do not make another node of
\* it: a host, as a text, and a port have one row.  The text of a host does:
\* letter case and the long form of an IPv6 literal are kept as written
\* (netguard.go:126-147), and the table has a row for each.
OneRowPerHostText ==
    \A r, s \in rows :
        r.address.host = s.address.host /\ r.port = s.port => r = s

\* What registration stored reads, at every later contact, as the endpoint that
\* was registered: parsing it again changes nothing, and only another setting
\* or another answer of DNS can make it unacceptable.
StoredIsStable ==
    \A r \in rows :
        /\ Normalised(r) = r
        /\ (/\ settings = [AllowPrivateNodes |-> TRUE,
                           AllowedNodeProtocols |-> {"http", "https"}]
            /\ ResolveAddresses(r.address.host) # NoAnswer)
           => Valid(r)

\* With ALLOW_PRIVATE_NODES=false an address that classify names is dialled only
\* if DNS did not give it to the check of this very contact: neither another
\* setting, nor the registration, nor an older answer lets one through, and a
\* protocol that was withdrawn is not used (nodeclient.go:29).  What is left is
\* the window between the two lookups, which netguard.go:10 speaks of.
DialsObeyTheSettings ==
    contact # NoContact =>
        /\ contact.node.protocol \in settings.AllowedNodeProtocols
        /\ \/ contact.dialled = NotDialled
           \/ settings.AllowPrivateNodes
           \/ contact.dialled \notin contact.judged
           \/ Class[contact.dialled] \in {"", "unparsable"}

=============================================================================
