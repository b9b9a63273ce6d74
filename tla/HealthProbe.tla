----------------------------- MODULE HealthProbe -----------------------------
(***************************************************************************)
(* Health checks, speed tests and proxied measurements of the centre       *)
(* (cmd/web/nodes.go, cmd/web/nodeclient.go) against the nodes             *)
(* (cmd/node/server.go), over the node table of NodeStore.                 *)
(*                                                                         *)
(* A handler reads the row of its node once, decides on that copy, talks   *)
(* to the node for seconds without any lock, and then updates the row by   *)
(* its id.  Registrations, rotations, deletions, the switch and other      *)
(* handlers run in between.                                                *)
(***************************************************************************)
EXTENDS NodeStore

CONSTANTS Probes    \* bound: the handlers that run at the same time

VARIABLES probe,        \* the running handlers
          listening     \* the key the agent at each endpoint was started with

probeVars == <<probe, listening>>
centreVars == <<vars, probeVars>>

Kinds == {"health", "speedtest", "proxy"}

Probe == [kind     : Kinds,
          id       : 1..MaxId,              \* the copy of the row: node.ID,
          endpoint : Endpoints,             \* node.Address and node.Port,
          hash     : Hashes,                \* node.NodeKeyHash
          nodeKey  : Keys,
          left     : 0..3,                  \* requests still to be made
          result   : {"pending", "online", "error"}]

\* /healthz; /ping, /download and /upload one after the other (the repeated
\* pings of one test count as one request); or the one request that is proxied.
Requests(kind) == IF kind = "speedtest" THEN 3 ELSE 1

\* The handlers but p, which has answered.
WithoutHandler(p) == [q \in DOMAIN probe \ {p} |-> probe[q]]

\* authenticateAdmin and authenticateSpeedtest: the centre always sends a key,
\* so both come down to the comparison with the key of the running agent.
Authenticates(e, k) == listening[e] = k

-----------------------------------------------------------------------------
(* The handlers.                                                           *)

\* Seeded fault: a speed test counts as done after its ping.
ResultAfterPing(p) == "online"

\* The result once the request under way has succeeded.
ResultAfter(p) == IF probe[p].left = 1 THEN "online" ELSE "pending"

\* getNodeOr404, the switch, resolveNodeKey.  A request that fails one of them
\* is answered at once and changes nothing.
Begin(p, kind, id, supplied) ==
    /\ p \notin DOMAIN probe
    /\ id \in DOMAIN rows
    /\ kind \in {"speedtest", "proxy"} => rows[id].enabled
    /\ \E k \in Keys :
          /\ ResolvesTo(rows[id], supplied, k)
          /\ probe' = [q \in DOMAIN probe \cup {p} |->
                IF q # p THEN probe[q]
                ELSE [kind |-> kind, id |-> id,
                      endpoint |-> rows[id].endpoint,
                      hash |-> rows[id].node_key_hash,
                      nodeKey |-> k, left |-> Requests(kind),
                      result |-> "pending"]]
    /\ UNCHANGED <<vars, listening>>

\* checkHealth, or the next of measurePing, measureDownload, measureUpload: the
\* node accepts the key, or the request fails (401, timeout, netguard, broken
\* stream) and no further one is made.
Contact(p) ==
    /\ p \in DOMAIN probe
    /\ probe[p].kind # "proxy" /\ probe[p].result = "pending"
    /\ \/ /\ Authenticates(probe[p].endpoint, probe[p].nodeKey)
          /\ probe' = [probe EXCEPT
                ![p].left = @ - 1,
                ![p].result = ResultAfter(p)]
       \/ probe' = [probe EXCEPT ![p].left = 0, ![p].result = "error"]
    /\ UNCHANGED <<vars, listening>>

\* A proxied request leaves no trace at the centre, whatever the node answers.
Relay(p) ==
    /\ p \in DOMAIN probe
    /\ probe[p].kind = "proxy"
    /\ probe' = WithoutHandler(p)
    /\ UNCHANGED <<vars, listening>>

\* UpdateHealthResult at the end of handleHealthCheck and handleSpeedtest; its
\* error is ignored.
Record(p) ==
    /\ p \in DOMAIN probe
    /\ probe[p].result # "pending"
    /\ UpdateHealthResult(probe[p].id, probe[p].result = "online")
    /\ probe' = WithoutHandler(p)
    /\ UNCHANGED listening

-----------------------------------------------------------------------------
(* What happens in between.                                                *)

\* An agent is (re)started.  It serves with a key the centre granted, and one
\* that is no other endpoint's credential (CredentialStaysHome of
\* AgentRegistration), or it stops.
AgentRestarts(e) ==
    /\ \/ listening' = [listening EXCEPT ![e] = NoKey]
       \/ \E k \in generated :
             /\ \A id \in FindByKeyHash(HashNodeKey(k)) : rows[id].endpoint = e
             /\ listening' = [listening EXCEPT ![e] = k]
    /\ UNCHANGED <<vars, probe>>

\* The other handlers of the centre.
Manage ==
    /\ \/ \E e \in Endpoints, presented \in Keys \cup {NoKey} :
             Register(TRUE, e, presented, DrawnKey)
       \/ \E id \in DOMAIN rows : Delete(id)
       \/ \E id \in DOMAIN rows, b \in BOOLEAN : SetEnabled(id, b)
    /\ UNCHANGED probeVars

\* The centre is restarted: the handlers are gone, and nothing is recorded.
RestartCentre(new) ==
    /\ Restart(new)
    /\ probe' = [p \in {} |-> {}]
    /\ UNCHANGED listening

ProbeInit ==
    /\ Init
    /\ probe = [p \in {} |-> {}]
    /\ listening = [e \in Endpoints |-> NoKey]

\* One step of the handler p.
ProbeStep(p) ==
    \/ \E kind \in Kinds, id \in 1..MaxId, supplied \in Keys \cup {NoKey} :
          Begin(p, kind, id, supplied)
    \/ Contact(p) \/ Relay(p) \/ Record(p)

ProbeNext ==
    \/ \E p \in Probes : ProbeStep(p)
    \/ \E e \in Endpoints : AgentRestarts(e)
    \/ Manage
    \/ \E new \in Settings : RestartCentre(new)

ProbeSpec == ProbeInit /\ [][ProbeNext]_centreVars

-----------------------------------------------------------------------------
(* Properties.                                                             *)

\* Types of the handlers' local state and of the environment.
ProbeTypeOK ==
    /\ TypeOK
    /\ DOMAIN probe \subseteq Probes
    /\ probe \in [DOMAIN probe -> Probe]
    /\ listening \in [Endpoints -> Keys \cup {NoKey}]
    /\ \A p \in DOMAIN probe : probe[p].result = "online" => probe[p].left = 0

\* While a handler is away, the id it will write to names the row of the
\* endpoint it is talking to or nothing, and the key it sends is one that was
\* the credential of that row.
ProbeIsAboutItsRow ==
    \A p \in DOMAIN probe :
       /\ probe[p].hash = HashNodeKey(probe[p].nodeKey)
       /\ probe[p].id \in DOMAIN rows =>
             rows[probe[p].id].endpoint = probe[p].endpoint

\* A node that is deleted and registered anew, even under the same endpoint,
\* never receives a result that was measured for the registration before: no
\* handler on its way holds the id of a row that is just being inserted.
ResultStaysWithRegistration ==
    [][\A id \in DOMAIN rows' \ DOMAIN rows :
          \A p \in DOMAIN probe : probe[p].id # id]_centreVars

\* The health columns tell one story after any interleaving of results,
\* rotations and switches: online with a latency, no error and a time it was
\* seen; error with a message and no latency; unknown with nothing.
HealthColumnsCoherent ==
    \A id \in DOMAIN rows :
       /\ rows[id].last_latency_ms <=> rows[id].last_status = "online"
       /\ rows[id].last_error <=> rows[id].last_status = "error"
       /\ rows[id].last_status = "online" => rows[id].last_seen_at
       /\ rows[id].last_status = "unknown" => ~rows[id].last_seen_at
=============================================================================
