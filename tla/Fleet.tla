-------------------------------- MODULE Fleet --------------------------------
(***************************************************************************)
(* The centre and its nodes together: agents that register themselves, are *)
(* restarted, moved and given keys (AgentRegistration), while handlers of  *)
(* the centre check, test and relay to them (HealthProbe), over the one    *)
(* node table both work on (NodeStore).                                    *)
(*                                                                         *)
(* What HealthProbe assumes of the agents it contacts is here what they    *)
(* do: an endpoint listens with the key of the agent that serves there.    *)
(***************************************************************************)
EXTENDS AgentRegistration, HealthProbe

fleetVars == <<vars, agentVars, probeVars>>

-----------------------------------------------------------------------------

ServingAt(e) == {a \in Agents : agent[a].pc = "serving" /\ agent[a].endpoint = e}

\* runNode: the server is given the key of the agent that starts it, and goes
\* with its process.
Served == [e \in Endpoints |->
              IF ServingAt(e) = {} THEN NoKey
              ELSE agent[CHOOSE a \in ServingAt(e) : TRUE].key]

\* The agents, the registration handlers and the operator.
Registering ==
    /\ RegistrationNext
    /\ listening' = Served'
    /\ UNCHANGED probe

\* A health check, a speed test or a proxied request.
Probing ==
    /\ \E p \in Probes : ProbeStep(p)
    /\ UNCHANGED agentVars

\* POST /api/nodes/{id}/enable and disable.
Switching ==
    /\ \E id \in 1..MaxId, enabled \in BOOLEAN : SetEnabled(id, enabled)
    /\ UNCHANGED <<agentVars, probeVars>>

\* The process of the centre is stopped and started.  A registration it was
\* carrying out is cut off before (Refuse); the agents go on.
RestartingCentre ==
    /\ \A c \in DOMAIN call : call[c].state # "sent"
    /\ \E new \in Settings : RestartCentre(new)
    /\ UNCHANGED agentVars

FleetInit == RegistrationInit /\ ProbeInit

FleetNext == Registering \/ Probing \/ Switching \/ RestartingCentre

FleetSpec == FleetInit /\ [][FleetNext]_fleetVars

-----------------------------------------------------------------------------
(* Properties.                                                             *)

\* The types of the parts, and the endpoints listen with what is served.
FleetTypeOK ==
    /\ RegistrationTypeOK
    /\ ProbeTypeOK
    /\ listening = Served

\* While an agent is in sync with the centre, no request that carries the key
\* the centre now has for its endpoint is turned away by the token comparison.
SyncedNodesLetIn ==
    \A a \in Agents, p \in DOMAIN probe :
       /\ InSync(a)
       /\ probe[p].endpoint = agent[a].endpoint
       /\ \E id \in FindByAddressPort(agent[a].endpoint) :
             rows[id].node_key_hash = probe[p].hash
       => Authenticates(probe[p].endpoint, probe[p].nodeKey)

\* No request carries to one endpoint the key that opens the agent at another.
OthersStayShut ==
    \A a \in Agents, p \in DOMAIN probe :
       /\ agent[a].key # NoKey
       /\ probe[p].endpoint # agent[a].endpoint
       => agent[a].key # probe[p].nodeKey

\* A check, test or proxied transfer opens the node it was meant for and no
\* other, however often keys were rotated, nodes moved with their node.ini,
\* rows deleted and the centre restarted since the handler read its row.
RequestsFitTheirNode == SyncedNodesLetIn /\ OthersStayShut
=============================================================================
