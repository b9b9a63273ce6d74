-------------------------- MODULE AgentRegistration --------------------------
(***************************************************************************)
(* Node agents registering themselves with the centre (cmd/node/main.go,   *)
(* cmd/node/register.go, internal/config/nodeini.go, and the handler in    *)
(* cmd/web/register.go), over the node table of NodeStore.                 *)
(*                                                                         *)
(* An agent loads node.ini, presents the key it finds there, retries until *)
(* a reply arrives or the attempts run out, writes the granted key back    *)
(* and serves.  The centre answers a call by one store operation, at any   *)
(* time after the call was sent: the handler neither watches the request's *)
(* context nor bounds the DNS lookup before that operation, so a call the  *)
(* agent has given up on after registerTimeout is still carried out.       *)
(*                                                                         *)
(* Rows are not disabled and not probed here: neither changes what a       *)
(* registration decides (Fleet adds both).                                 *)
(***************************************************************************)
EXTENDS NodeStore, Integers

CONSTANTS Agents,
          Calls,            \* bound: registration calls in flight at a time
          NoCall,           \* no call is awaited
          Retries,          \* NODE_REGISTER_RETRIES
          MaxDisruptions    \* bound: faults and operator interventions

ASSUME RetriesAssumption == Retries \in Int
ASSUME MaxDisruptionsAssumption == MaxDisruptions \in Nat
ASSUME NoCallAssumption == NoCall \notin Calls

VARIABLES agent,        \* the agent processes and their environment variables
          ini,          \* node_key in each agent's node.ini; NoKey: no file
          call,         \* the calls in flight: slot -> call
          disruptions   \* how many disruptions have happened

agentVars == <<agent, ini, call, disruptions>>
systemVars == <<vars, agentVars>>

Agent == [pc       : {"down", "registering", "waiting", "saving", "serving"},
          endpoint : Endpoints,                 \* NODE_ADDRESS and Port()
          override : Keys \cup {NoKey},         \* NODE_KEY
          existing : Keys \cup {NoKey},         \* existingKey
          attempt  : Nat,
          awaits   : Calls \cup {NoCall},
          key      : Keys \cup {NoKey}]         \* nodeKey

Call == [state    : {"sent", "answered", "refused"},
         endpoint : Endpoints,
         existing : Keys \cup {NoKey},
         node_key : Keys \cup {NoKey}]

Attempts == IF Retries < 1 THEN 1 ELSE Retries

Awaited(c) == \E a \in Agents : agent[a].awaits = c

\* The calls without c: its slot can be used again.
Without(c) == [d \in DOMAIN call \ {c} |-> call[d]]

\* The centre accepts k as the credential of e.
Accepted(e, k) ==
    \E id \in FindByAddressPort(e) : rows[id].node_key_hash = HashNodeKey(k)

\* Slots are only ever compared for equality, so which unused one is taken makes
\* no difference.
NextSlot == CHOOSE c \in Calls : c \notin DOMAIN call

Disruption ==
    /\ disruptions < MaxDisruptions
    /\ disruptions' = disruptions + 1

-----------------------------------------------------------------------------
(* The agent.                                                              *)

\* Seeded fault: only the first attempt carries existing_node_key.
PresentedKeyOnce(a) == IF agent[a].attempt = 1 THEN agent[a].existing ELSE NoKey

\* existing_node_key of the request: the key loaded at boot.
PresentedKey(a) == agent[a].existing

\* Seeded fault: one attempt too many.
CanRetryOnceMore(a) == agent[a].attempt <= Attempts

CanRetry(a) == agent[a].attempt < Attempts

\* Seeded fault: an HTTP error status is not taken for a failed attempt.
TimedOut(a) == call[agent[a].awaits].state # "refused" /\ Disruption

\* registerOnce returns an error: the centre refused or, as a disruption, the
\* client timed out or the connection broke.
AttemptFailed(a) ==
    \/ call[agent[a].awaits].state = "refused" /\ UNCHANGED disruptions
    \/ call[agent[a].awaits].state # "refused" /\ Disruption

\* The node_key in the file; NoKey when there is no file or no such key.
LoadNodeState(a) == ini[a]

\* NODE_KEY is used as it is; otherwise the key of node.ini is loaded and the
\* registration starts.
Boot(a) ==
    /\ agent[a].pc = "down"
    /\ agent' = [agent EXCEPT ![a] =
          IF @.override # NoKey
          THEN [@ EXCEPT !.pc = "serving", !.key = agent[a].override]
          ELSE [@ EXCEPT !.pc = "registering", !.existing = LoadNodeState(a),
                         !.attempt = 1]]
    /\ UNCHANGED <<vars, ini, call, disruptions>>

\* registerOnce up to client.Do.
SendRequest(a) ==
    /\ agent[a].pc = "registering"
    /\ DOMAIN call # Calls
    /\ call' = [c \in DOMAIN call \cup {NextSlot} |->
                  IF c \in DOMAIN call THEN call[c]
                  ELSE [state    |-> "sent",
                        endpoint |-> agent[a].endpoint,
                        existing |-> PresentedKey(a),
                        node_key |-> NoKey]]
    /\ agent' = [agent EXCEPT ![a].pc = "waiting", ![a].awaits = NextSlot]
    /\ UNCHANGED <<vars, ini, disruptions>>

ReceiveReply(a) ==
    LET c == agent[a].awaits IN
    /\ agent[a].pc = "waiting"
    /\ call[c].state = "answered"
    /\ agent' = [agent EXCEPT ![a].pc = "saving", ![a].awaits = NoCall,
                              ![a].existing = NoKey,
                              ![a].attempt = 0, ![a].key = call[c].node_key]
    /\ call' = Without(c)
    /\ UNCHANGED <<vars, ini, disruptions>>

\* The agent stops waiting.  What has not reached its store operation yet
\* stays in flight; a reply on its way is lost.
Abandon(a) ==
    LET c == agent[a].awaits IN
    call' = IF agent[a].pc = "waiting" /\ call[c].state # "sent"
            THEN Without(c) ELSE call

\* After the last attempt the process exits.
AttemptFails(a) ==
    /\ agent[a].pc = "waiting"
    /\ AttemptFailed(a)
    /\ Abandon(a)
    /\ agent' = [agent EXCEPT ![a] =
          IF CanRetry(a)
          THEN [@ EXCEPT !.pc = "registering", !.awaits = NoCall,
                         !.attempt = agent[a].attempt + 1]
          ELSE [@ EXCEPT !.pc = "down", !.awaits = NoCall, !.existing = NoKey,
                         !.attempt = 0]]
    /\ UNCHANGED <<vars, ini>>

\* Seeded fault: a node.ini that holds a key is not overwritten.
SavedIniOnce(a) ==
    IF ini[a] = NoKey THEN [ini EXCEPT ![a] = agent[a].key] ELSE ini

SavedIni(a) == [ini EXCEPT ![a] = agent[a].key]

\* SaveNodeState replaces the file by a rename or leaves it alone; a failure is
\* only logged, and the agent serves with the key it was granted.
SaveNodeState(a) ==
    /\ agent[a].pc = "saving"
    /\ \/ ini' = SavedIni(a) /\ UNCHANGED disruptions
       \/ UNCHANGED ini /\ Disruption
    /\ agent' = [agent EXCEPT ![a].pc = "serving"]
    /\ UNCHANGED <<vars, call>>

\* The process dies, at any point; only node.ini survives.
Crash(a) ==
    /\ agent[a].pc # "down"
    /\ Disruption
    /\ Abandon(a)
    /\ agent' = [agent EXCEPT ![a] =
          [@ EXCEPT !.pc = "down", !.awaits = NoCall, !.existing = NoKey,
                    !.attempt = 0, !.key = NoKey]]
    /\ UNCHANGED <<vars, ini>>

-----------------------------------------------------------------------------
(* The registration handler of the centre.                                 *)

\* Whatever the handler writes, nobody reads it if the agent has given up.
Reply(c, state, key) ==
    call' = IF Awaited(c)
            THEN [call EXCEPT ![c].state = state, ![c].node_key = key]
            ELSE Without(c)

Granted(c) == GrantedKey(call[c].endpoint, call[c].existing, DrawnKey)

RegisterCaller(c) ==
    /\ Register(TRUE, call[c].endpoint, call[c].existing, DrawnKey)

\* The store operation commits and its result is sent back.
Answer(c) ==
    /\ c \in DOMAIN call
    /\ call[c].state = "sent"
    /\ RegisterCaller(c)
    /\ Reply(c, "answered", Granted(c))
    /\ UNCHANGED <<agent, ini, disruptions>>

\* The handler answers an error: before the store operation (netguard, DNS,
\* SQLite, sealing), or after its statement has been committed, when reading
\* the row back or serialising it fails.
Refuse(c) ==
    /\ c \in DOMAIN call
    /\ call[c].state = "sent"
    /\ Disruption
    /\ RegisterCaller(c) \/ UNCHANGED vars
    /\ Reply(c, "refused", NoKey)
    /\ UNCHANGED <<agent, ini>>

-----------------------------------------------------------------------------
(* The operator.                                                           *)

\* POST /api/register for an endpoint; the key goes to an agent that is down,
\* as its NODE_KEY, or is not used at all.
ManualRegister(e) ==
    /\ Disruption
    /\ Register(FALSE, e, NoKey, DrawnKey)
    /\ \/ UNCHANGED agent
       \/ \E a \in Agents :
             /\ agent[a].pc = "down" /\ agent[a].endpoint = e
             /\ agent' = [agent EXCEPT ![a].override = DrawnKey]
    /\ UNCHANGED <<ini, call>>

DeleteNode(id) ==
    /\ Disruption
    /\ Delete(id)
    /\ UNCHANGED <<agent, ini, call>>

\* The agent's machine gets another address or port, and with it its node.ini
\* but not its NODE_KEY.  Two agents never announce the same endpoint.
Reconfigure(a, e) ==
    /\ agent[a].pc = "down"
    /\ \A b \in Agents : agent[b].endpoint # e
    /\ Disruption
    /\ agent' = [agent EXCEPT ![a].endpoint = e, ![a].override = NoKey]
    /\ UNCHANGED <<vars, ini, call>>

Operator ==
    \/ \E e \in Endpoints : ManualRegister(e)
    \/ \E id \in 1..MaxId : DeleteNode(id)
    \/ \E a \in Agents, e \in Endpoints : Reconfigure(a, e)

-----------------------------------------------------------------------------

RegistrationInit ==
    /\ Init
    /\ \E home \in [Agents -> Endpoints] :
          /\ \A a, b \in Agents : home[a] = home[b] => a = b
          /\ agent = [a \in Agents |->
                [pc |-> "down", endpoint |-> home[a], override |-> NoKey,
                 existing |-> NoKey, attempt |-> 0, awaits |-> NoCall,
                 key |-> NoKey]]
    /\ call = [c \in {} |-> {}]
    /\ ini = [a \in Agents |-> NoKey]
    /\ disruptions = 0

\* What the agent does by itself; docker-compose restarts one that exited.
AgentStep(a) ==
    \/ Boot(a) \/ SendRequest(a) \/ ReceiveReply(a) \/ AttemptFails(a)
    \/ SaveNodeState(a)

RegistrationNext ==
    \/ \E a \in Agents : AgentStep(a) \/ Crash(a)
    \/ \E c \in Calls : Answer(c) \/ Refuse(c)
    \/ Operator

RegistrationSpec == RegistrationInit /\ [][RegistrationNext]_systemVars

\* A running or restartable agent keeps going, and the centre keeps answering.
Fairness ==
    /\ \A a \in Agents : WF_systemVars(AgentStep(a))
    /\ \A c \in Calls : WF_systemVars(Answer(c))

FairRegistrationSpec == RegistrationSpec /\ Fairness

-----------------------------------------------------------------------------
(* Properties.                                                             *)

\* The agents' and the calls' fields have their types, attempts stay within
\* NODE_REGISTER_RETRIES, and an awaited call is in flight for its agent.
RegistrationTypeOK ==
    /\ TypeOK
    /\ agent \in [Agents -> Agent]
    /\ ini \in [Agents -> Keys \cup {NoKey}]
    /\ DOMAIN call \subseteq Calls
    /\ call \in [DOMAIN call -> Call]
    /\ disruptions \in 0..MaxDisruptions
    /\ \A a \in Agents :
          /\ agent[a].attempt <= Attempts
          /\ agent[a].pc = "waiting" <=> agent[a].awaits # NoCall
          /\ agent[a].pc = "waiting" =>
                /\ agent[a].awaits \in DOMAIN call
                /\ call[agent[a].awaits].endpoint = agent[a].endpoint

\* A key an agent was granted opens, if anything, the endpoint the agent
\* announced: not even an agent that moved with its node.ini, or whose old
\* request is carried out late, gets or keeps the credential of another node.
CredentialStaysHome ==
    \A a \in Agents, id \in DOMAIN rows :
       /\ agent[a].key # NoKey
       /\ rows[id].node_key_hash = HashNodeKey(agent[a].key)
       => rows[id].endpoint = agent[a].endpoint

\* node.ini holds the key the centre accepts for the agent's endpoint.
Agrees(a) == Accepted(agent[a].endpoint, ini[a])

\* A call for a's endpoint that nobody waits for any more and that presents
\* something else than node.ini holds by now.
Outdated(c, a) ==
    /\ call[c].endpoint = agent[a].endpoint
    /\ call[c].existing # ini[a]
    /\ ~Awaited(c)

\* Once node.ini and the centre agree, no crash, restart, retry, lost reply,
\* refusal after the commit or failed save parts them, though any of these
\* repeats the registration: only an operator does, or a request that was given
\* up and that the centre carries out after node.ini has moved on.
AgreementEnds ==
    [][\A a \in Agents : Agrees(a) /\ ~Agrees(a)' =>
          \/ Operator
          \/ \E c \in DOMAIN call : Outdated(c, a) /\ (Answer(c) \/ Refuse(c))
      ]_systemVars

\* An agent serves with a key that is in its node.ini and that the centre
\* accepts.
InSync(a) ==
    /\ agent[a].pc = "serving"
    /\ agent[a].key = ini[a]
    /\ Accepted(agent[a].endpoint, ini[a])

\* README.md:26 of the repository: as long as the key in node.ini is valid, a
\* registration of the node reuses it and does not rotate it.  Read for a node
\* that serves with that key, and that no operator touches.
SyncedNodesKeepTheirKey ==
    [][\A a \in Agents : InSync(a) /\ ~Operator =>
          Accepted(agent[a].endpoint, ini[a])']_systemVars

\* After the last disruption every agent ends up serving for good, though its
\* attempts may have run out and its process exited before.
EventuallyServing == <>[](\A a \in Agents : agent[a].pc = "serving")

\* Restarting an agent heals whatever happened to its key before, once no
\* request of an earlier life is in flight (README.md:76 of the repository).
RestartHeals ==
    \A a \in Agents :
       [](/\ agent[a].pc = "down" /\ agent[a].override = NoKey
          /\ disruptions = MaxDisruptions
          /\ \A c \in DOMAIN call : call[c].endpoint # agent[a].endpoint
          => <>[]InSync(a))
=============================================================================
