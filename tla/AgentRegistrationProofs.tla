----------------------- MODULE AgentRegistrationProofs -----------------------
(***************************************************************************)
(* Theorems about AgentRegistration, for any number of agents, calls in    *)
(* flight, attempts and disruptions: no agent holds another's credential,  *)
(* who parts node.ini and the table once they agree, and that the table    *)
(* under all this still implements NodeStore.                              *)
(***************************************************************************)
EXTENDS AgentRegistration, NodeStoreProofs

USE MaxIdAssumption, NoKeyAssumption, RetriesAssumption,
    MaxDisruptionsAssumption, NoCallAssumption

\* The key has been drawn, and the row it opens, if any, is the one of e.
AtHome(table, drawn, e, k) ==
    /\ k \in drawn
    /\ \A id \in DOMAIN table :
          table[id].node_key_hash = HashNodeKey(k) => table[id].endpoint = e

\* What one agent's fields say of one another.
Sound(g) ==
    /\ g \in Agent
    /\ g.attempt <= Attempts
    /\ g.pc = "waiting" <=> g.awaits # NoCall
    /\ g.pc \in {"down", "registering", "waiting"} => g.key = NoKey

AgentsSound ==
    /\ agent \in [Agents -> Agent]
    /\ \A a \in Agents : Sound(agent[a])

CallsTyped ==
    /\ DOMAIN call \subseteq Calls
    /\ call \in [DOMAIN call -> Call]

\* An awaited call is in flight, for the endpoint of the one agent that awaits
\* it.
AwaitedInFlight ==
    \A a \in Agents :
       agent[a].awaits # NoCall =>
          /\ agent[a].awaits \in DOMAIN call
          /\ call[agent[a].awaits].endpoint = agent[a].endpoint
          /\ \A b \in Agents : agent[b].awaits = agent[a].awaits => b = a

\* Agents do not share an endpoint.
OwnEndpoints ==
    \A a, b \in Agents : agent[a].endpoint = agent[b].endpoint => a = b

\* Keys that agents hold, or are on their way to them, are at home.
AgentKeysAtHome ==
    \A a \in Agents : \A k \in {agent[a].key, agent[a].override} :
       k # NoKey => AtHome(rows, generated, agent[a].endpoint, k)

CallKeysAtHome ==
    \A c \in DOMAIN call :
       call[c].node_key # NoKey =>
          AtHome(rows, generated, call[c].endpoint, call[c].node_key)

\* The inductive invariant.
RegistrationInv ==
    /\ IInv
    /\ AgentsSound
    /\ CallsTyped
    /\ ini \in [Agents -> Keys \cup {NoKey}]
    /\ disruptions \in 0..MaxDisruptions
    /\ AwaitedInFlight
    /\ OwnEndpoints
    /\ AgentKeysAtHome
    /\ CallKeysAtHome

-----------------------------------------------------------------------------
(* The table.                                                              *)

\* Whatever key is presented, a registration is a step of the table.
LEMMA RegistrationIsATableStep ==
    ASSUME IInv, NEW auto \in BOOLEAN, NEW e \in Endpoints,
           NEW presented \in Keys \cup {NoKey}, Register(auto, e, presented, DrawnKey)
    PROVE  Next
<1> DEFINE existing == IF auto THEN presented ELSE NoKey
<1>1. existing \in Keys \cup {NoKey}
  OBVIOUS
<1>2. RegisterOrReuse(e, existing, DrawnKey)
  BY DEF Register
<1> HIDE DEF existing
<1>3. CASE Reuse(e, existing)
  <2>1. existing \in Keys
    BY <1>1, <1>3 DEF Reuse, Reuses
  <2>2. Register(TRUE, e, existing, existing)
    BY <1>2, <1>3 DEF Register, RegisterOrReuse
  <2> QED
    BY <2>1, <2>2 DEF Next
<1>4. CASE ~Reuse(e, existing)
  <2>1. DrawnKey \in Keys
    BY <1>2, <1>4 DEF RegisterOrReuse
  <2>2. Register(TRUE, e, existing, DrawnKey)
    BY <1>2 DEF Register
  <2> QED
    BY <1>1, <2>1, <2>2 DEF Next
<1> QED
  BY <1>3, <1>4

\* A drawn key stays at home in every step of the table: rows keep their
\* credentials, or get one that was never drawn.
LEMMA StaysAtHome ==
    ASSUME IInv, [Next]_vars, NEW e, NEW k, AtHome(rows, generated, e, k)
    PROVE  AtHome(rows', generated', e, k)
<1>1. CASE KeepsCredentials
  BY <1>1 DEF KeepsCredentials, SameCredential, AtHome
<1>2. ASSUME NEW f \in Endpoints, NEW new \in Keys, new \notin generated,
             generated' = generated \cup {new}, Insert(f, new)
      PROVE  AtHome(rows', generated', e, k)
  <2>1. /\ DOMAIN rows' = DOMAIN rows \cup {NextId}
        /\ rows'[NextId].node_key_hash = HashNodeKey(new)
        /\ \A id \in DOMAIN rows : id # NextId => rows'[id] = rows[id]
    BY <1>2 DEF Insert, NewRow
  <2>2. HashNodeKey(new) # HashNodeKey(k)
    BY <1>2 DEF HashNodeKey, AtHome
  <2> QED
    BY <1>2, <2>1, <2>2 DEF AtHome
<1>3. ASSUME NEW f \in Endpoints, NEW new \in Keys, new \notin generated,
             generated' = generated \cup {new}, Rotate(f, new)
      PROVE  AtHome(rows', generated', e, k)
  <2>1. \A row \in Row : Rekeyed(row, new).node_key_hash = HashNodeKey(new)
    BY DEF Rekeyed, Row
  <2>2. \A id \in DOMAIN rows : rows[id] \in Row
    BY DEF IInv, TypeOK
  <2>3. /\ DOMAIN rows' = DOMAIN rows
        /\ \A id \in DOMAIN rows : \/ rows'[id] = rows[id]
                                   \/ rows'[id].node_key_hash = HashNodeKey(new)
    BY <1>3, <2>1, <2>2 DEF Rotate
  <2>4. HashNodeKey(new) # HashNodeKey(k)
    BY <1>3 DEF HashNodeKey, AtHome
  <2> QED
    BY <1>3, <2>3, <2>4 DEF AtHome
<1>4. CASE UNCHANGED vars
  BY <1>4 DEF vars
<1> QED
  BY <1>1, <1>2, <1>3, <1>4, StepCases

\* What a registration grants is at home where it was asked for: the key of
\* the row that is reused, which is no other row's, or a fresh one.
LEMMA GrantedAtHome ==
    ASSUME IInv, NEW e \in Endpoints, NEW existing \in Keys \cup {NoKey},
           RegisterOrReuse(e, existing, DrawnKey)
    PROVE  LET k == GrantedKey(e, existing, DrawnKey) IN
           k \in Keys /\ AtHome(rows', generated', e, k)
<1>1. CASE Reuse(e, existing)
  <2>1. PICK id \in DOMAIN rows : /\ rows[id].endpoint = e
                                  /\ rows[id].node_key_hash = HashNodeKey(existing)
    BY <1>1 DEF Reuse, Reuses, FindByKeyHash, FindByAddressPort
  <2>2. existing \in Keys /\ GrantedKey(e, existing, DrawnKey) = existing
    BY <1>1 DEF Reuse, Reuses, GrantedKey
  <2>3. existing \in generated
    BY <2>1 DEF IInv, CredentialsDrawn, HashNodeKey
  <2>4. \A i \in DOMAIN rows :
           rows[i].node_key_hash = HashNodeKey(existing) => i = id
    BY <2>1 DEF IInv, RegistryConsistent
  <2>5. AtHome(rows, generated, e, existing)
    BY <2>1, <2>3, <2>4 DEF AtHome
  <2>6. KeepsCredentials
    BY <1>1, ReuseStep DEF IInv, RegisterOrReuse
  <2> QED
    BY <2>2, <2>5, <2>6 DEF AtHome, KeepsCredentials, SameCredential
<1>2. CASE /\ ~Reuses(e, existing) /\ DrawnKey \in Keys \ generated
           /\ generated' = generated \cup {DrawnKey}
           /\ Insert(e, DrawnKey) \/ Rotate(e, DrawnKey)
  <2> DEFINE k == DrawnKey
  <2>1. GrantedKey(e, existing, DrawnKey) = k /\ k \in Keys /\ k \notin generated
        /\ generated' = generated \cup {k}
    BY <1>2 DEF GrantedKey
  <2>2. Insert(e, k) \/ Rotate(e, k)
    BY <1>2
  <2> HIDE DEF k
  <2>3. \A id \in DOMAIN rows : rows[id].node_key_hash # HashNodeKey(k)
    BY <2>1 DEF IInv, CredentialsDrawn, HashNodeKey
  <2>4. CASE Insert(e, k)
    <3>1. /\ DOMAIN rows' = DOMAIN rows \cup {NextId}
          /\ rows'[NextId].endpoint = e
          /\ \A id \in DOMAIN rows : id # NextId => rows'[id] = rows[id]
      BY <2>4 DEF Insert, NewRow
    <3> QED
      BY <2>1, <2>3, <3>1 DEF AtHome
  <2>5. CASE Rotate(e, k)
    <3>1. \A row \in Row : Rekeyed(row, k).endpoint = row.endpoint
      BY DEF Rekeyed, Row
    <3>2. \A id \in DOMAIN rows : rows[id] \in Row
      BY DEF IInv, TypeOK
    <3>3. /\ DOMAIN rows' = DOMAIN rows
          /\ \A id \in DOMAIN rows : \/ rows'[id] = rows[id]
                                     \/ rows'[id].endpoint = e
      BY <2>5, <3>1, <3>2 DEF Rotate, FindByAddressPort
    <3> QED
      BY <2>1, <2>3, <3>3 DEF AtHome
  <2> QED
    BY <2>1, <2>2, <2>4, <2>5
<1> QED
  BY <1>1, <1>2 DEF RegisterOrReuse

-----------------------------------------------------------------------------
(* Steps of one agent.                                                     *)

\* A step that replaces the record of one agent keeps the invariant if the new
\* record is sound, its keys are at home, it awaits a call that no other agent
\* awaits, and the calls of the other agents are left alone.
LEMMA OneAgent ==
    ASSUME RegistrationInv, [Next]_vars, NEW a \in Agents, NEW g, Sound(g),
           agent' = [agent EXCEPT ![a] = g],
           \A b \in Agents : agent[b].endpoint = g.endpoint => b = a,
           ini' \in [Agents -> Keys \cup {NoKey}],
           disruptions' \in 0..MaxDisruptions,
           CallsTyped', CallKeysAtHome',
           \A b \in Agents \ {a} : agent[b].awaits # NoCall =>
              /\ agent[b].awaits \in DOMAIN call'
              /\ call'[agent[b].awaits].endpoint = call[agent[b].awaits].endpoint
              /\ agent[b].awaits # g.awaits,
           g.awaits # NoCall =>
              g.awaits \in DOMAIN call' /\ call'[g.awaits].endpoint = g.endpoint,
           \A k \in {g.key, g.override} :
              k # NoKey => AtHome(rows', generated', g.endpoint, k)
    PROVE  RegistrationInv'
<1>1. /\ agent \in [Agents -> Agent] /\ g \in Agent
      /\ \A b \in Agents : Sound(agent[b])
  BY DEF RegistrationInv, AgentsSound, Sound
<1>2. /\ agent' \in [Agents -> Agent] /\ agent'[a] = g
      /\ \A b \in Agents \ {a} : agent'[b] = agent[b]
  BY <1>1
<1>3. IInv'
  BY InvariantIsInductive DEF RegistrationInv
<1>4. AgentsSound'
  <2>1. \A b \in Agents : Sound(agent'[b])
    BY <1>1, <1>2
  <2> QED
    BY <1>2, <2>1 DEF AgentsSound, Sound
<1>5. AwaitedInFlight'
  <2>1. ASSUME NEW b \in Agents, agent'[b].awaits # NoCall
        PROVE  /\ agent'[b].awaits \in DOMAIN call'
               /\ call'[agent'[b].awaits].endpoint = agent'[b].endpoint
               /\ \A d \in Agents : agent'[d].awaits = agent'[b].awaits => d = b
    BY <1>2, <2>1 DEF RegistrationInv, AwaitedInFlight
  <2> QED
    BY <2>1 DEF AwaitedInFlight
<1>6. OwnEndpoints'
  BY <1>2 DEF RegistrationInv, OwnEndpoints
<1>7. AgentKeysAtHome'
  <2>1. ASSUME NEW b \in Agents, NEW k \in {agent'[b].key, agent'[b].override},
               k # NoKey
        PROVE  AtHome(rows', generated', agent'[b].endpoint, k)
    <3>1. CASE b = a
      BY <1>2, <2>1, <3>1
    <3>2. CASE b # a
      <4>1. AtHome(rows, generated, agent[b].endpoint, k)
        BY <1>2, <2>1, <3>2 DEF RegistrationInv, AgentKeysAtHome
      <4> QED
        BY <1>2, <3>2, <4>1, StaysAtHome DEF RegistrationInv
    <3> QED
      BY <3>1, <3>2
  <2> QED
    BY <2>1 DEF AgentKeysAtHome, AtHome
<1> QED
  BY <1>3, <1>4, <1>5, <1>6, <1>7 DEF RegistrationInv

\* Calls that are left alone, or lose one, stay as they should be.
LEMMA FewerCalls ==
    ASSUME RegistrationInv, [Next]_vars,
           DOMAIN call' \subseteq DOMAIN call,
           call' = [c \in DOMAIN call' |-> call[c]]
    PROVE  CallsTyped' /\ CallKeysAtHome'
<1>1. /\ CallsTyped
      /\ \A c \in DOMAIN call' : c \in DOMAIN call /\ call'[c] = call[c]
  BY DEF RegistrationInv
<1>2. CallsTyped'
  BY <1>1 DEF CallsTyped
<1>3. ASSUME NEW c \in DOMAIN call', call'[c].node_key # NoKey
      PROVE  AtHome(rows', generated', call'[c].endpoint, call'[c].node_key)
  <2>1. AtHome(rows, generated, call[c].endpoint, call[c].node_key)
    BY <1>1, <1>3 DEF RegistrationInv, CallKeysAtHome
  <2> QED
    BY <1>1, <2>1, StaysAtHome DEF RegistrationInv
<1> QED
  BY <1>2, <1>3 DEF CallKeysAtHome, AtHome

\* What an agent knows before a step of its own.
LEMMA OwnFacts ==
    ASSUME RegistrationInv, NEW a \in Agents
    PROVE  /\ agent[a] \in Agent /\ Sound(agent[a])
           /\ \A b \in Agents : agent[b].endpoint = agent[a].endpoint => b = a
           /\ \A k \in {agent[a].key, agent[a].override} :
                 k # NoKey => AtHome(rows, generated, agent[a].endpoint, k)
           /\ ini[a] \in Keys \cup {NoKey}
           /\ \A b \in Agents \ {a} : agent[b].awaits # NoCall =>
                 /\ agent[b].awaits \in DOMAIN call
                 /\ agent[b].awaits # agent[a].awaits
  BY DEF RegistrationInv, AgentsSound, OwnEndpoints, AgentKeysAtHome,
         AwaitedInFlight

\* A step of an agent that awaits nothing after it and does not touch the table;
\* if a call goes, it is the one it awaited.
LEMMA OneAgentAlone ==
    ASSUME RegistrationInv, UNCHANGED vars, NEW a \in Agents, NEW g, Sound(g),
           agent' = [agent EXCEPT ![a] = g],
           g.endpoint = agent[a].endpoint, g.awaits = NoCall,
           call' = call \/ call' = Without(agent[a].awaits),
           ini' \in [Agents -> Keys \cup {NoKey}],
           disruptions' \in 0..MaxDisruptions,
           \A k \in {g.key, g.override} :
              k # NoKey => AtHome(rows, generated, g.endpoint, k)
    PROVE  RegistrationInv'
<1>1. /\ DOMAIN call' \subseteq DOMAIN call
      /\ call' = [c \in DOMAIN call' |-> call[c]]
      /\ \A c \in DOMAIN call : c # agent[a].awaits =>
            c \in DOMAIN call' /\ call'[c] = call[c]
  <2>1. call = [c \in DOMAIN call |-> call[c]]
    BY DEF RegistrationInv, CallsTyped
  <2> QED
    BY <2>1 DEF Without
<1>2. CallsTyped' /\ CallKeysAtHome'
  BY <1>1, FewerCalls
<1>3. \A b \in Agents \ {a} : agent[b].awaits # NoCall =>
         /\ agent[b].awaits \in DOMAIN call'
         /\ call'[agent[b].awaits].endpoint = call[agent[b].awaits].endpoint
         /\ agent[b].awaits # g.awaits
  BY <1>1, OwnFacts
<1>4. \A k \in {g.key, g.override} :
         k # NoKey => AtHome(rows', generated', g.endpoint, k)
  BY DEF vars
<1>5. \A b \in Agents : agent[b].endpoint = g.endpoint => b = a
  BY OwnFacts
<1> QED
  BY <1>2, <1>3, <1>4, <1>5, OneAgent

\* The fields of an agent's record.
LEMMA AgentFields ==
    ASSUME NEW old \in Agent
    PROVE  DOMAIN old = {"pc", "endpoint", "override", "existing", "attempt",
                         "awaits", "key"}
  BY DEF Agent

\* What an agent's record looks like once it awaits nothing any more.
LEMMA NotWaiting ==
    ASSUME NEW old \in Agent, NEW pc \in {"down", "registering", "saving"},
           NEW existing \in Keys \cup {NoKey}, NEW attempt \in Nat,
           NEW key \in Keys \cup {NoKey},
           attempt <= Attempts, pc # "saving" => key = NoKey
    PROVE  LET new == [pc |-> pc, endpoint |-> old.endpoint,
                       override |-> old.override, existing |-> existing,
                       attempt |-> attempt, awaits |-> NoCall, key |-> key] IN
           /\ Sound(new) /\ new.endpoint = old.endpoint /\ new.awaits = NoCall
           /\ new.key = key /\ new.override = old.override
  BY DEF Sound, Agent

\* An agent starts, with NODE_KEY or with a registration.
LEMMA BootStep ==
    ASSUME RegistrationInv, NEW a \in Agents, Boot(a)
    PROVE  RegistrationInv'
<1> DEFINE old == agent[a]
           overridden == [old EXCEPT !.pc = "serving", !.key = old.override]
           registering == [old EXCEPT !.pc = "registering", !.existing = ini[a],
                                      !.attempt = 1]
           new == IF old.override # NoKey THEN overridden ELSE registering
<1>1. old \in Agent /\ Sound(old) /\ ini[a] \in Keys \cup {NoKey}
      /\ Attempts \in Nat /\ 1 <= Attempts
  BY OwnFacts DEF Attempts
<1>2. old.pc = "down" /\ agent' = [agent EXCEPT ![a] = new]
      /\ UNCHANGED vars /\ UNCHANGED <<ini, call, disruptions>>
      /\ ini' \in [Agents -> Keys \cup {NoKey}]
      /\ disruptions' \in 0..MaxDisruptions
  BY DEF Boot, LoadNodeState, RegistrationInv, AgentsSound
<1>3. CASE old.override # NoKey
  <2>1. /\ Sound(overridden) /\ overridden.endpoint = old.endpoint
        /\ overridden.awaits = NoCall
        /\ overridden.key = old.override /\ overridden.override = old.override
    BY <1>1, <1>2, <1>3 DEF Sound, Agent
  <2>2. \A k \in {overridden.key, overridden.override} :
           k # NoKey => AtHome(rows, generated, overridden.endpoint, k)
    BY <2>1, OwnFacts
  <2> HIDE DEF overridden
  <2> QED
    BY <1>2, <1>3, <2>1, <2>2, OneAgentAlone
<1>4. CASE old.override = NoKey
  <2>1. /\ Sound(registering) /\ registering.endpoint = old.endpoint
        /\ registering.awaits = NoCall /\ registering.key = NoKey
        /\ registering.override = NoKey
    BY <1>1, <1>2, <1>4 DEF Sound, Agent
  <2>2. \A k \in {registering.key, registering.override} :
           k # NoKey => AtHome(rows, generated, registering.endpoint, k)
    BY <2>1
  <2> HIDE DEF registering
  <2> QED
    BY <1>2, <1>4, <2>1, <2>2, OneAgentAlone
<1> QED
  BY <1>3, <1>4

\* There is a slot for a new call.
LEMMA SlotIsFree ==
    ASSUME CallsTyped, DOMAIN call # Calls
    PROVE  NextSlot \in Calls /\ NextSlot \notin DOMAIN call
<1>1. \E c \in Calls : c \notin DOMAIN call
  BY DEF CallsTyped
<1> QED
  BY <1>1 DEF NextSlot

\* An agent sends its request in a slot that nobody awaits.
LEMMA SendRequestStep ==
    ASSUME RegistrationInv, NEW a \in Agents, SendRequest(a)
    PROVE  RegistrationInv'
<1> DEFINE old == agent[a]
           slot == NextSlot
           new == [old EXCEPT !.pc = "waiting", !.awaits = slot]
           request == [state |-> "sent", endpoint |-> old.endpoint,
                       existing |-> PresentedKey(a), node_key |-> NoKey]
<1>1. old \in Agent /\ Sound(old)
  BY OwnFacts
<1>2. /\ old.pc = "registering" /\ DOMAIN call # Calls
      /\ UNCHANGED vars /\ UNCHANGED <<ini, disruptions>>
      /\ call' = [c \in DOMAIN call \cup {slot} |->
                    IF c \in DOMAIN call THEN call[c] ELSE request]
      /\ agent' = [agent EXCEPT ![a].pc = "waiting", ![a].awaits = slot]
  BY DEF SendRequest
<1>3. slot \in Calls /\ slot \notin DOMAIN call
  BY <1>2, SlotIsFree DEF RegistrationInv
<1> HIDE DEF slot
<1>4. agent' = [agent EXCEPT ![a] = new]
  BY <1>1, <1>2 DEF RegistrationInv, AgentsSound
<1>5. /\ Sound(new) /\ new.endpoint = old.endpoint /\ new.awaits = slot
      /\ new.key = old.key /\ new.override = old.override
  BY <1>1, <1>2, <1>3 DEF Sound, Agent
<1>6. request \in Call /\ request.node_key = NoKey /\ request.endpoint = old.endpoint
  BY <1>1 DEF Call, Agent, PresentedKey
<1> HIDE DEF new, request
<1>7. /\ DOMAIN call' = DOMAIN call \cup {slot} /\ call'[slot] = request
      /\ \A c \in DOMAIN call : call'[c] = call[c]
  BY <1>2, <1>3
<1>8. CallsTyped'
  BY <1>2, <1>3, <1>6, <1>7 DEF RegistrationInv, CallsTyped
<1>9. CallKeysAtHome'
  <2>1. ASSUME NEW c \in DOMAIN call', call'[c].node_key # NoKey
        PROVE  AtHome(rows', generated', call'[c].endpoint, call'[c].node_key)
    <3>1. c \in DOMAIN call /\ call'[c] = call[c]
      BY <2>1, <1>6, <1>7
    <3>2. AtHome(rows, generated, call[c].endpoint, call[c].node_key)
      BY <2>1, <3>1 DEF RegistrationInv, CallKeysAtHome
    <3> QED
      BY <3>1, <3>2, <1>2 DEF vars
  <2> QED
    BY <2>1 DEF CallKeysAtHome, AtHome
<1>10. \A b \in Agents \ {a} : agent[b].awaits # NoCall =>
         /\ agent[b].awaits \in DOMAIN call'
         /\ call'[agent[b].awaits].endpoint = call[agent[b].awaits].endpoint
         /\ agent[b].awaits # new.awaits
  BY <1>3, <1>5, <1>7, OwnFacts
<1>11. \A k \in {new.key, new.override} :
         k # NoKey => AtHome(rows', generated', new.endpoint, k)
  BY <1>2, <1>5, OwnFacts DEF vars
<1>12. /\ new.awaits \in DOMAIN call' /\ call'[new.awaits].endpoint = new.endpoint
       /\ \A b \in Agents : agent[b].endpoint = new.endpoint => b = a
       /\ ini' \in [Agents -> Keys \cup {NoKey}]
       /\ disruptions' \in 0..MaxDisruptions
  BY <1>2, <1>5, <1>6, <1>7, OwnFacts DEF RegistrationInv
<1> QED
  BY <1>2, <1>4, <1>5, <1>8, <1>9, <1>10, <1>11, <1>12, OneAgent

\* The call an agent waits for.
LEMMA WaitingAgent ==
    ASSUME RegistrationInv, NEW a \in Agents, agent[a].pc = "waiting"
    PROVE  /\ agent[a].awaits \in DOMAIN call
           /\ call[agent[a].awaits] \in Call
           /\ call[agent[a].awaits].endpoint = agent[a].endpoint
           /\ call[agent[a].awaits].node_key # NoKey =>
                 AtHome(rows, generated, agent[a].endpoint,
                        call[agent[a].awaits].node_key)
<1>1. agent[a].awaits # NoCall
  BY OwnFacts DEF Sound
<1>2. /\ agent[a].awaits \in DOMAIN call
      /\ call[agent[a].awaits].endpoint = agent[a].endpoint
  BY <1>1 DEF RegistrationInv, AwaitedInFlight
<1> QED
  BY <1>2 DEF RegistrationInv, CallsTyped, CallKeysAtHome

\* An agent is granted a key: it belongs where the call was made, and that is
\* where the agent still is.
LEMMA ReceiveReplyStep ==
    ASSUME RegistrationInv, NEW a \in Agents, ReceiveReply(a)
    PROVE  RegistrationInv'
<1> DEFINE old == agent[a]
           granted == call[old.awaits].node_key
           new == [old EXCEPT !.pc = "saving", !.awaits = NoCall,
                              !.existing = NoKey, !.attempt = 0, !.key = granted]
<1>1. old \in Agent /\ Sound(old) /\ Attempts \in Nat
  BY OwnFacts DEF Attempts
<1>2. /\ old.pc = "waiting" /\ call' = Without(old.awaits)
      /\ UNCHANGED vars /\ UNCHANGED <<ini, disruptions>>
      /\ agent' = [agent EXCEPT ![a].pc = "saving", ![a].awaits = NoCall,
                                ![a].existing = NoKey, ![a].attempt = 0,
                                ![a].key = granted]
  BY DEF ReceiveReply
<1>3. /\ granted \in Keys \cup {NoKey}
      /\ granted # NoKey => AtHome(rows, generated, old.endpoint, granted)
  BY <1>2, WaitingAgent DEF Call
<1> HIDE DEF granted
<1>4. agent' = [agent EXCEPT ![a] = new]
  BY <1>1, <1>2 DEF RegistrationInv, AgentsSound
<1>5. /\ Sound(new) /\ new.endpoint = old.endpoint /\ new.awaits = NoCall
      /\ new.key = granted /\ new.override = old.override
  <2>1. new = [pc |-> "saving", endpoint |-> old.endpoint,
               override |-> old.override, existing |-> NoKey, attempt |-> 0,
               awaits |-> NoCall, key |-> granted]
    <3>1. new = [f \in DOMAIN old |->
                     IF f = "pc" THEN "saving" ELSE
                     IF f = "awaits" THEN NoCall ELSE
                     IF f = "existing" THEN NoKey ELSE
                     IF f = "attempt" THEN 0 ELSE
                     IF f = "key" THEN granted ELSE old[f]]
      BY <1>1, AgentFields
    <3> QED
      BY <3>1, <1>1, AgentFields
  <2> HIDE DEF new
  <2> QED
    BY <1>1, <1>3, <2>1, NotWaiting
<1> HIDE DEF new
<1>6. \A k \in {new.key, new.override} :
         k # NoKey => AtHome(rows, generated, new.endpoint, k)
  BY <1>3, <1>5, OwnFacts
<1>7. /\ ini' \in [Agents -> Keys \cup {NoKey}]
      /\ disruptions' \in 0..MaxDisruptions
  BY <1>2 DEF RegistrationInv
<1> QED
  BY <1>2, <1>4, <1>5, <1>6, <1>7, OneAgentAlone

\* One more disruption is still within the bound.
LEMMA DisruptionTyped ==
    ASSUME RegistrationInv, Disruption \/ UNCHANGED disruptions
    PROVE  disruptions' \in 0..MaxDisruptions
  BY DEF RegistrationInv, Disruption

\* An attempt fails.
LEMMA AttemptFailsStep ==
    ASSUME RegistrationInv, NEW a \in Agents, AttemptFails(a)
    PROVE  RegistrationInv'
<1> DEFINE old == agent[a]
           again == [old EXCEPT !.pc = "registering", !.awaits = NoCall,
                                !.attempt = old.attempt + 1]
           exited == [old EXCEPT !.pc = "down", !.awaits = NoCall,
                                 !.existing = NoKey, !.attempt = 0]
<1>1. old \in Agent /\ Sound(old) /\ Attempts \in Nat
  BY OwnFacts DEF Attempts
<1>2. /\ old.pc = "waiting"
      /\ UNCHANGED vars /\ UNCHANGED ini
      /\ call' = call \/ call' = Without(old.awaits)
      /\ agent' = [agent EXCEPT ![a] = IF CanRetry(a) THEN again ELSE exited]
  <2>1. agent' = [agent EXCEPT ![a] = IF CanRetry(a) THEN again ELSE exited]
    BY DEF AttemptFails
  <2> QED
    BY <2>1 DEF AttemptFails, Abandon
<1>3. /\ ini' \in [Agents -> Keys \cup {NoKey}]
      /\ disruptions' \in 0..MaxDisruptions
  BY <1>2, DisruptionTyped DEF AttemptFails, AttemptFailed, RegistrationInv
<1>4. old.key = NoKey
  BY <1>1, <1>2 DEF Sound
<1>5. CASE CanRetry(a)
  <2>1. /\ Sound(again) /\ again.endpoint = old.endpoint /\ again.awaits = NoCall
        /\ again.key = NoKey /\ again.override = old.override
    <3>1. again = [pc |-> "registering", endpoint |-> old.endpoint,
                   override |-> old.override, existing |-> old.existing,
                   attempt |-> old.attempt + 1, awaits |-> NoCall,
                   key |-> old.key]
      <4>1. again = [f \in DOMAIN old |->
                       IF f = "pc" THEN "registering" ELSE
                       IF f = "awaits" THEN NoCall ELSE
                       IF f = "attempt" THEN old.attempt + 1 ELSE old[f]]
        BY <1>1, AgentFields
      <4> QED
        BY <4>1, <1>1, AgentFields
    <3>2. /\ old.existing \in Keys \cup {NoKey} /\ old.attempt + 1 \in Nat
          /\ old.attempt + 1 <= Attempts
      BY <1>1, <1>5 DEF Agent, CanRetry
    <3> HIDE DEF again
    <3> QED
      BY <1>1, <1>4, <3>1, <3>2, NotWaiting
  <2> HIDE DEF again
  <2>2. \A k \in {again.key, again.override} :
           k # NoKey => AtHome(rows, generated, again.endpoint, k)
    BY <2>1, OwnFacts
  <2> QED
    BY <1>2, <1>3, <1>5, <2>1, <2>2, OneAgentAlone
<1>6. CASE ~CanRetry(a)
  <2>1. /\ Sound(exited) /\ exited.endpoint = old.endpoint /\ exited.awaits = NoCall
        /\ exited.key = NoKey /\ exited.override = old.override
    <3>1. exited = [pc |-> "down", endpoint |-> old.endpoint,
                    override |-> old.override, existing |-> NoKey,
                    attempt |-> 0, awaits |-> NoCall, key |-> old.key]
      <4>1. exited = [f \in DOMAIN old |->
                       IF f = "pc" THEN "down" ELSE
                       IF f = "awaits" THEN NoCall ELSE
                       IF f = "existing" THEN NoKey ELSE
                       IF f = "attempt" THEN 0 ELSE old[f]]
        BY <1>1, AgentFields
      <4> QED
        BY <4>1, <1>1, AgentFields
    <3> HIDE DEF exited
    <3> QED
      BY <1>1, <1>4, <3>1, NotWaiting
  <2> HIDE DEF exited
  <2>2. \A k \in {exited.key, exited.override} :
           k # NoKey => AtHome(rows, generated, exited.endpoint, k)
    BY <2>1, OwnFacts
  <2> QED
    BY <1>2, <1>3, <1>6, <2>1, <2>2, OneAgentAlone
<1> QED
  BY <1>5, <1>6

\* The granted key is saved, or is not.
LEMMA SaveNodeStateStep ==
    ASSUME RegistrationInv, NEW a \in Agents, SaveNodeState(a)
    PROVE  RegistrationInv'
<1> DEFINE old == agent[a]
           new == [old EXCEPT !.pc = "serving"]
<1>1. old \in Agent /\ Sound(old)
  BY OwnFacts
<1>2. /\ old.pc = "saving" /\ UNCHANGED vars /\ UNCHANGED call
      /\ agent' = [agent EXCEPT ![a].pc = "serving"]
      /\ ini' = [ini EXCEPT ![a] = old.key] \/ UNCHANGED ini
      /\ Disruption \/ UNCHANGED disruptions
  BY DEF SaveNodeState, SavedIni
<1>3. agent' = [agent EXCEPT ![a] = new]
  BY <1>1, <1>2 DEF RegistrationInv, AgentsSound
<1>4. /\ Sound(new) /\ new.endpoint = old.endpoint /\ new.awaits = NoCall
      /\ new.key = old.key /\ new.override = old.override
  BY <1>1, <1>2 DEF Sound, Agent
<1>5. ini' \in [Agents -> Keys \cup {NoKey}] /\ disruptions' \in 0..MaxDisruptions
  BY <1>1, <1>2, DisruptionTyped DEF RegistrationInv, Agent
<1> HIDE DEF new
<1>6. \A k \in {new.key, new.override} :
         k # NoKey => AtHome(rows, generated, new.endpoint, k)
  BY <1>4, OwnFacts
<1> QED
  BY <1>2, <1>3, <1>4, <1>5, <1>6, OneAgentAlone

\* An agent's process dies.
LEMMA CrashStep ==
    ASSUME RegistrationInv, NEW a \in Agents, Crash(a)
    PROVE  RegistrationInv'
<1> DEFINE old == agent[a]
           new == [old EXCEPT !.pc = "down", !.awaits = NoCall,
                              !.existing = NoKey, !.attempt = 0, !.key = NoKey]
<1>1. old \in Agent /\ Sound(old) /\ Attempts \in Nat
  BY OwnFacts DEF Attempts
<1>2. /\ UNCHANGED vars /\ UNCHANGED ini
      /\ call' = call \/ call' = Without(old.awaits)
      /\ agent' = [agent EXCEPT ![a] = new]
  BY DEF Crash, Abandon, RegistrationInv, AgentsSound
<1>3. ini' \in [Agents -> Keys \cup {NoKey}] /\ disruptions' \in 0..MaxDisruptions
  BY <1>2, DisruptionTyped DEF Crash, RegistrationInv
<1>4. /\ Sound(new) /\ new.endpoint = old.endpoint /\ new.awaits = NoCall
      /\ new.key = NoKey /\ new.override = old.override
  <2>1. new = [pc |-> "down", endpoint |-> old.endpoint,
               override |-> old.override, existing |-> NoKey, attempt |-> 0,
               awaits |-> NoCall, key |-> NoKey]
    <3>1. new = [f \in DOMAIN old |->
                     IF f = "pc" THEN "down" ELSE
                     IF f = "awaits" THEN NoCall ELSE
                     IF f = "existing" THEN NoKey ELSE
                     IF f = "attempt" THEN 0 ELSE
                     IF f = "key" THEN NoKey ELSE old[f]]
      BY <1>1, AgentFields
    <3> QED
      BY <3>1, <1>1, AgentFields
  <2> HIDE DEF new
  <2> QED
    BY <1>1, <2>1, NotWaiting
<1> HIDE DEF new
<1>5. \A k \in {new.key, new.override} :
         k # NoKey => AtHome(rows, generated, new.endpoint, k)
  BY <1>4, OwnFacts
<1> QED
  BY <1>2, <1>3, <1>4, <1>5, OneAgentAlone

-----------------------------------------------------------------------------
(* The centre and the operator.                                            *)

\* A step of the centre or the operator that no agent takes part in.
LEMMA NoAgent ==
    ASSUME RegistrationInv, [Next]_vars, UNCHANGED <<agent, ini>>,
           disruptions' \in 0..MaxDisruptions,
           CallsTyped', CallKeysAtHome',
           \A a \in Agents : agent[a].awaits # NoCall =>
              /\ agent[a].awaits \in DOMAIN call'
              /\ call'[agent[a].awaits].endpoint = call[agent[a].awaits].endpoint
    PROVE  RegistrationInv'
<1>1. IInv' /\ ini' \in [Agents -> Keys \cup {NoKey}]
  BY InvariantIsInductive DEF RegistrationInv
<1>2. AgentsSound' /\ OwnEndpoints'
  BY DEF RegistrationInv, AgentsSound, OwnEndpoints, Sound
<1>3. AwaitedInFlight'
  BY DEF RegistrationInv, AwaitedInFlight
<1>4. AgentKeysAtHome'
  <2>1. ASSUME NEW a \in Agents, NEW k \in {agent[a].key, agent[a].override},
               k # NoKey
        PROVE  AtHome(rows', generated', agent[a].endpoint, k)
    BY <2>1, StaysAtHome DEF RegistrationInv, AgentKeysAtHome
  <2> QED
    BY <2>1 DEF AgentKeysAtHome, AtHome
<1> QED
  BY <1>1, <1>2, <1>3, <1>4 DEF RegistrationInv

\* A handler ends: its answer reaches whoever still awaits it.
LEMMA ReplyStep ==
    ASSUME RegistrationInv, [Next]_vars, NEW c \in DOMAIN call,
           NEW state \in {"answered", "refused"}, NEW key \in Keys \cup {NoKey},
           key # NoKey => AtHome(rows', generated', call[c].endpoint, key),
           Reply(c, state, key), UNCHANGED <<agent, ini>>,
           disruptions' \in 0..MaxDisruptions
    PROVE  RegistrationInv'
<1>1. call[c] \in Call /\ CallsTyped
  BY DEF RegistrationInv, CallsTyped
<1>2. CASE Awaited(c)
  <2> DEFINE new == [call[c] EXCEPT !.state = state, !.node_key = key]
  <2>1. call' = [call EXCEPT ![c] = new]
    BY <1>1, <1>2 DEF Reply
  <2>2. new \in Call /\ new.endpoint = call[c].endpoint /\ new.node_key = key
    BY <1>1 DEF Call
  <2> HIDE DEF new
  <2>3. /\ DOMAIN call' = DOMAIN call /\ call'[c] = new
        /\ \A d \in DOMAIN call : d # c => call'[d] = call[d]
    BY <1>1, <2>1 DEF CallsTyped
  <2>4. CallsTyped'
    BY <1>1, <2>1, <2>2, <2>3 DEF CallsTyped
  <2>5. ASSUME NEW d \in DOMAIN call', call'[d].node_key # NoKey
        PROVE  AtHome(rows', generated', call'[d].endpoint, call'[d].node_key)
    <3>1. CASE d = c
      BY <2>2, <2>3, <2>5, <3>1
    <3>2. CASE d # c
      <4>1. d \in DOMAIN call /\ call'[d] = call[d]
        BY <2>3, <3>2
      <4>2. AtHome(rows, generated, call[d].endpoint, call[d].node_key)
        BY <2>5, <4>1 DEF RegistrationInv, CallKeysAtHome
      <4> QED
        BY <4>1, <4>2, StaysAtHome DEF RegistrationInv
    <3> QED
      BY <3>1, <3>2
  <2>6. CallKeysAtHome'
    BY <2>5 DEF CallKeysAtHome, AtHome
  <2>7. \A a \in Agents : agent[a].awaits # NoCall =>
           /\ agent[a].awaits \in DOMAIN call'
           /\ call'[agent[a].awaits].endpoint = call[agent[a].awaits].endpoint
    BY <2>2, <2>3 DEF RegistrationInv, AwaitedInFlight
  <2> QED
    BY <2>4, <2>6, <2>7, NoAgent
<1>3. CASE ~Awaited(c)
  <2>1. call' = Without(c)
    BY <1>3 DEF Reply
  <2>2. /\ DOMAIN call' = DOMAIN call \ {c}
        /\ call' = [d \in DOMAIN call' |-> call[d]]
        /\ \A d \in DOMAIN call : d # c => call'[d] = call[d]
    BY <2>1 DEF Without
  <2>3. CallsTyped' /\ CallKeysAtHome'
    BY <2>2, FewerCalls
  <2>4. \A a \in Agents : agent[a].awaits # NoCall =>
           /\ agent[a].awaits \in DOMAIN call'
           /\ call'[agent[a].awaits].endpoint = call[agent[a].awaits].endpoint
    BY <1>3, <2>2 DEF RegistrationInv, AwaitedInFlight, Awaited
  <2> QED
    BY <2>3, <2>4, NoAgent
<1> QED
  BY <1>2, <1>3

\* Registering the caller of c is a step of the table that grants a key of its
\* endpoint.
LEMMA CallerRegistered ==
    ASSUME RegistrationInv, NEW c \in DOMAIN call, RegisterCaller(c)
    PROVE  /\ Next
           /\ Granted(c) \in Keys
           /\ AtHome(rows', generated', call[c].endpoint, Granted(c))
<1>1. call[c].endpoint \in Endpoints /\ call[c].existing \in Keys \cup {NoKey}
  BY DEF RegistrationInv, CallsTyped, Call
<1>2. Next
  BY <1>1, RegistrationIsATableStep DEF RegisterCaller, RegistrationInv
<1>3. RegisterOrReuse(call[c].endpoint, call[c].existing, DrawnKey)
  BY DEF RegisterCaller, Register
<1> QED
  BY <1>1, <1>2, <1>3, GrantedAtHome DEF Granted, RegistrationInv

\* A call is carried out and answered.
LEMMA AnswerStep ==
    ASSUME RegistrationInv, NEW c \in Calls, Answer(c)
    PROVE  RegistrationInv'
<1>1. /\ c \in DOMAIN call /\ RegisterCaller(c)
      /\ Reply(c, "answered", Granted(c))
      /\ UNCHANGED <<agent, ini>> /\ UNCHANGED disruptions
  BY DEF Answer
<1>2. disruptions' \in 0..MaxDisruptions
  BY <1>1, DisruptionTyped
<1>3. /\ Next /\ Granted(c) \in Keys
      /\ AtHome(rows', generated', call[c].endpoint, Granted(c))
  BY <1>1, CallerRegistered
<1> HIDE DEF Granted
<1> QED
  BY <1>1, <1>2, <1>3, ReplyStep

\* A call is refused, before or after it was carried out.
LEMMA RefuseStep ==
    ASSUME RegistrationInv, NEW c \in Calls, Refuse(c)
    PROVE  RegistrationInv'
<1>1. /\ c \in DOMAIN call
      /\ RegisterCaller(c) \/ UNCHANGED vars
      /\ Reply(c, "refused", NoKey)
      /\ UNCHANGED <<agent, ini>> /\ Disruption
  BY DEF Refuse
<1>2. disruptions' \in 0..MaxDisruptions /\ c \in DOMAIN call
  BY DisruptionTyped DEF Refuse
<1>3. [Next]_vars
  BY <1>1, <1>2, CallerRegistered
<1> QED
  BY <1>1, <1>2, <1>3, ReplyStep

\* A registration by hand, and what becomes of its key.
LEMMA ManualRegisterStep ==
    ASSUME RegistrationInv, NEW e \in Endpoints, ManualRegister(e)
    PROVE  RegistrationInv'
<1>1. /\ Register(FALSE, e, NoKey, DrawnKey) /\ UNCHANGED <<ini, call>>
      /\ \/ UNCHANGED agent
         \/ \E a \in Agents :
               /\ agent[a].pc = "down" /\ agent[a].endpoint = e
               /\ agent' = [agent EXCEPT ![a].override = DrawnKey]
  BY DEF ManualRegister
<1>2. disruptions' \in 0..MaxDisruptions
  BY DisruptionTyped DEF ManualRegister
<1>3. Next
  BY <1>1, RegistrationIsATableStep DEF RegistrationInv
<1>4. DrawnKey \in Keys /\ AtHome(rows', generated', e, DrawnKey)
  <2>1. RegisterOrReuse(e, NoKey, DrawnKey)
    BY <1>1 DEF Register
  <2>2. GrantedKey(e, NoKey, DrawnKey) = DrawnKey
    BY DEF GrantedKey, Reuses
  <2> QED
    BY <2>1, <2>2, GrantedAtHome DEF RegistrationInv
<1> HIDE DEF DrawnKey
<1>5. CallsTyped' /\ CallKeysAtHome'
  <2>1. call' = [c \in DOMAIN call' |-> call[c]] /\ DOMAIN call' = DOMAIN call
    BY <1>1 DEF RegistrationInv, CallsTyped
  <2> QED
    BY <2>1, <1>3, FewerCalls
<1>6. CASE UNCHANGED agent
  BY <1>1, <1>2, <1>3, <1>5, <1>6, NoAgent DEF RegistrationInv, AwaitedInFlight
<1>7. ASSUME NEW a \in Agents, agent[a].pc = "down", agent[a].endpoint = e,
             agent' = [agent EXCEPT ![a].override = DrawnKey]
      PROVE  RegistrationInv'
  <2> DEFINE old == agent[a]
             new == [old EXCEPT !.override = DrawnKey]
  <2>1. old \in Agent /\ Sound(old)
    BY OwnFacts
  <2>2. agent' = [agent EXCEPT ![a] = new]
    BY <1>7, <2>1 DEF RegistrationInv, AgentsSound
  <2>3. /\ Sound(new) /\ new.endpoint = e /\ new.awaits = NoCall
        /\ new.key = NoKey /\ new.override = DrawnKey
    BY <1>4, <1>7, <2>1 DEF Sound, Agent
  <2> HIDE DEF new
  <2>4. \A b \in Agents \ {a} : agent[b].awaits # NoCall =>
           /\ agent[b].awaits \in DOMAIN call'
           /\ call'[agent[b].awaits].endpoint = call[agent[b].awaits].endpoint
           /\ agent[b].awaits # new.awaits
    BY <1>1, <2>3, OwnFacts
  <2>5. \A k \in {new.key, new.override} :
           k # NoKey => AtHome(rows', generated', new.endpoint, k)
    BY <1>4, <2>3
  <2>6. /\ \A b \in Agents : agent[b].endpoint = new.endpoint => b = a
        /\ ini' \in [Agents -> Keys \cup {NoKey}]
    BY <1>1, <1>7, <2>3, OwnFacts DEF RegistrationInv
  <2> QED
    BY <1>2, <1>3, <1>5, <2>2, <2>3, <2>4, <2>5, <2>6, OneAgent
<1> QED
  BY <1>1, <1>6, <1>7

\* A row is deleted by the operator.
LEMMA DeleteNodeStep ==
    ASSUME RegistrationInv, NEW id \in 1..MaxId, DeleteNode(id)
    PROVE  RegistrationInv'
<1>1. Delete(id) /\ UNCHANGED <<agent, ini>> /\ UNCHANGED call /\ Next
  BY DEF DeleteNode, Next
<1>2. disruptions' \in 0..MaxDisruptions
  BY DisruptionTyped DEF DeleteNode
<1>3. CallsTyped' /\ CallKeysAtHome'
  <2>1. call' = [c \in DOMAIN call' |-> call[c]] /\ DOMAIN call' = DOMAIN call
    BY <1>1 DEF RegistrationInv, CallsTyped
  <2> QED
    BY <2>1, <1>1, FewerCalls
<1> QED
  BY <1>1, <1>2, <1>3, NoAgent DEF RegistrationInv, AwaitedInFlight

\* An agent that is down moves: it has no key with it but the one in its file.
LEMMA ReconfigureStep ==
    ASSUME RegistrationInv, NEW a \in Agents, NEW e \in Endpoints, Reconfigure(a, e)
    PROVE  RegistrationInv'
<1> DEFINE old == agent[a]
           new == [old EXCEPT !.endpoint = e, !.override = NoKey]
<1>1. old \in Agent /\ Sound(old)
  BY OwnFacts
<1>2. /\ old.pc = "down" /\ UNCHANGED vars /\ UNCHANGED <<ini, call>>
      /\ \A b \in Agents : agent[b].endpoint # e
      /\ agent' = [agent EXCEPT ![a].endpoint = e, ![a].override = NoKey]
  BY DEF Reconfigure
<1>3. agent' = [agent EXCEPT ![a] = new]
  BY <1>1, <1>2 DEF RegistrationInv, AgentsSound
<1>4. /\ Sound(new) /\ new.endpoint = e /\ new.awaits = NoCall
      /\ new.key = NoKey /\ new.override = NoKey
  BY <1>1, <1>2 DEF Sound, Agent
<1> HIDE DEF new
<1>5. disruptions' \in 0..MaxDisruptions /\ ini' \in [Agents -> Keys \cup {NoKey}]
  BY <1>2, DisruptionTyped DEF Reconfigure, RegistrationInv
<1>6. CallsTyped' /\ CallKeysAtHome'
  <2>1. call' = [c \in DOMAIN call' |-> call[c]] /\ DOMAIN call' = DOMAIN call
    BY <1>2 DEF RegistrationInv, CallsTyped
  <2> QED
    BY <2>1, <1>2, FewerCalls
<1>7. \A b \in Agents \ {a} : agent[b].awaits # NoCall =>
         /\ agent[b].awaits \in DOMAIN call'
         /\ call'[agent[b].awaits].endpoint = call[agent[b].awaits].endpoint
         /\ agent[b].awaits # new.awaits
  BY <1>2, <1>4, OwnFacts
<1>8. /\ \A b \in Agents : agent[b].endpoint = new.endpoint => b = a
      /\ \A k \in {new.key, new.override} :
            k # NoKey => AtHome(rows', generated', new.endpoint, k)
  BY <1>2, <1>4
<1> QED
  BY <1>2, <1>3, <1>4, <1>5, <1>6, <1>7, <1>8, OneAgent

-----------------------------------------------------------------------------
(* The invariant.                                                          *)

\* Every step keeps the invariant.
LEMMA RegistrationInvIsInductive ==
    ASSUME RegistrationInv, [RegistrationNext]_systemVars
    PROVE  RegistrationInv'
<1>1. ASSUME UNCHANGED systemVars
      PROVE  RegistrationInv'
  <2>1. /\ UNCHANGED vars /\ UNCHANGED <<agent, ini>> /\ UNCHANGED call
        /\ disruptions' \in 0..MaxDisruptions
    BY <1>1 DEF systemVars, agentVars, RegistrationInv
  <2>2. CallsTyped' /\ CallKeysAtHome'
    <3>1. call' = [c \in DOMAIN call' |-> call[c]] /\ DOMAIN call' = DOMAIN call
      BY <2>1 DEF RegistrationInv, CallsTyped
    <3> QED
      BY <3>1, <2>1, FewerCalls
  <2> QED
    BY <2>1, <2>2, NoAgent DEF RegistrationInv, AwaitedInFlight
<1> QED
  BY <1>1, BootStep, SendRequestStep, ReceiveReplyStep, AttemptFailsStep,
     SaveNodeStateStep, CrashStep, AnswerStep, RefuseStep, ManualRegisterStep,
     DeleteNodeStep, ReconfigureStep
  DEF RegistrationNext, AgentStep, Operator

\* Agents that are down, no calls and the empty table satisfy the invariant.
LEMMA RegistrationInvHoldsAtStart ==
    ASSUME RegistrationInit
    PROVE  RegistrationInv
<1>1. IInv
  BY InvariantHoldsAtStart DEF RegistrationInit
<1>2. PICK home \in [Agents -> Endpoints] :
         /\ \A a, b \in Agents : home[a] = home[b] => a = b
         /\ agent = [a \in Agents |->
               [pc |-> "down", endpoint |-> home[a], override |-> NoKey,
                existing |-> NoKey, attempt |-> 0, awaits |-> NoCall,
                key |-> NoKey]]
  BY DEF RegistrationInit
<1>3. Attempts \in Nat
  BY DEF Attempts
<1>4. AgentsSound
  BY <1>2, <1>3 DEF AgentsSound, Sound, Agent
<1>5. AwaitedInFlight /\ OwnEndpoints /\ AgentKeysAtHome
  BY <1>2 DEF AwaitedInFlight, OwnEndpoints, AgentKeysAtHome
<1>6. /\ CallsTyped /\ CallKeysAtHome
      /\ ini \in [Agents -> Keys \cup {NoKey}]
      /\ disruptions \in 0..MaxDisruptions
  BY DEF RegistrationInit, CallsTyped, CallKeysAtHome
<1> QED
  BY <1>1, <1>4, <1>5, <1>6 DEF RegistrationInv

\* Every reachable state satisfies the invariant.
THEOREM RegistrationInvariantHolds == RegistrationSpec => []RegistrationInv
  BY RegistrationInvHoldsAtStart, RegistrationInvIsInductive, PTL
  DEF RegistrationSpec

\* What the invariant says of the types, and of the keys agents hold.
LEMMA RegistrationInvTypes ==
    RegistrationInv => RegistrationTypeOK
  BY DEF RegistrationInv, RegistrationTypeOK, IInv, AgentsSound, Sound,
         CallsTyped, AwaitedInFlight

LEMMA RegistrationInvHome ==
    RegistrationInv => CredentialStaysHome
  BY DEF RegistrationInv, AgentKeysAtHome, AtHome, CredentialStaysHome

\* The variables keep their types, attempts their bound, and an awaited call is
\* in flight for its agent.
THEOREM RegistrationTypeCorrect == RegistrationSpec => []RegistrationTypeOK
  BY RegistrationInvTypes, RegistrationInvariantHolds, PTL

\* No agent ever holds the credential of another endpoint's node.
THEOREM CredentialsStayHome == RegistrationSpec => []CredentialStaysHome
  BY RegistrationInvHome, RegistrationInvariantHolds, PTL

\* What agents, handlers and the operator do to the table are steps of it.
LEMMA RegistrationTableSteps ==
    ASSUME RegistrationInv, [RegistrationNext]_systemVars
    PROVE  [Next]_vars
<1>1. ASSUME NEW a \in Agents, AgentStep(a) \/ Crash(a)
      PROVE  UNCHANGED vars
  BY <1>1 DEF AgentStep, Boot, SendRequest, ReceiveReply, AttemptFails,
              SaveNodeState, Crash
<1>2. ASSUME NEW c \in Calls, Answer(c) \/ Refuse(c)
      PROVE  [Next]_vars
  BY <1>2, CallerRegistered DEF Answer, Refuse
<1>3. ASSUME Operator
      PROVE  [Next]_vars
  BY <1>3, RegistrationIsATableStep
  DEF Operator, ManualRegister, DeleteNode, Reconfigure, RegistrationInv, Next
<1>4. ASSUME UNCHANGED systemVars
      PROVE  UNCHANGED vars
  BY <1>4 DEF systemVars
<1> QED
  BY <1>1, <1>2, <1>3, <1>4 DEF RegistrationNext

\* Agents, calls and the operator use the table as NodeStore says.
THEOREM RegistrationRefinesNodeStore == RegistrationSpec => Spec
<1>1. RegistrationInit => Init
  BY DEF RegistrationInit
<1> QED
  BY <1>1, RegistrationTableSteps, RegistrationInvariantHolds, PTL
  DEF RegistrationSpec, Spec

-----------------------------------------------------------------------------
(* What holds of node.ini and the registration it is read for.             *)

Opens(table, e, k) ==
    \E id \in DOMAIN table :
       table[id].endpoint = e /\ table[id].node_key_hash = HashNodeKey(k)

\* An agent g that registers presents what its node.ini holds, k, here and in
\* the call d it awaits.
Presents(g, d, k) ==
    /\ g.pc \in {"registering", "waiting"} => g.existing = k
    /\ g.pc = "waiting" => d.existing = k

\* What g is granted, or will be when d is answered, is k once more, unless k
\* opens nothing where g is.
GrantsAgain(table, g, d, k) ==
    \/ ~Opens(table, g.endpoint, k)
    \/ /\ g.pc = "saving" => g.key = k
       /\ g.pc = "waiting" /\ d.state = "answered" => d.node_key = k

FileSound(table, drawn, g, d, k) ==
    /\ Presents(g, d, k)
    /\ k # NoKey => k \in drawn
    /\ GrantsAgain(table, g, d, k)

\* The second inductive invariant, on top of RegistrationInv.
FileInv ==
    \A a \in Agents :
       FileSound(rows, generated, agent[a], call[agent[a].awaits], ini[a])

\* A key that has been drawn and does not open e never will.
LEMMA StaysShut ==
    ASSUME IInv, IInv', [Next]_vars, NEW e, NEW k, k # NoKey => k \in generated,
           ~Opens(rows, e, k)
    PROVE  ~Opens(rows', e, k)
<1>1. CASE k = NoKey
  <2>1. \A id \in DOMAIN rows' : rows'[id].node_key_hash \in Hashes
    BY DEF IInv, TypeOK, Row
  <2> QED
    BY <1>1, <2>1 DEF Opens, Hashes, HashNodeKey
<1>2. CASE k # NoKey /\ \E id \in DOMAIN rows : rows[id].node_key_hash = HashNodeKey(k)
  <2>1. PICK id \in DOMAIN rows : rows[id].node_key_hash = HashNodeKey(k)
    BY <1>2
  <2>2. AtHome(rows, generated, rows[id].endpoint, k)
    BY <1>2, <2>1 DEF AtHome, IInv, RegistryConsistent
  <2>3. AtHome(rows', generated', rows[id].endpoint, k)
    BY <2>2, StaysAtHome
  <2>4. rows[id].endpoint # e
    BY <2>1 DEF Opens
  <2> QED
    BY <2>3, <2>4 DEF AtHome, Opens
<1>3. CASE k # NoKey /\ \A id \in DOMAIN rows : rows[id].node_key_hash # HashNodeKey(k)
  <2>1. AtHome(rows, generated, 1, k) /\ AtHome(rows, generated, 2, k)
    BY <1>3 DEF AtHome
  <2>2. AtHome(rows', generated', 1, k) /\ AtHome(rows', generated', 2, k)
    BY <2>1, StaysAtHome
  <2> QED
    BY <2>2 DEF AtHome, Opens
<1> QED
  BY <1>1, <1>2, <1>3

\* So a step of the table leaves alone what holds of a node.ini.
LEMMA StaysSound ==
    ASSUME IInv, IInv', [Next]_vars, NEW g, NEW d, NEW k,
           FileSound(rows, generated, g, d, k)
    PROVE  FileSound(rows', generated', g, d, k)
<1>1. k # NoKey => k \in generated'
  <2>1. generated \subseteq generated'
    BY StepCases DEF KeepsCredentials, vars
  <2> QED
    BY <2>1 DEF FileSound
<1>2. ~Opens(rows, g.endpoint, k) => ~Opens(rows', g.endpoint, k)
  BY StaysShut DEF FileSound
<1> QED
  BY <1>1, <1>2 DEF FileSound, GrantsAgain

\* A step of an agent concerns no other's node.ini.
LEMMA OtherFilesStaySound ==
    ASSUME RegistrationInv, FileInv, NEW a \in Agents, NEW b \in Agents, a # b,
           AgentStep(b) \/ Crash(b)
    PROVE  FileSound(rows', generated', agent'[a], call'[agent'[a].awaits], ini'[a])
<1>1. /\ rows' = rows /\ generated' = generated
      /\ agent'[a] = agent[a] /\ ini'[a] = ini[a]
  BY DEF AgentStep, Boot, SendRequest, ReceiveReply, AttemptFails,
         SaveNodeState, SavedIni, Crash, vars, RegistrationInv, AgentsSound
<1>2. FileSound(rows, generated, agent[a], call[agent[a].awaits], ini[a])
  BY DEF FileInv
<1>3. ASSUME agent[a].pc = "waiting"
      PROVE  call'[agent[a].awaits] = call[agent[a].awaits]
  <2>1. /\ agent[a].awaits \in DOMAIN call /\ agent[a].awaits # agent[b].awaits
        /\ call = [c \in DOMAIN call |-> call[c]]
    BY <1>3, OwnFacts, WaitingAgent DEF RegistrationInv, CallsTyped, Sound
  <2>2. \/ call' = call \/ call' = Without(agent[b].awaits)
        \/ SendRequest(b)
    BY DEF AgentStep, Boot, ReceiveReply, AttemptFails, Abandon,
           SaveNodeState, Crash
  <2> QED
    BY <2>1, <2>2 DEF Without, SendRequest
<1> QED
  BY <1>1, <1>2, <1>3 DEF FileSound, Presents, GrantsAgain

\* Nor does an agent's own step spoil it: what it sends, retries, is given and
\* saves goes back to the key it loaded.
LEMMA OwnFileStaysSound ==
    ASSUME RegistrationInv, FileInv, NEW a \in Agents, AgentStep(a) \/ Crash(a)
    PROVE  FileSound(rows', generated', agent'[a], call'[agent'[a].awaits], ini'[a])
<1> DEFINE old == agent[a]
           k == ini[a]
<1>1. old \in Agent /\ Sound(old)
  BY OwnFacts
<1>2. /\ agent \in [Agents -> Agent] /\ ini \in [Agents -> Keys \cup {NoKey}]
      /\ UNCHANGED <<rows, generated>>
  BY DEF RegistrationInv, AgentsSound, AgentStep, Boot, SendRequest,
         ReceiveReply, AttemptFails, SaveNodeState, Crash, vars
<1>3. FileSound(rows, generated, old, call[old.awaits], k)
  BY DEF FileInv
<1>4. ASSUME ini' = ini, agent'[a].pc \in {"down", "serving"}
      PROVE  FileSound(rows', generated', agent'[a], call'[agent'[a].awaits], ini'[a])
  BY <1>2, <1>3, <1>4 DEF FileSound, Presents, GrantsAgain
<1>5. ASSUME ini' = ini, agent'[a].pc = "registering", agent'[a].existing = k
      PROVE  FileSound(rows', generated', agent'[a], call'[agent'[a].awaits], ini'[a])
  BY <1>2, <1>3, <1>5 DEF FileSound, Presents, GrantsAgain
<1>6. CASE Boot(a)
  <2>1. ini' = ini
    BY <1>6 DEF Boot
  <2>2. \/ agent'[a].pc = "serving"
        \/ agent'[a].pc = "registering" /\ agent'[a].existing = k
    BY <1>1, <1>2, <1>6 DEF Boot, LoadNodeState, Agent
  <2> QED
    BY <2>1, <2>2, <1>4, <1>5
<1>7. CASE SendRequest(a)
  <2> DEFINE new == [old EXCEPT !.pc = "waiting", !.awaits = NextSlot]
             request == [state |-> "sent", endpoint |-> old.endpoint,
                         existing |-> old.existing, node_key |-> NoKey]
  <2>1. /\ old.pc = "registering" /\ ini' = ini /\ DOMAIN call # Calls
        /\ call' = [c \in DOMAIN call \cup {NextSlot} |->
                      IF c \in DOMAIN call THEN call[c] ELSE request]
    BY <1>7 DEF SendRequest, PresentedKey
  <2>2. agent'[a] = new
    BY <1>2, <1>7 DEF SendRequest
  <2>3. NextSlot \notin DOMAIN call
    BY <2>1, SlotIsFree DEF RegistrationInv
  <2>4. call'[NextSlot] = request
    BY <2>1, <2>3
  <2>5. /\ new.pc = "waiting" /\ new.awaits = NextSlot
        /\ new.existing = old.existing /\ new.endpoint = old.endpoint
    BY <1>1 DEF Agent
  <2>6. old.existing = k
    BY <1>3, <2>1 DEF FileSound, Presents
  <2>7. request.existing = k /\ request.state = "sent"
    BY <2>6
  <2> HIDE DEF new, request
  <2> QED
    BY <1>2, <1>3, <2>1, <2>2, <2>4, <2>5, <2>6, <2>7
    DEF FileSound, Presents, GrantsAgain
<1>8. CASE ReceiveReply(a)
  <2> DEFINE granted == call[old.awaits].node_key
             new == [old EXCEPT !.pc = "saving", !.awaits = NoCall,
                                !.existing = NoKey, !.attempt = 0, !.key = granted]
  <2>1. /\ old.pc = "waiting" /\ call[old.awaits].state = "answered" /\ ini' = ini
    BY <1>8 DEF ReceiveReply
  <2>2. agent'[a] = new
    BY <1>2, <1>8 DEF ReceiveReply
  <2>3. \/ ~Opens(rows, old.endpoint, k)
        \/ granted = k
    BY <1>3, <2>1 DEF FileSound, GrantsAgain
  <2> HIDE DEF granted
  <2>4. new.pc = "saving" /\ new.key = granted /\ new.endpoint = old.endpoint
    <3>1. new = [f \in DOMAIN old |->
                    IF f = "pc" THEN "saving" ELSE
                    IF f = "awaits" THEN NoCall ELSE
                    IF f = "existing" THEN NoKey ELSE
                    IF f = "attempt" THEN 0 ELSE
                    IF f = "key" THEN granted ELSE old[f]]
      BY <1>1, AgentFields
    <3> QED
      BY <1>1, <3>1, AgentFields
  <2> HIDE DEF new
  <2> QED
    BY <1>2, <1>3, <2>1, <2>2, <2>3, <2>4 DEF FileSound, Presents, GrantsAgain
<1>9. CASE AttemptFails(a)
  <2> DEFINE again == [old EXCEPT !.pc = "registering", !.awaits = NoCall,
                                  !.attempt = old.attempt + 1]
             exited == [old EXCEPT !.pc = "down", !.awaits = NoCall,
                                   !.existing = NoKey, !.attempt = 0]
  <2>1. old.pc = "waiting" /\ ini' = ini
    BY <1>9 DEF AttemptFails
  <2>2. agent'[a] \in {again, exited}
    <3>1. agent' = [agent EXCEPT ![a] = IF CanRetry(a) THEN again ELSE exited]
      BY <1>9 DEF AttemptFails
    <3> QED
      BY <1>2, <3>1
  <2>3. again.pc = "registering" /\ again.existing = k
    BY <1>1, <1>3, <2>1 DEF FileSound, Presents, Agent
  <2>4. exited.pc = "down"
    BY <1>1 DEF Agent
  <2> HIDE DEF again, exited
  <2> QED
    BY <2>1, <2>2, <2>3, <2>4, <1>4, <1>5
<1>10. CASE SaveNodeState(a)
  <2>1. /\ ini'[a] \in {old.key, k} /\ agent'[a].pc = "serving"
    BY <1>1, <1>2, <1>10 DEF SaveNodeState, SavedIni, Agent
  <2>2. old.key # NoKey => old.key \in generated
    BY OwnFacts DEF AtHome
  <2> QED
    BY <1>2, <1>3, <2>1, <2>2 DEF FileSound, Presents, GrantsAgain
<1>11. CASE Crash(a)
  <2> DEFINE new == [old EXCEPT !.pc = "down", !.awaits = NoCall,
                                !.existing = NoKey, !.attempt = 0, !.key = NoKey]
  <2>1. ini' = ini /\ agent'[a] = new
    BY <1>2, <1>11 DEF Crash
  <2>2. new.pc = "down"
    BY <1>1 DEF Agent
  <2> HIDE DEF new
  <2> QED
    BY <2>1, <2>2, <1>4
<1> QED
  BY <1>6, <1>7, <1>8, <1>9, <1>10, <1>11 DEF AgentStep

\* The centre answers the call of an agent: it grants what was presented, or
\* what was presented opened nothing.
LEMMA CentreKeepsFilesSound ==
    ASSUME RegistrationInv, RegistrationInv', FileInv,
           NEW c \in Calls, Answer(c) \/ Refuse(c)
    PROVE  FileInv'
<1>1. /\ c \in DOMAIN call /\ call[c] \in Call /\ UNCHANGED <<agent, ini>>
      /\ RegisterCaller(c) \/ UNCHANGED vars
      /\ \/ RegisterCaller(c) /\ Reply(c, "answered", Granted(c))
         \/ Reply(c, "refused", NoKey)
  BY DEF Answer, Refuse, RegistrationInv, CallsTyped
<1>2. [Next]_vars /\ IInv /\ IInv'
  BY <1>1, CallerRegistered DEF RegistrationInv
<1> SUFFICES ASSUME NEW a \in Agents
             PROVE  FileSound(rows', generated', agent[a], call'[agent[a].awaits], ini[a])
  BY <1>1 DEF FileInv
<1> DEFINE g == agent[a]
           k == ini[a]
<1>3. FileSound(rows, generated, g, call[g.awaits], k)
  BY DEF FileInv
<1>4. FileSound(rows', generated', g, call[g.awaits], k)
  BY <1>2, <1>3, StaysSound
<1>5. CASE g.pc # "waiting"
  BY <1>4, <1>5 DEF FileSound, Presents, GrantsAgain
<1>6. CASE g.pc = "waiting" /\ g.awaits # c
  <2>1. g.awaits \in DOMAIN call /\ call = [d \in DOMAIN call |-> call[d]]
    BY <1>6, WaitingAgent DEF RegistrationInv, CallsTyped
  <2>2. call'[g.awaits] = call[g.awaits]
    BY <1>1, <1>6, <2>1 DEF Reply, Without
  <2> QED
    BY <1>4, <2>2
<1>7. CASE g.pc = "waiting" /\ g.awaits = c
  <2>1. Awaited(c) /\ call[c].endpoint = g.endpoint /\ call[c].existing = k
    BY <1>3, <1>7, WaitingAgent DEF Awaited, FileSound, Presents
  <2>2. call = [d \in DOMAIN call |-> call[d]]
    BY DEF RegistrationInv, CallsTyped
  <2>3. ASSUME Reply(c, "refused", NoKey)
        PROVE  call'[c].existing = k /\ call'[c].state = "refused"
    BY <1>1, <2>1, <2>2, <2>3 DEF Reply, Call
  <2>4. ASSUME RegisterCaller(c), Reply(c, "answered", Granted(c))
        PROVE  /\ call'[c].existing = k /\ call'[c].node_key = Granted(c)
               /\ ~Opens(rows, g.endpoint, k) \/ Granted(c) = k
    <3>1. Granted(c) = k \/ ~Reuses(g.endpoint, k)
      BY <2>1 DEF Granted, GrantedKey
    <3>2. ~Reuses(g.endpoint, k) => ~Opens(rows, g.endpoint, k)
      <4>1. \A id \in DOMAIN rows : rows[id].node_key_hash \in Hashes
        BY <1>2 DEF IInv, TypeOK, Row
      <4> QED
        BY <4>1 DEF Reuses, Opens, FindByKeyHash, FindByAddressPort, Hashes,
                    HashNodeKey
    <3> HIDE DEF Granted
    <3>3. call'[c].existing = k /\ call'[c].node_key = Granted(c)
      BY <1>1, <2>1, <2>2, <2>4 DEF Reply, Call
    <3> QED
      BY <3>1, <3>2, <3>3
  <2>5. k # NoKey => k \in generated
    BY <1>3 DEF FileSound
  <2>6. ~Opens(rows, g.endpoint, k) => ~Opens(rows', g.endpoint, k)
    BY <1>2, <2>5, StaysShut
  <2> QED
    BY <1>1, <1>4, <1>7, <2>3, <2>4, <2>6 DEF FileSound, Presents, GrantsAgain
<1> QED
  BY <1>5, <1>6, <1>7

\* A step of the table that no registering agent takes part in keeps what holds
\* of every node.ini.
LEMMA BystandersKeepFilesSound ==
    ASSUME IInv, IInv', [Next]_vars, FileInv, UNCHANGED <<ini, call>>,
           \A a \in Agents : \/ agent'[a] = agent[a]
                             \/ agent'[a].pc = "down"
    PROVE  FileInv'
<1> SUFFICES ASSUME NEW a \in Agents
             PROVE  FileSound(rows', generated', agent'[a], call[agent'[a].awaits], ini[a])
  BY DEF FileInv
<1>1. FileSound(rows', generated', agent[a], call[agent[a].awaits], ini[a])
  BY StaysSound DEF FileInv
<1> QED
  BY <1>1 DEF FileSound, Presents, GrantsAgain

\* Every step keeps it.
LEMMA FileInvIsInductive ==
    ASSUME RegistrationInv, FileInv, [RegistrationNext]_systemVars
    PROVE  FileInv'
<1>1. RegistrationInv' /\ [Next]_vars
  BY RegistrationInvIsInductive, RegistrationTableSteps
<1>2. IInv /\ IInv'
  BY <1>1 DEF RegistrationInv
<1>3. ASSUME NEW b \in Agents, AgentStep(b) \/ Crash(b)
      PROVE  FileInv'
  BY <1>3, OtherFilesStaySound, OwnFileStaysSound DEF FileInv
<1>4. ASSUME NEW c \in Calls, Answer(c) \/ Refuse(c)
      PROVE  FileInv'
  BY <1>1, <1>4, CentreKeepsFilesSound
<1>5. ASSUME Operator
      PROVE  FileInv'
  <2>1. /\ UNCHANGED <<ini, call>>
        /\ \A a \in Agents : \/ agent'[a] = agent[a]
                             \/ agent'[a].pc = "down"
    <3>1. agent \in [Agents -> Agent]
      BY DEF RegistrationInv, AgentsSound
    <3>2. ASSUME NEW e \in Endpoints, ManualRegister(e)
          PROVE  UNCHANGED <<ini, call>> /\ \A a \in Agents : \/ agent'[a] = agent[a]
                                                            \/ agent'[a].pc = "down"
      <4>1. \/ UNCHANGED agent
            \/ \E b \in Agents :
                  /\ agent[b].pc = "down"
                  /\ agent' = [agent EXCEPT ![b] = [agent[b] EXCEPT !.override = DrawnKey]]
        BY <3>2 DEF ManualRegister
      <4>2. \A b \in Agents :
               [agent[b] EXCEPT !.override = DrawnKey].pc = agent[b].pc
        BY <3>1 DEF Agent
      <4> QED
        BY <3>1, <3>2, <4>1, <4>2 DEF ManualRegister
    <3>3. ASSUME NEW id, DeleteNode(id)
          PROVE  UNCHANGED <<ini, call>> /\ agent' = agent
      BY <3>3 DEF DeleteNode
    <3>4. ASSUME NEW b \in Agents, NEW e \in Endpoints, Reconfigure(b, e)
          PROVE  UNCHANGED <<ini, call>> /\ \A a \in Agents : \/ agent'[a] = agent[a]
                                                            \/ agent'[a].pc = "down"
      <4>1. [agent[b] EXCEPT !.endpoint = e, !.override = NoKey].pc = agent[b].pc
        BY <3>1 DEF Agent
      <4>2. agent' = [agent EXCEPT ![b] =
                         [agent[b] EXCEPT !.endpoint = e, !.override = NoKey]]
        BY <3>4 DEF Reconfigure
      <4> QED
        BY <3>1, <3>4, <4>1, <4>2 DEF Reconfigure
    <3> QED
      BY <1>5, <3>2, <3>3, <3>4 DEF Operator
  <2> QED
    BY <1>1, <1>2, <2>1, BystandersKeepFilesSound
<1>6. ASSUME UNCHANGED systemVars
      PROVE  FileInv'
  BY <1>1, <1>2, <1>6, BystandersKeepFilesSound DEF systemVars, agentVars
<1> QED
  BY <1>3, <1>4, <1>5, <1>6 DEF RegistrationNext

\* No node.ini, no call, an empty table.
LEMMA FileInvHoldsAtStart ==
    ASSUME RegistrationInit
    PROVE  FileInv
<1>1. /\ \A a \in Agents : agent[a].pc = "down" /\ ini[a] = NoKey
      /\ rows = << >>
  BY DEF RegistrationInit, Init
<1> QED
  BY <1>1 DEF FileInv, FileSound, Presents, GrantsAgain

-----------------------------------------------------------------------------
(* Agreements end by the operator or by an outdated call only.             *)

\* A registration of another endpoint, or one that presents the current key,
\* leaves the credential of e as it is.
LEMMA StaysOpen ==
    ASSUME IInv, NEW f \in Endpoints, NEW existing \in Keys \cup {NoKey},
           RegisterOrReuse(f, existing, DrawnKey),
           NEW e, NEW k, Opens(rows, e, k), f = e => existing = k
    PROVE  Opens(rows', e, k)
<1>1. PICK id \in DOMAIN rows :
         rows[id].endpoint = e /\ rows[id].node_key_hash = HashNodeKey(k)
  BY DEF Opens
<1>2. k # NoKey
  <2>1. rows[id].node_key_hash \in Hashes
    BY <1>1 DEF IInv, TypeOK, Row
  <2> QED
    BY <1>1, <2>1 DEF Hashes, HashNodeKey
<1>3. CASE Reuse(f, existing)
  <2>1. DOMAIN rows' = DOMAIN rows /\ KeepsCredentials
    BY <1>3, ReuseStep DEF Reuse, RegisterOrReuse, IInv
  <2> QED
    BY <1>1, <2>1 DEF KeepsCredentials, SameCredential, Opens
<1>4. CASE ~Reuses(f, existing) /\ (Insert(f, DrawnKey) \/ Rotate(f, DrawnKey))
  <2>1. f # e
    BY <1>1, <1>2, <1>4 DEF Reuses, FindByKeyHash, FindByAddressPort
  <2>2. id \in DOMAIN rows' /\ rows'[id] = rows[id]
    <3>1. id # NextId
      BY <1>1 DEF IInv, TypeOK, NextId
    <3>2. CASE Insert(f, DrawnKey)
      BY <1>1, <3>1, <3>2 DEF Insert
    <3>3. CASE Rotate(f, DrawnKey)
      BY <1>1, <2>1, <3>3 DEF Rotate, FindByAddressPort
    <3> QED
      BY <1>4, <3>2, <3>3
  <2> QED
    BY <1>1, <2>2 DEF Opens
<1> QED
  BY <1>3, <1>4 DEF RegisterOrReuse

\* An agent that steps or dies leaves every agreement in force: what it saves
\* in place of a key was granted because that key opened nothing.
LEMMA AgentsKeepAgreements ==
    ASSUME RegistrationInv, FileInv, NEW a \in Agents, Agrees(a),
           NEW b \in Agents, AgentStep(b) \/ Crash(b)
    PROVE  Agrees(a)'
<1>1. Opens(rows, agent[a].endpoint, ini[a])
  BY DEF Agrees, Accepted, FindByAddressPort, Opens
<1>2. rows' = rows
  BY DEF AgentStep, Boot, SendRequest, ReceiveReply, AttemptFails,
         SaveNodeState, Crash, vars
<1>3. agent'[a].endpoint = agent[a].endpoint
  <2>1. agent \in [Agents -> Agent] /\ agent[b] \in Agent
    BY DEF RegistrationInv, AgentsSound
  <2>2. ASSUME NEW g, agent' = [agent EXCEPT ![b] = g],
               g.endpoint = agent[b].endpoint
        PROVE  agent'[a].endpoint = agent[a].endpoint
    BY <2>1, <2>2
  <2>3. CASE Boot(b)
    BY <2>1, <2>3 DEF Boot, Agent
  <2>4. CASE SendRequest(b)
    BY <2>1, <2>4 DEF SendRequest, Agent
  <2>5. CASE SaveNodeState(b)
    BY <2>1, <2>5 DEF SaveNodeState, Agent
  <2>6. CASE ReceiveReply(b)
    <3> DEFINE g == [agent[b] EXCEPT !.pc = "saving", !.awaits = NoCall,
                        !.existing = NoKey, !.attempt = 0,
                        !.key = call[agent[b].awaits].node_key]
    <3>1. agent' = [agent EXCEPT ![b] = g]
      BY <2>1, <2>6 DEF ReceiveReply
    <3>2. g.endpoint = agent[b].endpoint
      BY <2>1 DEF Agent
    <3> QED
      BY <2>2, <3>1, <3>2
  <2>7. CASE AttemptFails(b)
    <3> DEFINE again == [agent[b] EXCEPT !.pc = "registering", !.awaits = NoCall,
                                         !.attempt = agent[b].attempt + 1]
               exited == [agent[b] EXCEPT !.pc = "down", !.awaits = NoCall,
                                          !.existing = NoKey, !.attempt = 0]
    <3>1. agent' = [agent EXCEPT ![b] = IF CanRetry(b) THEN again ELSE exited]
      BY <2>7 DEF AttemptFails
    <3>2. again.endpoint = agent[b].endpoint /\ exited.endpoint = agent[b].endpoint
      BY <2>1 DEF Agent
    <3> HIDE DEF again, exited
    <3> QED
      BY <2>2, <3>1, <3>2
  <2>8. CASE Crash(b)
    <3> DEFINE g == [agent[b] EXCEPT !.pc = "down", !.awaits = NoCall,
                        !.existing = NoKey, !.attempt = 0, !.key = NoKey]
    <3>1. agent' = [agent EXCEPT ![b] = g]
      BY <2>8 DEF Crash
    <3>2. g.endpoint = agent[b].endpoint
      BY <2>1 DEF Agent
    <3> QED
      BY <2>2, <3>1, <3>2
  <2> QED
    BY <2>3, <2>4, <2>5, <2>6, <2>7, <2>8 DEF AgentStep
<1>4. ini'[a] = ini[a]
  <2>1. ini \in [Agents -> Keys \cup {NoKey}]
    BY DEF RegistrationInv
  <2>2. CASE SaveNodeState(b) /\ a = b
    <3>1. agent[a].key = ini[a]
      BY <1>1, <2>2 DEF SaveNodeState, FileInv, FileSound, GrantsAgain
    <3> QED
      BY <2>1, <2>2, <3>1 DEF SaveNodeState, SavedIni
  <2>3. CASE ~(SaveNodeState(b) /\ a = b)
    BY <2>1, <2>3 DEF AgentStep, Boot, SendRequest, ReceiveReply, AttemptFails,
                      SaveNodeState, SavedIni, Crash
  <2> QED
    BY <2>2, <2>3
<1>5. Opens(rows', agent'[a].endpoint, ini'[a])
  BY <1>1, <1>2, <1>3, <1>4
<1> QED
  BY <1>5 DEF Agrees, Accepted, FindByAddressPort, Opens

\* A call that is not outdated presents the key agreed on, or belongs to
\* another endpoint.
LEMMA CallsKeepAgreements ==
    ASSUME RegistrationInv, FileInv, NEW a \in Agents, Agrees(a),
           NEW c \in DOMAIN call, Answer(c) \/ Refuse(c), ~Outdated(c, a)
    PROVE  Agrees(a)'
<1>1. Opens(rows, agent[a].endpoint, ini[a])
  BY DEF Agrees, Accepted, FindByAddressPort, Opens
<1>2. UNCHANGED <<agent, ini>> /\ (RegisterCaller(c) \/ UNCHANGED vars)
  BY DEF Answer, Refuse
<1>3. call[c].endpoint \in Endpoints /\ call[c].existing \in Keys \cup {NoKey}
  BY DEF RegistrationInv, CallsTyped, Call
<1>4. call[c].endpoint = agent[a].endpoint => call[c].existing = ini[a]
  <2>1. ASSUME Awaited(c), call[c].endpoint = agent[a].endpoint
        PROVE  call[c].existing = ini[a]
    <3>1. PICK b \in Agents : agent[b].awaits = c
      BY <2>1 DEF Awaited
    <3>2. c # NoCall
      BY NoCallAssumption DEF RegistrationInv, CallsTyped
    <3>3. agent[b].pc = "waiting" /\ agent[b].endpoint = agent[a].endpoint
      BY <2>1, <3>1, <3>2, OwnFacts DEF Sound, RegistrationInv, AwaitedInFlight
    <3>4. b = a
      BY <3>3, OwnFacts
    <3> QED
      BY <3>1, <3>3, <3>4 DEF FileInv, FileSound, Presents
  <2> QED
    BY <2>1 DEF Outdated
<1>5. RegisterCaller(c) =>
         RegisterOrReuse(call[c].endpoint, call[c].existing, DrawnKey)
  BY DEF RegisterCaller, Register
<1>6. Opens(rows', agent'[a].endpoint, ini'[a])
  BY <1>1, <1>2, <1>3, <1>4, <1>5, StaysOpen DEF RegistrationInv, vars
<1> QED
  BY <1>6 DEF Agrees, Accepted, FindByAddressPort, Opens

\* Who parts node.ini and the table: the operator, or an outdated call.
LEMMA WhoEndsAnAgreement ==
    ASSUME RegistrationInv, FileInv, RegistrationNext,
           NEW a \in Agents, Agrees(a), ~Agrees(a)'
    PROVE  \/ Operator
           \/ \E c \in DOMAIN call : Outdated(c, a) /\ (Answer(c) \/ Refuse(c))
<1>1. ASSUME NEW b \in Agents, AgentStep(b) \/ Crash(b)
      PROVE  FALSE
  BY <1>1, AgentsKeepAgreements
<1>2. ASSUME NEW c \in Calls, Answer(c) \/ Refuse(c)
      PROVE  c \in DOMAIN call /\ Outdated(c, a)
  <2>1. c \in DOMAIN call
    BY <1>2 DEF Answer, Refuse
  <2> QED
    BY <1>2, <2>1, CallsKeepAgreements
<1> QED
  BY <1>1, <1>2 DEF RegistrationNext

\* Both invariants hold throughout.
LEMMA FileInvariantHolds ==
    RegistrationSpec => [](RegistrationInv /\ FileInv)
<1>1. RegistrationInit => RegistrationInv /\ FileInv
  BY RegistrationInvHoldsAtStart, FileInvHoldsAtStart
<1>2. RegistrationInv /\ FileInv /\ [RegistrationNext]_systemVars
         => RegistrationInv' /\ FileInv'
  BY RegistrationInvIsInductive, FileInvIsInductive
<1> QED
  BY <1>1, <1>2, PTL DEF RegistrationSpec

\* Once node.ini and the centre agree, only an operator, or a request that was
\* given up and presents something else, parts them.
THEOREM AgreementsEnd == RegistrationSpec => AgreementEnds
<1>1. ASSUME RegistrationInv, FileInv, [RegistrationNext]_systemVars
      PROVE  [\A a \in Agents : Agrees(a) /\ ~Agrees(a)' =>
                 \/ Operator
                 \/ \E c \in DOMAIN call :
                       Outdated(c, a) /\ (Answer(c) \/ Refuse(c))]_systemVars
  BY <1>1, WhoEndsAnAgreement
<1> QED
  BY <1>1, FileInvariantHolds, PTL DEF RegistrationSpec, AgreementEnds

-----------------------------------------------------------------------------
(* What NodeStore promises, for the agents and their calls.                *)

\* Whatever agents retry, lose or send late, an endpoint's key changes only by
\* drawing a fresh one.
THEOREM RegistrationKeepsLeases == RegistrationSpec => LeaseSpec
  BY RegistrationRefinesNodeStore, ImplementsKeyLease

\* A key that was rotated or deleted away is not revived by an agent that still
\* has it in node.ini.
THEOREM RetiredKeysStayOut == RegistrationSpec => RetiredForever
  BY RegistrationRefinesNodeStore, RetiredKeysStayRetired

=============================================================================
