---------------------------- MODULE FleetProofs -----------------------------
(***************************************************************************)
(* Theorems about HealthProbe and, from "Who listens where" on, about the  *)
(* Fleet it is composed into.                                              *)
(*                                                                         *)
(* Handlers that work on a copy of a row only ever write to the            *)
(* registration they measured, whatever happens to the table meanwhile.    *)
(* In the fleet, what HealthProbe assumes of agents is what the agents of  *)
(* AgentRegistration do, and a request opens the node it was meant for and *)
(* no other.                                                               *)
(***************************************************************************)
EXTENDS Fleet, AgentRegistrationProofs

USE MaxIdAssumption, NoKeyAssumption, RetriesAssumption,
    MaxDisruptionsAssumption, NoCallAssumption

\* No handler holds an id that has not been assigned yet, so that an insertion
\* never takes the id of a handler on its way.
IdsAssigned == \A p \in DOMAIN probe : probe[p].id <= sequence

\* A check or test without a result has a request to make.
PendingHasRequests ==
    \A p \in DOMAIN probe : probe[p].result = "pending" => probe[p].left > 0

\* The inductive invariant.
ProbeInv ==
    /\ IInv
    /\ ProbeTypeOK
    /\ IdsAssigned
    /\ PendingHasRequests
    /\ ProbeIsAboutItsRow
    /\ HealthColumnsCoherent

-----------------------------------------------------------------------------
(* The table.                                                              *)

\* What the handlers and the other requests do to the table are steps of it.
LEMMA TableSteps ==
    ASSUME ProbeInv, [ProbeNext]_centreVars
    PROVE  [Next]_vars
<1>1. ASSUME NEW p \in Probes, Record(p)
      PROVE  Next
  <2>1. probe[p].id \in 1..MaxId
    BY <1>1 DEF ProbeInv, ProbeTypeOK, Probe, Record
  <2>2. (probe[p].result = "online") \in BOOLEAN
    OBVIOUS
  <2> QED
    BY <1>1, <2>1, <2>2, Zenon DEF Record, Next
<1>2. ASSUME Manage
      PROVE  Next
  <2>1. ASSUME NEW e \in Endpoints, NEW presented \in Keys \cup {NoKey},
               Register(TRUE, e, presented, DrawnKey)
        PROVE  Next
    BY <2>1, RegistrationIsATableStep DEF ProbeInv
  <2>2. \A id \in DOMAIN rows : id \in 1..MaxId
    <3>1. sequence \in 0..MaxId /\ DOMAIN rows \subseteq 1..sequence
      BY DEF ProbeInv, IInv, TypeOK
    <3> QED
      BY <3>1
  <2>3. ASSUME NEW id \in DOMAIN rows, Delete(id)
        PROVE  Next
    BY <2>2, <2>3 DEF Next
  <2>4. ASSUME NEW id \in DOMAIN rows, NEW b \in BOOLEAN, SetEnabled(id, b)
        PROVE  Next
    BY <2>2, <2>4 DEF Next
  <2> QED
    BY <1>2, <2>1, <2>3, <2>4 DEF Manage
<1>3. ASSUME NEW new \in Settings, RestartCentre(new)
      PROVE  Next
  BY <1>3 DEF RestartCentre, Next
<1>4. ASSUME NEW p \in Probes,
             \/ \E kind \in Kinds, id \in 1..MaxId, supplied \in Keys \cup {NoKey} :
                   Begin(p, kind, id, supplied)
             \/ Contact(p) \/ Relay(p)
      PROVE  UNCHANGED vars
  BY <1>4 DEF Begin, Contact, Relay
<1>5. ASSUME NEW e \in Endpoints, AgentRestarts(e)
      PROVE  UNCHANGED vars
  BY <1>5 DEF AgentRestarts
<1>6. ASSUME UNCHANGED centreVars
      PROVE  UNCHANGED vars
  BY <1>6 DEF centreVars
<1> QED
  BY <1>1, <1>2, <1>3, <1>4, <1>5, <1>6 DEF ProbeNext, ProbeStep

\* The invariant of the table, over the steps of the handlers.
LEMMA TableStaysConsistent ==
    ASSUME ProbeInv, [ProbeNext]_centreVars
    PROVE  IInv'
  BY TableSteps, InvariantIsInductive DEF ProbeInv

\* An id, once assigned, names a row of one endpoint until it is deleted; the
\* rows that appear have ids not assigned before.
LEMMA IdsKeepTheirEndpoint ==
    ASSUME IInv, [Next]_vars
    PROVE  /\ sequence' \in {sequence, sequence + 1}
           /\ \A id \in DOMAIN rows' :
                 IF id \in DOMAIN rows
                 THEN rows'[id].endpoint = rows[id].endpoint
                 ELSE id = sequence + 1
<1>1. CASE KeepsCredentials
  <2>1. sequence' \in {sequence, sequence + 1}
    BY DEF Next, vars, Register, RegisterOrReuse, Reuse, Insert, Rotate, NextId,
           Delete, SetEnabled, UpdateHealthResult, Restart
  <2> QED
    BY <1>1, <2>1 DEF KeepsCredentials, SameCredential
<1>2. ASSUME NEW e \in Endpoints, NEW k \in Keys, Insert(e, k)
      PROVE  /\ sequence' = sequence + 1
             /\ DOMAIN rows' = DOMAIN rows \cup {sequence + 1}
             /\ \A id \in DOMAIN rows : rows'[id] = rows[id]
  BY <1>2 DEF Insert, NextId, IInv, TypeOK
<1>3. ASSUME NEW e \in Endpoints, NEW k \in Keys, Rotate(e, k)
      PROVE  /\ sequence' = sequence
             /\ DOMAIN rows' = DOMAIN rows
             /\ \A id \in DOMAIN rows : rows'[id].endpoint = rows[id].endpoint
  <2>1. \A row \in Row : Rekeyed(row, k).endpoint = row.endpoint
    BY DEF Rekeyed, Row
  <2>2. \A id \in DOMAIN rows : rows[id] \in Row
    BY DEF IInv, TypeOK
  <2> QED
    BY <1>3, <2>1, <2>2 DEF Rotate
<1>4. CASE UNCHANGED vars
  BY <1>4 DEF vars
<1> QED
  BY <1>1, <1>2, <1>3, <1>4, StepCases

-----------------------------------------------------------------------------
(* The handlers.                                                           *)

\* A handler knows what ProbeInv says of it.
HandlerSound(h) ==
    /\ h \in Probe
    /\ h.id <= sequence
    /\ h.result = "pending" => h.left > 0
    /\ h.result = "online" => h.left = 0
    /\ h.hash = HashNodeKey(h.nodeKey)
    /\ h.id \in DOMAIN rows => rows[h.id].endpoint = h.endpoint

AllSound == \A p \in DOMAIN probe : HandlerSound(probe[p])

\* The invariant, one handler at a time.
LEMMA HandlerByHandler ==
    ProbeInv <=>
        /\ IInv /\ HealthColumnsCoherent
        /\ listening \in [Endpoints -> Keys \cup {NoKey}]
        /\ DOMAIN probe \subseteq Probes
        /\ probe = [p \in DOMAIN probe |-> probe[p]]
        /\ \A p \in DOMAIN probe : HandlerSound(probe[p])
<1>1. probe \in [DOMAIN probe -> Probe] <=>
         /\ probe = [p \in DOMAIN probe |-> probe[p]]
         /\ \A p \in DOMAIN probe : probe[p] \in Probe
  OBVIOUS
<1> QED
  BY <1>1 DEF ProbeInv, ProbeTypeOK, IdsAssigned, PendingHasRequests,
              ProbeIsAboutItsRow, HandlerSound, IInv

\* Whatever the others do to the table, a handler stays sound.
LEMMA SoundStays ==
    ASSUME IInv, [Next]_vars, NEW h, HandlerSound(h)
    PROVE  HandlerSound(h)'
<1>1. h.id \in 1..MaxId /\ sequence \in Nat
  BY DEF HandlerSound, Probe, IInv, TypeOK
<1> QED
  BY <1>1, IdsKeepTheirEndpoint DEF HandlerSound

\* A handler that begins is sound: it sends the credential of its row.
LEMMA BeginStep ==
    ASSUME ProbeInv, NEW p, NEW kind \in Kinds, NEW id \in 1..MaxId,
           NEW supplied \in Keys \cup {NoKey}, Begin(p, kind, id, supplied)
    PROVE  /\ DOMAIN probe' = DOMAIN probe \cup {p}
           /\ HandlerSound(probe'[p])
           /\ \A q \in DOMAIN probe : probe'[q] = probe[q]
           /\ probe' = [q \in DOMAIN probe' |-> probe'[q]]
<1>1. PICK k \in Keys :
         /\ ResolvesTo(rows[id], supplied, k)
         /\ probe' = [q \in DOMAIN probe \cup {p} |->
               IF q # p THEN probe[q]
               ELSE [kind |-> kind, id |-> id,
                     endpoint |-> rows[id].endpoint,
                     hash |-> rows[id].node_key_hash,
                     nodeKey |-> k, left |-> Requests(kind),
                     result |-> "pending"]]
  BY DEF Begin
<1>2. id \in DOMAIN rows /\ p \notin DOMAIN probe
  BY DEF Begin
<1>3. /\ rows[id].endpoint \in Endpoints
      /\ rows[id].node_key_hash = HashNodeKey(k)
      /\ rows[id].node_key_hash \in Hashes
      /\ id <= sequence
  BY <1>1, <1>2, ResolvesToCurrent
  DEF ProbeInv, IInv, TypeOK, Row, ResolvedKeyIsCurrent
<1>4. Requests(kind) \in {1, 3}
  BY DEF Requests
<1>5. HandlerSound([kind |-> kind, id |-> id, endpoint |-> rows[id].endpoint,
             hash |-> rows[id].node_key_hash, nodeKey |-> k,
             left |-> Requests(kind), result |-> "pending"])
  BY <1>3, <1>4 DEF HandlerSound, Probe
<1> QED
  BY <1>1, <1>2, <1>5

\* Only the result and the requests left change when an answer comes.
Answered(h, left, result) == [h EXCEPT !.left = left, !.result = result]

\* So a handler that has had an answer is sound.
LEMMA AnsweredIsSound ==
    ASSUME NEW h, HandlerSound(h), NEW left \in 0..3,
           NEW result \in {"pending", "online", "error"},
           result = "pending" => left > 0, result = "online" => left = 0
    PROVE  HandlerSound(Answered(h, left, result))
<1> DEFINE g == Answered(h, left, result)
<1>1. h \in Probe
  BY DEF HandlerSound
<1>2. g \in Probe
  BY <1>1 DEF Probe, Answered
<1>3. /\ g.id = h.id /\ g.endpoint = h.endpoint /\ g.hash = h.hash
      /\ g.nodeKey = h.nodeKey /\ g.left = left /\ g.result = result
  BY <1>1 DEF Probe, Answered
<1> HIDE DEF g
<1>4. HandlerSound(g)
  BY <1>2, <1>3 DEF HandlerSound
<1> QED
  BY <1>4 DEF g

\* An answer makes one handler sound anew and leaves the others alone.
LEMMA ContactStep ==
    ASSUME ProbeInv, NEW p, Contact(p)
    PROVE  /\ DOMAIN probe' = DOMAIN probe
           /\ HandlerSound(probe'[p])
           /\ \A q \in DOMAIN probe \ {p} : probe'[q] = probe[q]
           /\ probe' = [q \in DOMAIN probe' |-> probe'[q]]
<1> DEFINE h == probe[p]
<1>1. p \in DOMAIN probe /\ h.result = "pending" /\ HandlerSound(h)
  BY HandlerByHandler DEF Contact
<1>2. h.left \in 1..3
  BY <1>1 DEF HandlerSound, Probe
<1>3. CASE probe' = [probe EXCEPT ![p].left = @ - 1, ![p].result = ResultAfter(p)]
  <2>1. ResultAfter(p) = IF h.left = 1 THEN "online" ELSE "pending"
    BY DEF ResultAfter
  <2>2. HandlerSound(Answered(h, h.left - 1, ResultAfter(p)))
    <3>1. h.left - 1 \in 0..3
      BY <1>2
    <3> HIDE DEF h
    <3> QED
      BY <1>1, <1>2, <2>1, <3>1, AnsweredIsSound
  <2> QED
    BY <1>1, <1>3, <2>2 DEF Answered
<1>4. CASE probe' = [probe EXCEPT ![p].left = 0, ![p].result = "error"]
  <2>1. HandlerSound(Answered(h, 0, "error"))
    <3> HIDE DEF h
    <3> QED
      BY <1>1, AnsweredIsSound
  <2> QED
    BY <1>1, <1>4, <2>1 DEF Answered
<1> QED
  BY <1>3, <1>4 DEF Contact

\* Every handler of the next state is one of this state, or was made or
\* changed, and made sound, by a step that left the table alone.
LEMMA HandlerSteps ==
    ASSUME ProbeInv, [ProbeNext]_centreVars
    PROVE  /\ listening' \in [Endpoints -> Keys \cup {NoKey}]
           /\ DOMAIN probe' \subseteq Probes
           /\ probe' = [p \in DOMAIN probe' |-> probe'[p]]
           /\ \A p \in DOMAIN probe' :
                 \/ p \in DOMAIN probe /\ probe'[p] = probe[p]
                 \/ HandlerSound(probe'[p]) /\ UNCHANGED vars
<1> DEFINE Kept(p) == p \in DOMAIN probe /\ probe'[p] = probe[p]
           Goal == /\ listening' \in [Endpoints -> Keys \cup {NoKey}]
                   /\ DOMAIN probe' \subseteq Probes
                   /\ probe' = [p \in DOMAIN probe' |-> probe'[p]]
                   /\ \A p \in DOMAIN probe' :
                         Kept(p) \/ (HandlerSound(probe'[p]) /\ UNCHANGED vars)
<1>0. /\ listening \in [Endpoints -> Keys \cup {NoKey}]
      /\ DOMAIN probe \subseteq Probes
      /\ probe = [p \in DOMAIN probe |-> probe[p]]
  BY HandlerByHandler
<1>1. ASSUME NEW p \in Probes, NEW kind \in Kinds, NEW id \in 1..MaxId,
             NEW supplied \in Keys \cup {NoKey}, Begin(p, kind, id, supplied)
      PROVE  Goal
  <2>1. UNCHANGED <<vars, listening>>
    BY <1>1 DEF Begin
  <2>2. /\ DOMAIN probe' = DOMAIN probe \cup {p}
        /\ HandlerSound(probe'[p])
        /\ \A q \in DOMAIN probe : probe'[q] = probe[q]
        /\ probe' = [q \in DOMAIN probe' |-> probe'[q]]
    BY <1>1, BeginStep
  <2> QED
    BY <1>0, <2>1, <2>2
<1>2. ASSUME NEW p \in Probes, Contact(p)
      PROVE  Goal
  <2>1. UNCHANGED <<vars, listening>>
    BY <1>2 DEF Contact
  <2> QED
    BY <1>0, <1>2, <2>1, ContactStep
<1>3. ASSUME NEW p \in Probes, Relay(p) \/ Record(p)
      PROVE  Goal
  <2>1. probe' = WithoutHandler(p) /\ UNCHANGED listening
    BY <1>3 DEF Relay, Record
  <2> QED
    BY <1>0, <2>1 DEF WithoutHandler
<1>4. ASSUME NEW e \in Endpoints, AgentRestarts(e)
      PROVE  Goal
  <2>1. generated \subseteq Keys
    BY DEF ProbeInv, IInv, TypeOK
  <2>2. /\ UNCHANGED <<vars, probe>>
        /\ listening' \in [Endpoints -> Keys \cup {NoKey}]
    BY <1>0, <1>4, <2>1 DEF AgentRestarts
  <2> QED
    BY <1>0, <2>2
<1>5. ASSUME NEW new \in Settings, RestartCentre(new)
      PROVE  Goal
  <2>1. probe' = [p \in {} |-> {}] /\ UNCHANGED listening
    BY <1>5 DEF RestartCentre
  <2> QED
    BY <1>0, <2>1
<1>6. ASSUME Manage \/ UNCHANGED centreVars
      PROVE  Goal
  <2>1. UNCHANGED <<probe, listening>>
    BY <1>6 DEF Manage, centreVars, probeVars
  <2> QED
    BY <1>0, <2>1
<1> HIDE DEF Goal
<1>7. Goal
  BY <1>1, <1>2, <1>3, <1>4, <1>5, <1>6 DEF ProbeNext, ProbeStep
<1> QED
  BY <1>7 DEF Goal

-----------------------------------------------------------------------------
(* The health columns.                                                     *)

\* The health columns of one row tell one story.
CoherentRow(row) ==
    /\ row.last_latency_ms <=> row.last_status = "online"
    /\ row.last_error <=> row.last_status = "error"
    /\ row.last_status = "online" => row.last_seen_at
    /\ row.last_status = "unknown" => ~row.last_seen_at

\* The columns CoherentRow speaks of.
SameHealth(new, old) ==
    /\ new.last_status = old.last_status
    /\ new.last_latency_ms = old.last_latency_ms
    /\ new.last_error = old.last_error
    /\ new.last_seen_at = old.last_seen_at

\* A result fills all four columns.
LEMMA RecordedIsCoherent ==
    ASSUME NEW row \in Row, NEW online \in BOOLEAN
    PROVE  CoherentRow(Recorded(row, online))
<1> DEFINE new == Recorded(row, online)
<1>1. /\ new.last_status = IF online THEN "online" ELSE "error"
      /\ new.last_latency_ms = online
      /\ new.last_error = ~online
      /\ new.last_seen_at = (row.last_seen_at \/ online)
  BY Zenon DEF Recorded, Row
<1> HIDE DEF new
<1>2. ASSUME online = TRUE
      PROVE  CoherentRow(new)
  BY <1>1, <1>2 DEF CoherentRow
<1>3. ASSUME online = FALSE
      PROVE  CoherentRow(new)
  BY <1>1, <1>3 DEF CoherentRow
<1>4. CoherentRow(new)
  BY <1>2, <1>3
<1> QED
  BY <1>4 DEF new

\* Registrations and the switch leave the columns of old rows alone, and a new
\* row has none.
LEMMA RowsStayCoherent ==
    ASSUME IInv, HealthColumnsCoherent, [Next]_vars
    PROVE  HealthColumnsCoherent'
<1> DEFINE Kept == \A id \in DOMAIN rows' : 
              id \in DOMAIN rows /\ SameHealth(rows'[id], rows[id])
<1>0. \A id \in DOMAIN rows : rows[id] \in Row /\ CoherentRow(rows[id])
  BY DEF HealthColumnsCoherent, CoherentRow, IInv, TypeOK
<1>1. ASSUME NEW e \in Endpoints, NEW existing, Reuse(e, existing)
      PROVE  Kept
  BY <1>0, <1>1 DEF Reuse, SameHealth, Row
<1>2. ASSUME NEW e \in Endpoints, NEW k \in Keys, Rotate(e, k)
      PROVE  Kept
  <2>1. \A row \in Row : SameHealth(Rekeyed(row, k), row)
    BY DEF Rekeyed, SameHealth, Row
  <2> QED
    BY <1>0, <1>2, <2>1 DEF Rotate, SameHealth
<1>3. ASSUME NEW e \in Endpoints, NEW k \in Keys, Insert(e, k)
      PROVE  \A id \in DOMAIN rows' : CoherentRow(rows'[id])
  <2>1. CoherentRow(NewRow(e, k))
    BY DEF CoherentRow, NewRow
  <2> QED
    BY <1>0, <1>3, <2>1 DEF Insert, NextId
<1>4. ASSUME NEW id, NEW b \in BOOLEAN,
             Delete(id) \/ SetEnabled(id, b)
      PROVE  Kept
  BY <1>0, <1>4 DEF Delete, SetEnabled, SameHealth, Row
<1>5. ASSUME NEW id, NEW b \in BOOLEAN, UpdateHealthResult(id, b)
      PROVE  \A i \in DOMAIN rows' : CoherentRow(rows'[i])
  BY <1>0, <1>5, RecordedIsCoherent DEF UpdateHealthResult
<1>6. ASSUME (\E new \in Settings : Restart(new)) \/ UNCHANGED vars
      PROVE  Kept
  BY <1>6 DEF Restart, vars, SameHealth
<1>7. Kept => \A id \in DOMAIN rows' : CoherentRow(rows'[id])
  BY <1>0 DEF SameHealth, CoherentRow
<1> HIDE DEF Kept
<1>8. \A id \in DOMAIN rows' : CoherentRow(rows'[id])
  BY <1>1, <1>2, <1>3, <1>4, <1>5, <1>6, <1>7
  DEF Next, Register, RegisterOrReuse
<1> QED
  BY <1>8 DEF HealthColumnsCoherent, CoherentRow
-----------------------------------------------------------------------------
(* Theorems.                                                               *)

\* The empty table and no handlers satisfy the invariant.
LEMMA ProbeInvHoldsAtStart ==
    ASSUME ProbeInit
    PROVE  ProbeInv
<1>1. IInv
  BY InvariantHoldsAtStart DEF ProbeInit
<1>2. rows = [id \in {} |-> {}] /\ probe = [p \in {} |-> {}]
      /\ listening = [e \in Endpoints |-> NoKey]
  BY DEF ProbeInit, Init
<1> QED
  BY <1>1, <1>2, HandlerByHandler DEF HealthColumnsCoherent

\* Every step of the centre keeps it.
LEMMA ProbeInvIsInductive ==
    ASSUME ProbeInv, [ProbeNext]_centreVars
    PROVE  ProbeInv'
<1>1. IInv' /\ [Next]_vars
  BY TableSteps, TableStaysConsistent
<1>2. HealthColumnsCoherent'
  BY <1>1, RowsStayCoherent DEF ProbeInv
<1>3. ASSUME NEW h, HandlerSound(h)
      PROVE  HandlerSound(h)'
  BY <1>1, <1>3, SoundStays DEF ProbeInv
<1>4. ASSUME NEW p \in DOMAIN probe', NEW h, h = probe'[p]
      PROVE  HandlerSound(h)'
  <2>1. CASE p \in DOMAIN probe /\ probe'[p] = probe[p]
    BY <1>3, <1>4, <2>1, HandlerByHandler
  <2>2. CASE HandlerSound(probe'[p]) /\ UNCHANGED vars
    BY <1>3, <1>4, <2>2
  <2> QED
    BY <1>4, <2>1, <2>2, HandlerSteps
<1>5. AllSound'
  BY <1>4 DEF AllSound, HandlerSound
<1>6. probe' \in [DOMAIN probe' -> Probe]
  BY <1>5, HandlerSteps DEF AllSound, HandlerSound
<1> QED
  BY <1>1, <1>2, <1>5, <1>6, HandlerSteps
  DEF ProbeInv, ProbeTypeOK, IdsAssigned, PendingHasRequests,
      ProbeIsAboutItsRow, AllSound, HandlerSound, IInv

\* The invariant holds over every interleaving of handlers, registrations,
\* deletions, switches and restarts, of any number of nodes and handlers.
THEOREM ProbeInvariantHolds == ProbeSpec => []ProbeInv
  BY ProbeInvHoldsAtStart, ProbeInvIsInductive, PTL DEF ProbeSpec

\* Handlers and agents keep their types.
THEOREM ProbeTypeCorrect == ProbeSpec => []ProbeTypeOK
  BY ProbeInvariantHolds, PTL DEF ProbeInv

\* A handler on its way sends the credential its row had when it was read, and
\* writes to the row of the endpoint it talks to, if to any.
THEOREM ProbesStayWithTheirRow == ProbeSpec => []ProbeIsAboutItsRow
  BY ProbeInvariantHolds, PTL DEF ProbeInv

\* No order of results, rotations and switches makes the columns disagree.
THEOREM HealthColumnsAgree == ProbeSpec => []HealthColumnsCoherent
  BY ProbeInvariantHolds, PTL DEF ProbeInv

\* A result measured for a registration that was deleted reaches no later one.
THEOREM ResultsStayWithRegistration == ProbeSpec => ResultStaysWithRegistration
<1>1. ASSUME ProbeInv, [ProbeNext]_centreVars
      PROVE  [\A id \in DOMAIN rows' \ DOMAIN rows :
                 \A p \in DOMAIN probe : probe[p].id # id]_centreVars
  <2>1. ASSUME NEW id \in DOMAIN rows' \ DOMAIN rows, NEW p \in DOMAIN probe
        PROVE  probe[p].id # id
    <3>1. id = sequence + 1
      BY <1>1, <2>1, TableSteps, IdsKeepTheirEndpoint DEF ProbeInv
    <3>2. probe[p].id \in 1..MaxId /\ probe[p].id <= sequence /\ sequence \in Nat
      BY <1>1, <2>1 DEF ProbeInv, ProbeTypeOK, Probe, IdsAssigned, IInv, TypeOK
    <3> QED
      BY <3>1, <3>2
  <2> QED
    BY <2>1
<1> QED
  BY <1>1, ProbeInvariantHolds, PTL
  DEF ProbeSpec, ResultStaysWithRegistration

\* Under the handlers the table is still that of NodeStore: what is proved of
\* it holds here.
THEOREM ProbesRefineNodeStore == ProbeSpec => Spec
<1>1. ProbeInit => Init
  BY DEF ProbeInit
<1> QED
  BY <1>1, TableSteps, ProbeInvariantHolds, PTL DEF ProbeSpec, Spec

-----------------------------------------------------------------------------
(* Who listens where.                                                      *)

\* Served, as a function of any state of the agents.
ServedBy(f, e) ==
    LET at == {a \in Agents : f[a].pc = "serving" /\ f[a].endpoint = e} IN
    IF at = {} THEN NoKey ELSE f[CHOOSE a \in at : TRUE].key

LEMMA ServedPointwise ==
    /\ Served = [e \in Endpoints |-> ServedBy(agent, e)]
    /\ Served' = [e \in Endpoints |-> ServedBy(agent', e)]
  BY DEF Served, ServingAt, ServedBy

\* The one agent that serves at an endpoint is the one whose key opens it.
LEMMA ServedByOne ==
    ASSUME NEW f, NEW e, NEW a \in Agents, f[a].pc = "serving", f[a].endpoint = e,
           \A b \in Agents : f[b].endpoint = e => b = a
    PROVE  ServedBy(f, e) = f[a].key
<1> DEFINE at == {b \in Agents : f[b].pc = "serving" /\ f[b].endpoint = e}
<1>1. a \in at /\ \A b \in at : b = a
  OBVIOUS
<1> HIDE DEF at
<1>2. at # {} /\ (CHOOSE b \in at : TRUE) = a
  BY <1>1
<1> QED
  BY <1>2 DEF ServedBy, at

\* What the endpoints listen with after the step of one agent.
LEMMA ServedAfter ==
    ASSUME OwnEndpoints, OwnEndpoints', agent \in [Agents -> Agent],
           NEW a \in Agents, NEW g, agent' = [agent EXCEPT ![a] = g],
           NEW e \in Endpoints
    PROVE  ServedBy(agent', e) =
              IF g.pc = "serving" /\ g.endpoint = e THEN g.key
              ELSE IF agent[a].pc = "serving" /\ agent[a].endpoint = e THEN NoKey
              ELSE ServedBy(agent, e)
<1> DEFINE at == {b \in Agents : agent[b].pc = "serving" /\ agent[b].endpoint = e}
           after == {b \in Agents : agent'[b].pc = "serving" /\ agent'[b].endpoint = e}
<1>1. agent'[a] = g /\ \A b \in Agents \ {a} : agent'[b] = agent[b]
  OBVIOUS
<1>2. CASE g.pc = "serving" /\ g.endpoint = e
  <2>1. \A b \in Agents : agent'[b].endpoint = e => b = a
    BY <1>1, <1>2 DEF OwnEndpoints
  <2>2. agent'[a].pc = "serving" /\ agent'[a].endpoint = e
    BY <1>1, <1>2
  <2>3. ServedBy(agent', e) = agent'[a].key
    BY <2>1, <2>2, ServedByOne
  <2> QED
    BY <1>1, <1>2, <2>3
<1>3. CASE /\ ~(g.pc = "serving" /\ g.endpoint = e)
           /\ agent[a].pc = "serving" /\ agent[a].endpoint = e
  <2>1. after = {}
    BY <1>1, <1>3 DEF OwnEndpoints
  <2> QED
    BY <1>3, <2>1 DEF ServedBy
<1>4. CASE /\ ~(g.pc = "serving" /\ g.endpoint = e)
           /\ ~(agent[a].pc = "serving" /\ agent[a].endpoint = e)
  <2>1. after = at /\ a \notin at
    BY <1>1, <1>4
  <2>2. at # {} => LET b == CHOOSE b \in at : TRUE IN agent'[b] = agent[b]
    <3> HIDE DEF after
    <3>1. \A b \in at : agent'[b] = agent[b]
      BY <1>1, <2>1
    <3> HIDE DEF at
    <3> QED
      BY <3>1
  <2>3. /\ ServedBy(agent, e) =
              IF at = {} THEN NoKey ELSE agent[CHOOSE b \in at : TRUE].key
        /\ ServedBy(agent', e) =
              IF after = {} THEN NoKey ELSE agent'[CHOOSE b \in after : TRUE].key
    BY DEF ServedBy
  <2> HIDE DEF at, after
  <2> QED
    BY <1>4, <2>1, <2>2, <2>3
<1> QED
  BY <1>2, <1>3, <1>4

-----------------------------------------------------------------------------
(* Whose key is whose.                                                     *)

\* An agent at e holds k, as its own key or as its NODE_KEY.
Held(e, k) ==
    \E a \in Agents : /\ agent[a].endpoint = e
                      /\ k \in {agent[a].key, agent[a].override}

\* A reply on its way to e carries k.
Carried(e, k) ==
    \E c \in DOMAIN call : call[c].endpoint = e /\ call[c].node_key = k

\* A handler sends k to e.
Sent(e, k) ==
    \E p \in DOMAIN probe : probe[p].endpoint = e /\ probe[p].nodeKey = k

Claims(e, k) == Opens(rows, e, k) \/ Held(e, k) \/ Carried(e, k) \/ Sent(e, k)

\* Wherever a key shows up in the fleet, it is the key of one endpoint.
KeysApart ==
    \A e, f \in Endpoints, k \in Keys : Claims(e, k) /\ Claims(f, k) => e = f

\* Every key in the fleet was drawn by the centre.
ClaimsDrawn ==
    \A e \in Endpoints, k \in Keys : Claims(e, k) => k \in generated

\* The inductive invariant.
FleetInv ==
    /\ RegistrationInv
    /\ ProbeInv
    /\ listening = Served
    /\ KeysApart
    /\ ClaimsDrawn

\* Keys stay apart in a step that claims at most one more, which is fresh or
\* was that endpoint's already.
LEMMA OneMoreClaim ==
    ASSUME KeysApart, ClaimsDrawn, NEW e0 \in Endpoints, NEW k0 \in Keys,
           k0 \notin generated \/ Claims(e0, k0),
           k0 \in generated', generated \subseteq generated',
           \A e \in Endpoints, k \in Keys :
              Claims(e, k)' => Claims(e, k) \/ (e = e0 /\ k = k0)
    PROVE  KeysApart' /\ ClaimsDrawn'
<1>1. ASSUME NEW e \in Endpoints, NEW f \in Endpoints, NEW k \in Keys,
             Claims(e, k)', Claims(f, k)'
      PROVE  e = f
  BY <1>1 DEF KeysApart, ClaimsDrawn
<1>2. ASSUME NEW e \in Endpoints, NEW k \in Keys, Claims(e, k)'
      PROVE  k \in generated'
  BY <1>2 DEF ClaimsDrawn
<1> QED
  BY <1>1, <1>2 DEF KeysApart, ClaimsDrawn

LEMMA NoMoreClaims ==
    ASSUME KeysApart, ClaimsDrawn, generated \subseteq generated',
           \A e \in Endpoints, k \in Keys : Claims(e, k)' => Claims(e, k)
    PROVE  KeysApart' /\ ClaimsDrawn'
<1>1. ASSUME NEW e \in Endpoints, NEW f \in Endpoints, NEW k \in Keys,
             Claims(e, k)', Claims(f, k)'
      PROVE  e = f
  BY <1>1 DEF KeysApart, ClaimsDrawn
<1>2. ASSUME NEW e \in Endpoints, NEW k \in Keys, Claims(e, k)'
      PROVE  k \in generated'
  BY <1>2 DEF ClaimsDrawn
<1> QED
  BY <1>1, <1>2 DEF KeysApart, ClaimsDrawn

-----------------------------------------------------------------------------
(* The step of one agent.                                                  *)

\* One agent's record becomes g, and nothing happens at the centre: a running
\* server is not given another key, and what keys the agent has it had, or
\* they came with the reply it awaited.
AgentMoves(a, g) ==
    /\ agent' = [agent EXCEPT ![a] = g]
    /\ UNCHANGED vars
    /\ g.pc = "serving" => agent[a].pc # "serving"
    /\ \/ g.endpoint = agent[a].endpoint
       \/ agent[a].pc = "down" /\ g.pc = "down"
    /\ \A k \in Keys : k \in {g.key, g.override} =>
          /\ g.endpoint = agent[a].endpoint
          /\ \/ k \in {agent[a].key, agent[a].override}
             \/ Carried(agent[a].endpoint, k)
    /\ \A c \in DOMAIN call' :
          \/ call'[c].node_key = NoKey
          \/ c \in DOMAIN call /\ call'[c] = call[c]

\* A call that is left alone, or ends.
LEMMA CallsEnd ==
    ASSUME RegistrationInv, NEW c, call' = call \/ call' = Without(c)
    PROVE  \A d \in DOMAIN call' : d \in DOMAIN call /\ call'[d] = call[d]
<1>1. call = [d \in DOMAIN call |-> call[d]]
  BY DEF RegistrationInv, CallsTyped
<1> QED
  BY <1>1 DEF Without

\* An agent starts.
LEMMA BootMoves ==
    ASSUME RegistrationInv, NEW a \in Agents, Boot(a)
    PROVE  \E g : AgentMoves(a, g)
<1> DEFINE old == agent[a]
           overridden == [old EXCEPT !.pc = "serving", !.key = old.override]
           registering == [old EXCEPT !.pc = "registering", !.existing = ini[a],
                                      !.attempt = 1]
           new == IF old.override # NoKey THEN overridden ELSE registering
<1>1. old \in Agent /\ old.pc = "down"
      /\ agent' = [agent EXCEPT ![a] = new]
      /\ UNCHANGED <<vars, call>>
  BY OwnFacts DEF Boot, LoadNodeState
<1>2. /\ new.pc # "down" /\ new.endpoint = old.endpoint
      /\ new.override = old.override
      /\ new.key \in {old.key, old.override}
  BY <1>1 DEF Agent
<1> HIDE DEF new
<1>3. AgentMoves(a, new)
  BY <1>1, <1>2 DEF AgentMoves
<1> QED
  BY <1>3

\* It sends a request.
LEMMA SendRequestMoves ==
    ASSUME RegistrationInv, NEW a \in Agents, SendRequest(a)
    PROVE  \E g : AgentMoves(a, g)
<1> DEFINE old == agent[a]
           new == [old EXCEPT !.pc = "waiting", !.awaits = NextSlot]
<1>1. old \in Agent /\ agent' = [agent EXCEPT ![a] = new] /\ UNCHANGED vars
  BY OwnFacts DEF SendRequest, RegistrationInv, AgentsSound
<1>2. /\ new.pc = "waiting" /\ new.endpoint = old.endpoint
      /\ new.override = old.override /\ new.key = old.key
  BY <1>1 DEF Agent
<1>3. \A c \in DOMAIN call' :
         \/ call'[c].node_key = NoKey
         \/ c \in DOMAIN call /\ call'[c] = call[c]
  BY DEF SendRequest
<1> HIDE DEF new
<1>4. AgentMoves(a, new)
  BY <1>1, <1>2, <1>3 DEF AgentMoves
<1> QED
  BY <1>4

\* It has its reply.
LEMMA ReceiveReplyMoves ==
    ASSUME RegistrationInv, NEW a \in Agents, ReceiveReply(a)
    PROVE  \E g : AgentMoves(a, g)
<1> DEFINE old == agent[a]
           granted == call[old.awaits].node_key
           new == [old EXCEPT !.pc = "saving", !.awaits = NoCall,
                              !.existing = NoKey, !.attempt = 0, !.key = granted]
<1>1. /\ old \in Agent /\ agent' = [agent EXCEPT ![a] = new] /\ UNCHANGED vars
      /\ old.pc = "waiting" /\ call' = Without(old.awaits)
  BY OwnFacts DEF ReceiveReply, RegistrationInv, AgentsSound
<1>2. \A k \in Keys : k = granted => Carried(old.endpoint, k)
  BY <1>1, WaitingAgent DEF Carried
<1> HIDE DEF granted
<1>3. /\ new.pc = "saving" /\ new.endpoint = old.endpoint
      /\ new.override = old.override /\ new.key = granted
  <2>1. new = [f \in DOMAIN old |->
                   IF f = "pc" THEN "saving" ELSE
                   IF f = "awaits" THEN NoCall ELSE
                   IF f = "existing" THEN NoKey ELSE
                   IF f = "attempt" THEN 0 ELSE
                   IF f = "key" THEN granted ELSE old[f]]
    BY <1>1, AgentFields
  <2> QED
    BY <1>1, <2>1, AgentFields
<1> HIDE DEF new
<1>4. AgentMoves(a, new)
  BY <1>1, <1>2, <1>3, CallsEnd DEF AgentMoves
<1> QED
  BY <1>4

\* An attempt fails.
LEMMA AttemptFailsMoves ==
    ASSUME RegistrationInv, NEW a \in Agents, AttemptFails(a)
    PROVE  \E g : AgentMoves(a, g)
<1> DEFINE old == agent[a]
           again == [old EXCEPT !.pc = "registering", !.awaits = NoCall,
                                !.attempt = old.attempt + 1]
           exited == [old EXCEPT !.pc = "down", !.awaits = NoCall,
                                 !.existing = NoKey, !.attempt = 0]
           new == IF CanRetry(a) THEN again ELSE exited
<1>1. /\ old \in Agent /\ UNCHANGED vars
      /\ call' = call \/ call' = Without(old.awaits)
  BY OwnFacts DEF AttemptFails, Abandon
<1>2. agent' = [agent EXCEPT ![a] = new]
  BY DEF AttemptFails
<1>3. /\ new.pc \in {"registering", "down"} /\ new.endpoint = old.endpoint
      /\ new.override = old.override /\ new.key = old.key
  BY <1>1 DEF Agent
<1> HIDE DEF new
<1>4. AgentMoves(a, new)
  BY <1>1, <1>2, <1>3, CallsEnd DEF AgentMoves
<1> QED
  BY <1>4

\* It starts to serve.
LEMMA SaveNodeStateMoves ==
    ASSUME RegistrationInv, NEW a \in Agents, SaveNodeState(a)
    PROVE  \E g : AgentMoves(a, g)
<1> DEFINE old == agent[a]
           new == [old EXCEPT !.pc = "serving"]
<1>1. /\ old \in Agent /\ agent' = [agent EXCEPT ![a] = new]
      /\ UNCHANGED <<vars, call>> /\ old.pc = "saving"
  BY OwnFacts DEF SaveNodeState, RegistrationInv, AgentsSound
<1>2. /\ new.endpoint = old.endpoint
      /\ new.override = old.override /\ new.key = old.key
  BY <1>1 DEF Agent
<1> HIDE DEF new
<1>3. AgentMoves(a, new)
  BY <1>1, <1>2 DEF AgentMoves
<1> QED
  BY <1>3

\* Its process dies.
LEMMA CrashMoves ==
    ASSUME RegistrationInv, NEW a \in Agents, Crash(a)
    PROVE  \E g : AgentMoves(a, g)
<1> DEFINE old == agent[a]
           new == [old EXCEPT !.pc = "down", !.awaits = NoCall,
                              !.existing = NoKey, !.attempt = 0, !.key = NoKey]
<1>1. /\ old \in Agent /\ UNCHANGED vars
      /\ call' = call \/ call' = Without(old.awaits)
      /\ agent' = [agent EXCEPT ![a] = new]
  BY OwnFacts DEF Crash, Abandon, RegistrationInv, AgentsSound
<1>2. /\ new.pc = "down" /\ new.endpoint = old.endpoint
      /\ new.override = old.override /\ new.key = NoKey
  <2>1. new = [f \in DOMAIN old |->
                   IF f = "pc" THEN "down" ELSE
                   IF f = "awaits" THEN NoCall ELSE
                   IF f = "existing" THEN NoKey ELSE
                   IF f = "attempt" THEN 0 ELSE
                   IF f = "key" THEN NoKey ELSE old[f]]
    BY <1>1, AgentFields
  <2> QED
    BY <1>1, <2>1, AgentFields
<1> HIDE DEF new
<1>3. AgentMoves(a, new)
  BY <1>1, <1>2, CallsEnd DEF AgentMoves
<1> QED
  BY <1>3

\* It is moved, while it is down.
LEMMA ReconfigureMoves ==
    ASSUME RegistrationInv, NEW a \in Agents, NEW e \in Endpoints, Reconfigure(a, e)
    PROVE  \E g : AgentMoves(a, g)
<1> DEFINE old == agent[a]
           new == [old EXCEPT !.endpoint = e, !.override = NoKey]
<1>1. /\ old \in Agent /\ Sound(old) /\ UNCHANGED <<vars, call>>
      /\ old.pc = "down" /\ agent' = [agent EXCEPT ![a] = new]
  BY OwnFacts DEF Reconfigure, RegistrationInv, AgentsSound
<1>2. new.pc = "down" /\ new.override = NoKey /\ new.key = NoKey
  BY <1>1 DEF Agent, Sound
<1> HIDE DEF new
<1>3. AgentMoves(a, new)
  BY <1>1, <1>2 DEF AgentMoves
<1> QED
  BY <1>3

\* Every step of an agent is such a move.
LEMMA AgentsMove ==
    ASSUME RegistrationInv, NEW a \in Agents,
           AgentStep(a) \/ Crash(a) \/ \E e \in Endpoints : Reconfigure(a, e)
    PROVE  \E g : AgentMoves(a, g)
  BY BootMoves, SendRequestMoves, ReceiveReplyMoves, AttemptFailsMoves,
     SaveNodeStateMoves, CrashMoves, ReconfigureMoves DEF AgentStep

\* The endpoints listen as before, but for one.
LEMMA OneListens ==
    ASSUME NEW f, NEW h, NEW e, NEW k,
           listening = [x \in Endpoints |-> ServedBy(f, x)],
           listening' = [x \in Endpoints |-> ServedBy(h, x)],
           \A x \in Endpoints :
              ServedBy(h, x) = IF x = e THEN k ELSE ServedBy(f, x)
    PROVE  listening' = [listening EXCEPT ![e] = k]
<1>1. listening' = [x \in Endpoints |-> IF x = e THEN k ELSE ServedBy(f, x)]
  OBVIOUS
<1> QED
  BY <1>1

\* What an agent does is no business of the handlers, or restarts the one
\* endpoint it serves at, with a key that belongs there.
LEMMA AgentMovesListen ==
    ASSUME RegistrationInv, RegistrationInv', ProbeInv,
           listening = Served, listening' = Served', UNCHANGED probe,
           NEW a \in Agents, NEW g, AgentMoves(a, g)
    PROVE  [ProbeNext]_centreVars
<1> DEFINE old == agent[a]
           e == old.endpoint
<1>1. /\ OwnEndpoints /\ OwnEndpoints' /\ agent \in [Agents -> Agent]
      /\ agent' = [agent EXCEPT ![a] = g] /\ agent'[a] = g
      /\ UNCHANGED vars /\ e \in Endpoints
      /\ g.pc = "serving" => old.pc # "serving"
      /\ g.endpoint = e \/ (old.pc = "down" /\ g.pc = "down")
  BY DEF RegistrationInv, AgentsSound, AgentMoves, Agent
<1>2. /\ listening = [f \in Endpoints |-> ServedBy(agent, f)]
      /\ listening' = [f \in Endpoints |-> ServedBy(agent', f)]
  BY ServedPointwise
<1> DEFINE After(f) == IF g.pc = "serving" /\ g.endpoint = f THEN g.key
                       ELSE IF old.pc = "serving" /\ old.endpoint = f THEN NoKey
                       ELSE ServedBy(agent, f)
<1>3. \A f \in Endpoints : ServedBy(agent', f) = After(f)
  BY <1>1, ServedAfter
<1>4. CASE g.pc # "serving" /\ old.pc # "serving"
  <2>1. \A f \in Endpoints : ServedBy(agent', f) = ServedBy(agent, f)
    BY <1>3, <1>4
  <2>2. listening' = listening
    BY <1>2, <2>1
  <2> QED
    BY <1>1, <2>2 DEF centreVars, probeVars, vars
<1>5. CASE g.pc = "serving"
  <2>1. \A f \in Endpoints :
           ServedBy(agent', f) = IF f = e THEN g.key ELSE ServedBy(agent, f)
    BY <1>1, <1>3, <1>5
  <2>2. listening' = [listening EXCEPT ![e] = g.key]
    BY <1>2, <2>1, OneListens
  <2>3. g.key # NoKey => AtHome(rows, generated, e, g.key)
    <3>1. g.key # NoKey => AtHome(rows', generated', g.endpoint, g.key)
      BY <1>1 DEF RegistrationInv, AgentKeysAtHome, AtHome
    <3> QED
      BY <1>1, <1>5, <3>1 DEF vars
  <2>4. AgentRestarts(e)
    BY <1>1, <2>2, <2>3 DEF AgentRestarts, AtHome, FindByKeyHash
  <2> QED
    BY <1>1, <2>4 DEF ProbeNext
<1>6. CASE g.pc # "serving" /\ old.pc = "serving"
  <2>1. \A f \in Endpoints :
           ServedBy(agent', f) = IF f = e THEN NoKey ELSE ServedBy(agent, f)
    BY <1>3, <1>6
  <2>2. listening' = [listening EXCEPT ![e] = NoKey]
    BY <1>2, <2>1, OneListens
  <2>3. AgentRestarts(e)
    BY <1>1, <2>2 DEF AgentRestarts
  <2> QED
    BY <1>1, <2>3 DEF ProbeNext
<1> QED
  BY <1>4, <1>5, <1>6

\* No key is claimed anew by what an agent does.
LEMMA AgentMovesClaim ==
    ASSUME RegistrationInv, KeysApart, ClaimsDrawn, UNCHANGED probe,
           NEW a \in Agents, NEW g, AgentMoves(a, g)
    PROVE  KeysApart' /\ ClaimsDrawn'
<1>1. agent' = [agent EXCEPT ![a] = g] /\ agent \in [Agents -> Agent]
      /\ UNCHANGED vars
  BY DEF RegistrationInv, AgentsSound, AgentMoves
<1>2. ASSUME NEW e \in Endpoints, NEW k \in Keys, Claims(e, k)'
      PROVE  Claims(e, k)
  <2>1. CASE Opens(rows', e, k)
    BY <1>1, <2>1 DEF Claims, vars
  <2>2. ASSUME NEW b \in Agents, agent'[b].endpoint = e,
               k \in {agent'[b].key, agent'[b].override}
        PROVE  Claims(e, k)
    <3>1. CASE b = a
      BY <1>1, <2>2, <3>1 DEF AgentMoves, Claims, Held
    <3>2. CASE b # a
      BY <1>1, <2>2, <3>2 DEF Claims, Held
    <3> QED
      BY <3>1, <3>2
  <2>3. ASSUME NEW c \in DOMAIN call', call'[c].endpoint = e, call'[c].node_key = k
        PROVE  Claims(e, k)
    BY <2>3 DEF AgentMoves, Claims, Carried
  <2>4. CASE Sent(e, k)'
    BY <2>4 DEF Claims, Sent
  <2> QED
    BY <1>2, <2>1, <2>2, <2>3, <2>4 DEF Claims, Held, Carried, Opens
<1> QED
  BY <1>1, <1>2, NoMoreClaims DEF vars


-----------------------------------------------------------------------------
(* What a step of the table opens.                                         *)

\* A step that keeps the credentials opens nothing anew.
LEMMA KeptCredentialsOpen ==
    ASSUME KeepsCredentials, NEW e, NEW k, Opens(rows', e, k)
    PROVE  Opens(rows, e, k)
  BY DEF KeepsCredentials, SameCredential, Opens

\* A registration opens one endpoint with one key: with the one that opens it
\* already, or with one that was never drawn.
LEMMA RegistrationOpens ==
    ASSUME IInv, NEW e \in Endpoints, NEW existing \in Keys \cup {NoKey},
           RegisterOrReuse(e, existing, DrawnKey)
    PROVE  LET g == GrantedKey(e, existing, DrawnKey) IN
           /\ g \in Keys
           /\ g \notin generated \/ Opens(rows, e, g)
           /\ g \in generated' /\ generated \subseteq generated'
           /\ \A f \in Endpoints, k \in Keys : Opens(rows', f, k) =>
                 Opens(rows, f, k) \/ (f = e /\ k = g)
<1> DEFINE g == GrantedKey(e, existing, DrawnKey)
<1>1. CASE Reuse(e, existing)
  <2>1. g = existing /\ existing \in Keys
    BY <1>1 DEF Reuse, Reuses, GrantedKey
  <2>2. Opens(rows, e, existing)
    BY <1>1 DEF Reuse, Reuses, FindByKeyHash, FindByAddressPort, Opens
  <2>3. existing \in generated
    BY <2>2 DEF Opens, IInv, CredentialsDrawn, HashNodeKey
  <2>4. KeepsCredentials
    BY <1>1, ReuseStep DEF IInv, RegisterOrReuse
  <2> HIDE DEF g
  <2>5. generated' = generated
    BY <2>4 DEF KeepsCredentials
  <2>6. \A f, k : Opens(rows', f, k) => Opens(rows, f, k)
    BY <2>4, KeptCredentialsOpen
  <2>7. /\ g \in Keys /\ Opens(rows, e, g)
        /\ g \in generated' /\ generated \subseteq generated'
        /\ \A f \in Endpoints, k \in Keys : Opens(rows', f, k) =>
              Opens(rows, f, k) \/ (f = e /\ k = g)
    BY <2>1, <2>2, <2>3, <2>5, <2>6
  <2> QED
    BY <2>7 DEF g
<1>2. CASE /\ ~Reuses(e, existing) /\ DrawnKey \in Keys \ generated
           /\ generated' = generated \cup {DrawnKey}
           /\ Insert(e, DrawnKey) \/ Rotate(e, DrawnKey)
  <2> DEFINE new == DrawnKey
  <2>1. /\ g = new /\ new \in Keys \ generated
        /\ generated' = generated \cup {new}
        /\ Insert(e, new) \/ Rotate(e, new)
    BY <1>2 DEF GrantedKey
  <2> HIDE DEF new
  <2>2. \A id \in DOMAIN rows' :
           \/ id \in DOMAIN rows /\ rows'[id] = rows[id]
           \/ rows'[id].endpoint = e /\ rows'[id].node_key_hash = HashNodeKey(new)
    <3>1. CASE Insert(e, new)
      BY <3>1 DEF Insert, NewRow
    <3>2. CASE Rotate(e, new)
      <4>1. \A row \in Row : /\ Rekeyed(row, new).node_key_hash = HashNodeKey(new)
                             /\ Rekeyed(row, new).endpoint = row.endpoint
        BY DEF Rekeyed, Row
      <4>2. \A id \in DOMAIN rows : rows[id] \in Row
        BY DEF IInv, TypeOK
      <4> QED
        BY <3>2, <4>1, <4>2 DEF Rotate, FindByAddressPort
    <3> QED
      BY <2>1, <3>1, <3>2
  <2>3. \A f \in Endpoints, k \in Keys : Opens(rows', f, k) =>
           Opens(rows, f, k) \/ (f = e /\ k = new)
    BY <2>2 DEF Opens, HashNodeKey
  <2> QED
    BY <2>1, <2>3
<1> QED
  BY <1>1, <1>2 DEF RegisterOrReuse

\* What a registration grants is the one key claimed anew, wherever the grant
\* goes.
LEMMA RegistrationClaims ==
    ASSUME IInv, KeysApart, ClaimsDrawn, UNCHANGED probe,
           NEW e \in Endpoints, NEW existing \in Keys \cup {NoKey},
           RegisterOrReuse(e, existing, DrawnKey),
           \A f \in Endpoints, k \in Keys : (Held(f, k) \/ Carried(f, k))' =>
              \/ Held(f, k) \/ Carried(f, k)
              \/ f = e /\ k = GrantedKey(e, existing, DrawnKey)
    PROVE  KeysApart' /\ ClaimsDrawn'
<1> DEFINE g == GrantedKey(e, existing, DrawnKey)
<1>1. /\ g \in Keys
      /\ g \notin generated \/ Opens(rows, e, g)
      /\ g \in generated' /\ generated \subseteq generated'
      /\ \A f \in Endpoints, k \in Keys : Opens(rows', f, k) =>
            Opens(rows, f, k) \/ (f = e /\ k = g)
  BY RegistrationOpens
<1>2. \A f \in Endpoints, k \in Keys : (Held(f, k) \/ Carried(f, k))' =>
         Held(f, k) \/ Carried(f, k) \/ (f = e /\ k = g)
  OBVIOUS
<1> HIDE DEF g
<1>3. \A f \in Endpoints, k \in Keys : Claims(f, k)' => Claims(f, k) \/ (f = e /\ k = g)
  BY <1>1, <1>2 DEF Claims, Sent, Opens
<1>4. g \notin generated \/ Claims(e, g)
  BY <1>1 DEF Claims
<1> QED
  BY <1>1, <1>3, <1>4, OneMoreClaim

\* A step of the table that keeps the credentials, and hands out no key.
LEMMA KeptCredentialsClaim ==
    ASSUME KeysApart, ClaimsDrawn, KeepsCredentials, UNCHANGED <<agent, call>>,
           \A e \in Endpoints, k \in Keys : Sent(e, k)' => Sent(e, k) \/ Opens(rows, e, k)
    PROVE  KeysApart' /\ ClaimsDrawn'
<1>1. \A e \in Endpoints, k \in Keys : Claims(e, k)' => Claims(e, k)
  BY KeptCredentialsOpen DEF Claims, Held, Carried, Opens
<1>2. generated \subseteq generated'
  BY DEF KeepsCredentials
<1> QED
  BY <1>1, <1>2, NoMoreClaims


-----------------------------------------------------------------------------
(* The steps of the fleet.                                                 *)

\* The handlers of the centre other than health checks and tests register
\* nodes, and delete and switch rows.
LEMMA RegistrationManages ==
    ASSUME NEW e \in Endpoints, NEW existing \in Keys \cup {NoKey},
           RegisterOrReuse(e, existing, DrawnKey), UNCHANGED probeVars
    PROVE  ProbeNext
<1>1. Register(TRUE, e, existing, DrawnKey)
  BY DEF Register
<1>2. Manage
  BY <1>1 DEF Manage
<1> QED
  BY <1>2 DEF ProbeNext

\* Who listens does not change when no agent takes part.
LEMMA ServedStays ==
    ASSUME UNCHANGED agent
    PROVE  Served' = Served
  BY DEF Served, ServingAt

\* A reply adds the key it carries to the calls, if anything.
LEMMA ReplyClaims ==
    ASSUME RegistrationInv, NEW c \in DOMAIN call, NEW state, NEW key,
           Reply(c, state, key), NEW f, NEW k, Carried(f, k)'
    PROVE  Carried(f, k) \/ (f = call[c].endpoint /\ k = key)
<1>1. PICK d \in DOMAIN call' : call'[d].endpoint = f /\ call'[d].node_key = k
  BY DEF Carried
<1>2. CASE Awaited(c)
  <2> DEFINE new == [call[c] EXCEPT !.state = state, !.node_key = key]
  <2>1. call' = [call EXCEPT ![c] = new] /\ call[c] \in Call
        /\ call = [x \in DOMAIN call |-> call[x]]
    BY <1>2 DEF Reply, RegistrationInv, CallsTyped
  <2>2. new.endpoint = call[c].endpoint /\ new.node_key = key
    BY <2>1 DEF Call
  <2> HIDE DEF new
  <2>3. d = c => f = call[c].endpoint /\ k = key
    BY <1>1, <2>1, <2>2
  <2>4. d # c => d \in DOMAIN call /\ call'[d] = call[d]
    BY <1>1, <2>1
  <2> QED
    BY <1>1, <2>3, <2>4 DEF Carried
<1>3. CASE ~Awaited(c)
  BY <1>1, <1>3 DEF Reply, Without, Carried
<1> QED
  BY <1>2, <1>3

\* A registration call is carried out, or refused.
LEMMA CallerSteps ==
    ASSUME FleetInv, NEW c \in Calls, Answer(c) \/ Refuse(c),
           listening' = Served', UNCHANGED probe
    PROVE  [ProbeNext]_centreVars /\ KeysApart' /\ ClaimsDrawn'
<1> DEFINE e == call[c].endpoint
           existing == call[c].existing
           g == GrantedKey(e, existing, DrawnKey)
<1>1. /\ c \in DOMAIN call /\ UNCHANGED <<agent, probeVars>>
      /\ e \in Endpoints /\ existing \in Keys \cup {NoKey}
      /\ RegistrationInv /\ IInv
  <2>1. RegistrationInv /\ IInv /\ listening = Served
    BY DEF FleetInv, RegistrationInv
  <2>2. c \in DOMAIN call /\ UNCHANGED agent
    BY DEF Answer, Refuse
  <2> QED
    BY <2>1, <2>2, ServedStays DEF RegistrationInv, CallsTyped, Call, probeVars
<1>2. CASE /\ RegisterOrReuse(e, existing, DrawnKey)
           /\ Reply(c, "answered", g) \/ Reply(c, "refused", NoKey)
  <2>1. ProbeNext
    BY <1>1, <1>2, RegistrationManages
  <2> HIDE DEF e, existing
  <2>2. \A f \in Endpoints, k \in Keys : Carried(f, k)' =>
           Carried(f, k) \/ (f = e /\ k = g)
    <3> HIDE DEF g
    <3> QED
      BY <1>1, <1>2, ReplyClaims DEF e
  <2>3. \A f, k : Held(f, k)' => Held(f, k)
    BY <1>1 DEF Held
  <2>4. KeysApart' /\ ClaimsDrawn'
    BY <1>1, <1>2, <2>2, <2>3, RegistrationClaims DEF FleetInv, probeVars
  <2> QED
    BY <2>1, <2>4
<1>3. CASE UNCHANGED vars /\ Reply(c, "refused", NoKey)
  <2>1. \A f \in Endpoints, k \in Keys : Claims(f, k)' => Claims(f, k)
    <3>1. \A f \in Endpoints, k \in Keys : Carried(f, k)' => Carried(f, k)
      BY <1>1, <1>3, ReplyClaims
    <3> QED
      BY <1>1, <1>3, <3>1 DEF Claims, Held, Sent, Opens, vars, probeVars
  <2>2. KeysApart' /\ ClaimsDrawn'
    BY <1>3, <2>1, NoMoreClaims DEF FleetInv, vars
  <2> QED
    BY <1>1, <1>3, <2>2 DEF centreVars
<1>4. RegisterCaller(c) => RegisterOrReuse(e, existing, DrawnKey)
  BY DEF RegisterCaller, Register
<1> QED
  BY <1>2, <1>3, <1>4 DEF Answer, Refuse, Granted

\* A registration by hand.
LEMMA ManualRegisterSteps ==
    ASSUME FleetInv, NEW e \in Endpoints, ManualRegister(e),
           listening' = Served', UNCHANGED probe
    PROVE  [ProbeNext]_centreVars /\ KeysApart' /\ ClaimsDrawn'
<1>1. /\ RegistrationInv /\ IInv /\ listening = Served
      /\ agent \in [Agents -> Agent] /\ OwnEndpoints
  BY DEF FleetInv, RegistrationInv, AgentsSound
<1>2. /\ RegisterOrReuse(e, NoKey, DrawnKey)
      /\ GrantedKey(e, NoKey, DrawnKey) = DrawnKey
      /\ UNCHANGED call
      /\ \/ UNCHANGED agent
         \/ \E a \in Agents :
               /\ agent[a].pc = "down" /\ agent[a].endpoint = e
               /\ agent' = [agent EXCEPT ![a].override = DrawnKey]
  BY DEF ManualRegister, Register, GrantedKey, Reuses
<1>3. UNCHANGED listening /\ \A f, k : Held(f, k)' =>
                                Held(f, k) \/ (f = e /\ k = DrawnKey)
  <2> HIDE DEF DrawnKey
  <2>1. CASE UNCHANGED agent
    BY <1>1, <2>1, ServedStays DEF Held
  <2>2. ASSUME NEW a \in Agents, agent[a].pc = "down", agent[a].endpoint = e,
               agent' = [agent EXCEPT ![a].override = DrawnKey]
        PROVE  UNCHANGED listening /\ \A f, k : Held(f, k)' =>
                                         Held(f, k) \/ (f = e /\ k = DrawnKey)
    <3> DEFINE g == [agent[a] EXCEPT !.override = DrawnKey]
    <3>1. agent' = [agent EXCEPT ![a] = g]
      BY <1>1, <2>2
    <3>2. /\ g.pc = "down" /\ g.endpoint = e /\ g.key = agent[a].key
          /\ g.override = DrawnKey
      BY <1>1, <2>2 DEF Agent
    <3> HIDE DEF g
    <3>3. agent'[a] = g /\ \A b \in Agents \ {a} : agent'[b] = agent[b]
      BY <1>1, <3>1
    <3>4. OwnEndpoints'
      BY <1>1, <2>2, <3>2, <3>3 DEF OwnEndpoints
    <3>5. \A f \in Endpoints : ServedBy(agent', f) = ServedBy(agent, f)
      BY <1>1, <2>2, <3>1, <3>2, <3>4, ServedAfter
    <3>6. UNCHANGED listening
      BY <1>1, <3>5, ServedPointwise
    <3>7. ASSUME NEW f, NEW k, Held(f, k)'
          PROVE  Held(f, k) \/ (f = e /\ k = DrawnKey)
      <4>1. PICK b \in Agents : /\ agent'[b].endpoint = f
                                /\ k \in {agent'[b].key, agent'[b].override}
        BY <3>7 DEF Held
      <4> QED
        BY <2>2, <3>2, <3>3, <4>1 DEF Held
    <3> QED
      BY <3>6, <3>7
  <2> QED
    BY <1>2, <2>1, <2>2
<1>4. ProbeNext
  BY <1>2, <1>3, RegistrationManages DEF probeVars
<1>5. \A f, k : Carried(f, k)' => Carried(f, k)
  BY <1>2 DEF Carried
<1>6. KeysApart' /\ ClaimsDrawn'
  BY <1>1, <1>2, <1>3, <1>5, RegistrationClaims DEF FleetInv
<1> QED
  BY <1>4, <1>6

\* A row is deleted.
LEMMA DeleteNodeSteps ==
    ASSUME FleetInv, NEW id \in 1..MaxId, DeleteNode(id),
           listening' = Served', UNCHANGED probe
    PROVE  [ProbeNext]_centreVars /\ KeysApart' /\ ClaimsDrawn'
<1>1. /\ id \in DOMAIN rows /\ Delete(id) /\ UNCHANGED <<agent, call, probeVars>>
      /\ TypeOK
  BY ServedStays DEF DeleteNode, Delete, FleetInv, RegistrationInv, IInv, probeVars
<1>2. KeepsCredentials
  BY <1>1, DeleteStep
<1>3. Manage
  BY <1>1 DEF Manage
<1>4. KeysApart' /\ ClaimsDrawn'
  BY <1>1, <1>2, KeptCredentialsClaim DEF FleetInv, Sent, probeVars
<1> QED
  BY <1>3, <1>4 DEF ProbeNext


\* What a handler sends after a step was sent before, or is the key of the row
\* it has just read.
LEMMA HandlersSend ==
    ASSUME ProbeInv, NEW p \in Probes, ProbeStep(p),
           NEW e, NEW k, Sent(e, k)'
    PROVE  Sent(e, k) \/ Opens(rows, e, k)
<1>1. PICK q \in DOMAIN probe' : probe'[q].endpoint = e /\ probe'[q].nodeKey = k
  BY DEF Sent
<1>2. ASSUME NEW kind \in Kinds, NEW id \in 1..MaxId,
             NEW supplied \in Keys \cup {NoKey}, Begin(p, kind, id, supplied)
      PROVE  Sent(e, k) \/ Opens(rows, e, k)
  <2>1. PICK new \in Keys :
           /\ ResolvesTo(rows[id], supplied, new)
           /\ probe' = [r \in DOMAIN probe \cup {p} |->
                 IF r # p THEN probe[r]
                 ELSE [kind |-> kind, id |-> id,
                       endpoint |-> rows[id].endpoint,
                       hash |-> rows[id].node_key_hash,
                       nodeKey |-> new, left |-> Requests(kind),
                       result |-> "pending"]]
    BY <1>2 DEF Begin
  <2>2. id \in DOMAIN rows /\ rows[id].node_key_hash = HashNodeKey(new)
    BY <1>2, <2>1, ResolvesToCurrent DEF Begin, ProbeInv, ResolvedKeyIsCurrent
  <2>3. CASE q = p
    BY <1>1, <2>1, <2>2, <2>3 DEF Opens
  <2>4. CASE q # p
    BY <1>1, <2>1, <2>4 DEF Sent
  <2> QED
    BY <2>3, <2>4
<1>3. CASE Contact(p)
  <2>1. /\ DOMAIN probe' = DOMAIN probe /\ p \in DOMAIN probe
        /\ \A r \in DOMAIN probe \ {p} : probe'[r] = probe[r]
    BY <1>3, ContactStep DEF Contact
  <2>2. probe'[p].endpoint = probe[p].endpoint /\ probe'[p].nodeKey = probe[p].nodeKey
    BY <1>3, <2>1 DEF Contact, ProbeInv, ProbeTypeOK, Probe
  <2> QED
    BY <1>1, <2>1, <2>2 DEF Sent
<1>4. CASE Relay(p) \/ Record(p)
  BY <1>1, <1>4 DEF Relay, Record, WithoutHandler, Sent
<1> QED
  BY <1>2, <1>3, <1>4 DEF ProbeStep

\* A step of the centre alone leaves the agents' side of the invariant intact.
LEMMA AgentsApart ==
    ASSUME RegistrationInv, [Next]_vars, UNCHANGED agentVars
    PROVE  RegistrationInv'
<1>1. UNCHANGED <<agent, ini, call, disruptions>>
  BY DEF agentVars
<1>2. CallsTyped' /\ CallKeysAtHome'
  <2>1. call' = [c \in DOMAIN call' |-> call[c]] /\ DOMAIN call' = DOMAIN call
    BY <1>1 DEF RegistrationInv, CallsTyped
  <2> QED
    BY <2>1, FewerCalls
<1>3. \A a \in Agents : agent[a].awaits # NoCall =>
         /\ agent[a].awaits \in DOMAIN call'
         /\ call'[agent[a].awaits].endpoint = call[agent[a].awaits].endpoint
  BY <1>1 DEF RegistrationInv, AwaitedInFlight
<1> QED
  BY <1>1, <1>2, <1>3, NoAgent DEF RegistrationInv

\* Agents, registration handlers and the operator keep the invariant, and the
\* centre sees no more of them than HealthProbe says.
LEMMA RegisteringSteps ==
    ASSUME FleetInv, Registering
    PROVE  [ProbeNext]_centreVars /\ FleetInv'
<1>1. /\ RegistrationInv /\ ProbeInv /\ listening = Served
      /\ KeysApart /\ ClaimsDrawn
      /\ RegistrationNext /\ listening' = Served' /\ UNCHANGED probe
  BY DEF FleetInv, Registering
<1>2. RegistrationInv'
  BY <1>1, RegistrationInvIsInductive
<1>3. ASSUME NEW a \in Agents,
             AgentStep(a) \/ Crash(a) \/ \E e \in Endpoints : Reconfigure(a, e)
      PROVE  [ProbeNext]_centreVars /\ KeysApart' /\ ClaimsDrawn'
  <2>1. PICK g : AgentMoves(a, g)
    BY <1>1, <1>3, AgentsMove
  <2> QED
    BY <1>1, <1>2, <2>1, AgentMovesListen, AgentMovesClaim
<1>4. [ProbeNext]_centreVars /\ KeysApart' /\ ClaimsDrawn'
  BY <1>1, <1>3, CallerSteps, ManualRegisterSteps, DeleteNodeSteps
  DEF RegistrationNext, Operator
<1>5. ProbeInv'
  BY <1>1, <1>4, ProbeInvIsInductive
<1> QED
  BY <1>1, <1>2, <1>4, <1>5 DEF FleetInv

\* So do the handlers,
LEMMA ProbingSteps ==
    ASSUME FleetInv, Probing
    PROVE  [ProbeNext]_centreVars /\ FleetInv'
<1>1. PICK p \in Probes : ProbeStep(p)
  BY DEF Probing
<1>2. /\ RegistrationInv /\ ProbeInv /\ listening = Served /\ TypeOK
      /\ UNCHANGED agentVars /\ UNCHANGED <<agent, call>>
  BY DEF Probing, FleetInv, ProbeInv, IInv, agentVars
<1>3. ProbeNext
  BY <1>1 DEF ProbeNext
<1>4. ProbeInv' /\ RegistrationInv'
  BY <1>2, <1>3, ProbeInvIsInductive, TableSteps, AgentsApart
<1>5. KeepsCredentials /\ UNCHANGED listening
  <2>1. CASE Record(p)
    <3>1. (probe[p].result = "online") \in BOOLEAN
      OBVIOUS
    <3> QED
      BY <1>2, <2>1, <3>1, UpdateHealthResultStep DEF Record
  <2>2. CASE ~Record(p)
    BY <1>1, <2>2
    DEF ProbeStep, Begin, Contact, Relay, vars, KeepsCredentials, SameCredential
  <2> QED
    BY <2>1, <2>2
<1>6. \A e \in Endpoints, k \in Keys : Sent(e, k)' => Sent(e, k) \/ Opens(rows, e, k)
  BY <1>1, <1>2, HandlersSend
<1>7. KeysApart' /\ ClaimsDrawn'
  BY <1>2, <1>5, <1>6, KeptCredentialsClaim DEF FleetInv
<1>8. listening' = Served'
  BY <1>2, <1>5, ServedStays
<1> QED
  BY <1>3, <1>4, <1>7, <1>8 DEF FleetInv

\* the switch,
LEMMA SwitchingSteps ==
    ASSUME FleetInv, Switching
    PROVE  [ProbeNext]_centreVars /\ FleetInv'
<1>1. PICK id \in 1..MaxId, enabled \in BOOLEAN : SetEnabled(id, enabled)
  BY DEF Switching
<1>2. /\ RegistrationInv /\ ProbeInv /\ listening = Served /\ TypeOK
      /\ UNCHANGED agentVars /\ UNCHANGED probeVars
      /\ UNCHANGED <<agent, call, probe, listening>>
  BY DEF Switching, FleetInv, ProbeInv, IInv, agentVars, probeVars
<1>3. ProbeNext
  BY <1>1, <1>2 DEF SetEnabled, Manage, ProbeNext
<1>4. ProbeInv' /\ RegistrationInv'
  BY <1>2, <1>3, ProbeInvIsInductive, TableSteps, AgentsApart
<1>5. KeepsCredentials
  BY <1>1, <1>2, SetEnabledStep
<1>6. KeysApart' /\ ClaimsDrawn'
  BY <1>2, <1>5, KeptCredentialsClaim DEF FleetInv, Sent
<1>7. listening' = Served'
  BY <1>2, ServedStays
<1> QED
  BY <1>3, <1>4, <1>6, <1>7 DEF FleetInv

\* and a restart of the centre.
LEMMA RestartingCentreSteps ==
    ASSUME FleetInv, RestartingCentre
    PROVE  [ProbeNext]_centreVars /\ FleetInv'
<1>1. PICK new \in Settings : RestartCentre(new)
  BY DEF RestartingCentre
<1>2. /\ RegistrationInv /\ ProbeInv /\ listening = Served /\ TypeOK
      /\ UNCHANGED agentVars /\ UNCHANGED <<agent, call>>
      /\ probe' = [p \in {} |-> {}] /\ UNCHANGED listening
  BY <1>1 DEF RestartingCentre, RestartCentre, FleetInv, ProbeInv, IInv, agentVars
<1>3. ProbeNext
  BY <1>1 DEF ProbeNext
<1>4. ProbeInv' /\ RegistrationInv'
  BY <1>2, <1>3, ProbeInvIsInductive, TableSteps, AgentsApart
<1>5. KeepsCredentials
  BY <1>1, <1>2, RestartStep DEF RestartCentre
<1>6. \A e \in Endpoints, k \in Keys : ~Sent(e, k)'
  BY <1>2 DEF Sent
<1>7. KeysApart' /\ ClaimsDrawn'
  BY <1>2, <1>5, <1>6, KeptCredentialsClaim DEF FleetInv
<1>8. listening' = Served'
  BY <1>2, ServedStays
<1> QED
  BY <1>3, <1>4, <1>7, <1>8 DEF FleetInv

\* Nothing happens.
LEMMA StandingStill ==
    ASSUME FleetInv, UNCHANGED fleetVars
    PROVE  [ProbeNext]_centreVars /\ FleetInv'
<1>1. /\ UNCHANGED <<vars, agentVars, probeVars, systemVars, centreVars>>
      /\ UNCHANGED <<rows, generated, agent, call, probe, listening>>
  BY DEF fleetVars, vars, agentVars, probeVars, systemVars, centreVars
<1>2. ProbeInv' /\ RegistrationInv'
  BY <1>1, ProbeInvIsInductive, AgentsApart DEF FleetInv
<1>3. KeysApart' /\ ClaimsDrawn'
  BY <1>1 DEF FleetInv, KeysApart, ClaimsDrawn, Claims, Opens, Held, Carried, Sent
<1> QED
  BY <1>1, <1>2, <1>3, ServedStays DEF FleetInv


-----------------------------------------------------------------------------
(* Theorems about the fleet.                                               *)

\* Agents that are down, an empty table and no handlers satisfy the invariant.
LEMMA FleetInvHoldsAtStart ==
    ASSUME FleetInit
    PROVE  FleetInv
<1>1. RegistrationInv /\ ProbeInv
  BY RegistrationInvHoldsAtStart, ProbeInvHoldsAtStart DEF FleetInit
<1>2. \A a \in Agents : agent[a].pc = "down" /\ agent[a].key = NoKey
                        /\ agent[a].override = NoKey
  BY DEF FleetInit, RegistrationInit
<1>3. /\ DOMAIN rows = {} /\ DOMAIN call = {} /\ DOMAIN probe = {}
      /\ listening = [e \in Endpoints |-> NoKey]
  BY DEF FleetInit, RegistrationInit, ProbeInit, Init
<1>4. \A e \in Endpoints : ServingAt(e) = {}
  BY <1>2 DEF ServingAt
<1>5. listening = Served
  BY <1>3, <1>4 DEF Served
<1>6. \A e \in Endpoints, k \in Keys : ~Claims(e, k)
  BY <1>2, <1>3 DEF Claims, Opens, Held, Carried, Sent
<1> QED
  BY <1>1, <1>5, <1>6 DEF FleetInv, KeysApart, ClaimsDrawn

\* Every step keeps it, and is for the handlers a step of HealthProbe or none.
LEMMA FleetSteps ==
    ASSUME FleetInv, [FleetNext]_fleetVars
    PROVE  [ProbeNext]_centreVars /\ FleetInv'
  BY RegisteringSteps, ProbingSteps, SwitchingSteps, RestartingCentreSteps,
     StandingStill DEF FleetNext

\* The invariant holds over every interleaving of any number of agents,
\* registrations, handlers, switches and restarts of the centre.
THEOREM FleetInvariantHolds == FleetSpec => []FleetInv
  BY FleetInvHoldsAtStart, FleetSteps, PTL DEF FleetSpec

\* All parts keep their types, and an endpoint listens with the key of the
\* agent that serves there.
THEOREM FleetTypeCorrect == FleetSpec => []FleetTypeOK
<1>1. FleetInv => FleetTypeOK
  BY RegistrationInvTypes DEF FleetInv, FleetTypeOK, ProbeInv
<1> QED
  BY <1>1, FleetInvariantHolds, PTL

\* The current key of an agent in sync opens it: what listens at its endpoint
\* is that agent, with the key of the one row of the endpoint.
LEMMA SyncedAgentsOpen ==
    ASSUME FleetInv
    PROVE  SyncedNodesLetIn
<1> SUFFICES ASSUME NEW a \in Agents, NEW p \in DOMAIN probe, InSync(a),
                    probe[p].endpoint = agent[a].endpoint,
                    NEW id \in FindByAddressPort(agent[a].endpoint),
                    rows[id].node_key_hash = probe[p].hash
             PROVE  Authenticates(probe[p].endpoint, probe[p].nodeKey)
  BY DEF SyncedNodesLetIn
<1> DEFINE e == agent[a].endpoint
<1>1. /\ RegistrationInv /\ ProbeInv /\ IInv /\ listening = Served
      /\ OwnEndpoints /\ e \in Endpoints
  BY OwnFacts DEF FleetInv, RegistrationInv, Agent
<1>2. PICK i \in FindByAddressPort(e) :
         rows[i].node_key_hash = HashNodeKey(agent[a].key)
  BY DEF InSync, Accepted
<1>3. i = id
  BY <1>1, <1>2 DEF FindByAddressPort, IInv, RegistryConsistent
<1>4. HashNodeKey(probe[p].nodeKey) = HashNodeKey(agent[a].key)
  BY <1>1, <1>2, <1>3 DEF ProbeInv, ProbeIsAboutItsRow
<1>5. probe[p].nodeKey = agent[a].key
  BY <1>4 DEF HashNodeKey
<1>6. ServedBy(agent, e) = agent[a].key
  BY <1>1, ServedByOne DEF OwnEndpoints, InSync
<1>7. listening[e] = agent[a].key
  BY <1>1, <1>6, ServedPointwise
<1> QED
  BY <1>5, <1>7 DEF Authenticates

\* A key that opens one agent is sent to no other endpoint.
LEMMA OtherAgentsStayShut ==
    ASSUME FleetInv
    PROVE  OthersStayShut
<1> SUFFICES ASSUME NEW a \in Agents, NEW p \in DOMAIN probe,
                    agent[a].key # NoKey, agent[a].key = probe[p].nodeKey
             PROVE  probe[p].endpoint = agent[a].endpoint
  BY DEF OthersStayShut
<1>1. /\ agent[a].endpoint \in Endpoints /\ agent[a].key \in Keys
      /\ probe[p].endpoint \in Endpoints
  BY OwnFacts DEF FleetInv, Agent, ProbeInv, ProbeTypeOK, Probe
<1>2. Held(agent[a].endpoint, agent[a].key) /\ Sent(probe[p].endpoint, agent[a].key)
  BY DEF Held, Sent
<1> QED
  BY <1>1, <1>2 DEF FleetInv, KeysApart, Claims

\* A check, a test or a proxied request opens the node it was meant for, and
\* no other.
THEOREM RequestsFit == FleetSpec => []RequestsFitTheirNode
<1>1. FleetInv => RequestsFitTheirNode
  BY SyncedAgentsOpen, OtherAgentsStayShut DEF RequestsFitTheirNode
<1> QED
  BY <1>1, FleetInvariantHolds, PTL

\* To the handlers, the agents of AgentRegistration are the ones HealthProbe
\* assumes: what it promises, it promises with them.
THEOREM FleetRefinesHealthProbe == FleetSpec => ProbeSpec
<1>1. FleetInit => ProbeInit
  BY DEF FleetInit
<1> QED
  BY <1>1, FleetSteps, FleetInvariantHolds, PTL DEF FleetSpec, ProbeSpec

\* Their results stay with the registration they measured, over the real agents.
THEOREM FleetKeepsHandlersApart ==
    FleetSpec => /\ []ProbeIsAboutItsRow
                 /\ []HealthColumnsCoherent
                 /\ ResultStaysWithRegistration
  BY FleetRefinesHealthProbe, ProbesStayWithTheirRow, HealthColumnsAgree,
     ResultsStayWithRegistration

\* The table under the whole fleet is that of NodeStore,
THEOREM FleetRefinesNodeStore == FleetSpec => Spec
  BY FleetRefinesHealthProbe, ProbesRefineNodeStore

\* keys change only by drawing fresh ones,
THEOREM FleetKeepsLeases == FleetSpec => LeaseSpec
  BY FleetRefinesNodeStore, ImplementsKeyLease

\* and no key that was rotated or deleted away opens a row again.
THEOREM FleetRetiresKeysForGood == FleetSpec => RetiredForever
  BY FleetRefinesNodeStore, RetiredKeysStayRetired

\* No agent of the fleet holds another's credential.
THEOREM FleetCredentialsStayHome == FleetSpec => []CredentialStaysHome
<1>1. FleetInv => CredentialStaysHome
  BY RegistrationInvHome DEF FleetInv
<1> QED
  BY <1>1, FleetInvariantHolds, PTL

\* A step of the table that keeps the rows and their credentials keeps an
\* endpoint open to its key.
LEMMA KeptRowsStayOpen ==
    ASSUME KeepsCredentials, DOMAIN rows' = DOMAIN rows,
           NEW e, NEW k, Opens(rows, e, k)
    PROVE  Opens(rows', e, k)
  BY DEF KeepsCredentials, SameCredential, Opens

\* Handlers, the switch and a restart of the centre delete no row and rotate no
\* key.
LEMMA CentreKeepsRows ==
    ASSUME IInv, ProbeInv, Probing \/ Switching \/ RestartingCentre
    PROVE  KeepsCredentials /\ DOMAIN rows' = DOMAIN rows
<1>1. TypeOK
  BY DEF IInv
<1>2. ASSUME NEW p \in Probes, ProbeStep(p)
      PROVE  KeepsCredentials /\ DOMAIN rows' = DOMAIN rows
  <2>1. CASE Record(p)
    <3>1. (probe[p].result = "online") \in BOOLEAN
      OBVIOUS
    <3> QED
      BY <1>1, <2>1, <3>1, UpdateHealthResultStep DEF Record, UpdateHealthResult
  <2>2. CASE ~Record(p)
    BY <1>2, <2>2
    DEF ProbeStep, Begin, Contact, Relay, vars, KeepsCredentials, SameCredential
  <2> QED
    BY <2>1, <2>2
<1>3. ASSUME NEW id, NEW b \in BOOLEAN, SetEnabled(id, b)
      PROVE  KeepsCredentials /\ DOMAIN rows' = DOMAIN rows
  BY <1>1, <1>3, SetEnabledStep DEF SetEnabled
<1>4. ASSUME NEW new \in Settings, RestartCentre(new)
      PROVE  KeepsCredentials /\ DOMAIN rows' = DOMAIN rows
  BY <1>1, <1>4, RestartStep DEF RestartCentre, Restart
<1> QED
  BY <1>2, <1>3, <1>4 DEF Probing, Switching, RestartingCentre

\* Nor do they take part in a registration: what holds of every node.ini goes on.
LEMMA CentreKeepsFiles ==
    ASSUME FleetInv, FileInv, [FleetNext]_fleetVars
    PROVE  FileInv'
<1>1. FleetInv' /\ [ProbeNext]_centreVars
  BY FleetSteps
<1>2. RegistrationInv /\ RegistrationInv' /\ IInv /\ IInv'
  BY <1>1 DEF FleetInv, RegistrationInv
<1>3. CASE Registering
  BY <1>2, <1>3, FileInvIsInductive DEF Registering
<1>4. CASE Probing \/ Switching \/ RestartingCentre
  <2>1. UNCHANGED <<agent, ini, call>>
    BY <1>4 DEF Probing, Switching, RestartingCentre, agentVars
  <2>2. [Next]_vars
    BY <1>1, TableSteps DEF FleetInv
  <2> QED
    BY <1>2, <2>1, <2>2, BystandersKeepFilesSound
<1>5. CASE UNCHANGED fleetVars
  BY <1>2, <1>5, BystandersKeepFilesSound DEF fleetVars, agentVars
<1> QED
  BY <1>3, <1>4, <1>5 DEF FleetNext

\* What may part node.ini and the centre is still the operator or an outdated
\* call: no check, test, switch, restart of the centre or change of its
\* SECRET_KEY does.
THEOREM FleetKeepsAgreements == FleetSpec => AgreementEnds
<1>1. ASSUME FleetInv, FileInv, [FleetNext]_fleetVars
      PROVE  [\A a \in Agents : Agrees(a) /\ ~Agrees(a)' =>
                 \/ Operator
                 \/ \E c \in DOMAIN call :
                       Outdated(c, a) /\ (Answer(c) \/ Refuse(c))]_systemVars
  <2> SUFFICES ASSUME NEW a \in Agents, Agrees(a), ~Agrees(a)', FleetNext
               PROVE  \/ Operator
                      \/ \E c \in DOMAIN call :
                            Outdated(c, a) /\ (Answer(c) \/ Refuse(c))
    BY <1>1 DEF fleetVars, systemVars
  <2>1. CASE Registering
    BY <1>1, <2>1, WhoEndsAnAgreement DEF Registering, FleetInv
  <2>2. CASE Probing \/ Switching \/ RestartingCentre
    <3>1. UNCHANGED <<agent, ini>>
      BY <2>2 DEF Probing, Switching, RestartingCentre, agentVars
    <3>2. Opens(rows, agent[a].endpoint, ini[a]) => Opens(rows', agent[a].endpoint, ini[a])
      BY <1>1, <2>2, CentreKeepsRows, KeptRowsStayOpen
      DEF FleetInv, RegistrationInv
    <3>3. Agrees(a) => Agrees(a)'
      BY <3>1, <3>2 DEF Agrees, Accepted, FindByAddressPort, Opens
    <3> QED
      BY <3>3
  <2> QED
    BY <2>1, <2>2 DEF FleetNext
<1>2. FleetInit => FleetInv /\ FileInv
  BY FleetInvHoldsAtStart, FileInvHoldsAtStart DEF FleetInit
<1>3. FleetInv /\ FileInv /\ [FleetNext]_fleetVars => FleetInv' /\ FileInv'
  BY FleetSteps, CentreKeepsFiles
<1>4. FleetSpec => [](FleetInv /\ FileInv)
  BY <1>2, <1>3, PTL DEF FleetSpec
<1> QED
  BY <1>1, <1>4, PTL DEF FleetSpec, AgreementEnds

=============================================================================
