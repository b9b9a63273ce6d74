-------------------------- MODULE NodeContainerProofs --------------------------
(***************************************************************************)
(* Theorems about NodeContainer, for every set of ports and any number of  *)
(* keys, edits and failures.                                               *)
(***************************************************************************)
EXTENDS NodeContainer, TLAPS

USE PortAssumption, KeyAssumption, UnsetAssumption

\* Keys in files and rows have been drawn: a key drawn later is larger.
KeysAreDrawn ==
    /\ \A f \in Files : ini[f] # NoKey => ini[f] <= drawn
    /\ \A p \in Ports : rows[p] # NoRow => rows[p] <= drawn

\* What a running agent has worked out of the environment it was started with,
\* which does not change under it.
AgentFollowsEnv ==
    Up => /\ ConfigLoads
          /\ agent.listen = ListenPort
          /\ Overridden => agent.key = env.NODE_KEY
          /\ ~Overridden /\ saved => ini[AgentIni] = agent.key
          /\ ~Overridden => /\ rows[AdvertisePort] # NoRow
                            /\ agent.key <= rows[AdvertisePort]

\* The inductive invariant.
ContainerInv ==
    /\ TypeOK
    /\ KeysAreDrawn
    /\ AgentFollowsEnv

\* A configuration that loads gives two ports.
LEMMA LoadedPorts ==
    ASSUME TypeOK, ConfigLoads
    PROVE  ListenPort \in Ports /\ AdvertisePort \in Ports
  BY DEF TypeOK, Env, PortValue, ConfigLoads, ListenPort, AdvertisePort,
         FirstNonEmpty

\* The agent always has a file.
LEMMA IniIsAFile ==
    ASSUME TypeOK
    PROVE  AgentIni \in Files
  BY DEF TypeOK, Env, IniValue, AgentIni, Files

\* Starting with NODE_KEY.
LEMMA BootWithKeyStep ==
    ASSUME ContainerInv, BootWithKey
    PROVE  ContainerInv'
<1>1. UNCHANGED <<env, ini, rows, drawn, edits>>
  BY DEF BootWithKey
<1>2. agent' = Serving(env.NODE_KEY) /\ saved' = TRUE /\ ConfigLoads /\ Overridden
  BY DEF BootWithKey
<1>3. agent' \in [listen : Ports, key : Keys] /\ agent'.listen = ListenPort
      /\ agent'.key = env.NODE_KEY
  BY <1>2, LoadedPorts DEF ContainerInv, Serving, Overridden
<1>4. TypeOK'
  BY <1>1, <1>2, <1>3 DEF ContainerInv, TypeOK
<1>5. KeysAreDrawn'
  BY <1>1 DEF ContainerInv, KeysAreDrawn
<1>6. AgentFollowsEnv'
  BY <1>1, <1>2, <1>3 DEF AgentFollowsEnv, ConfigLoads, ListenPort,
     AdvertisePort, Overridden, Up
<1> QED
  BY <1>4, <1>5, <1>6 DEF ContainerInv

\* Starting with a registration: the key is the one of the file, or a new one
\* that is larger than all before it.
LEMMA BootRegisteringStep ==
    ASSUME ContainerInv, BootRegistering
    PROVE  ContainerInv'
<1> DEFINE existing == ini[AgentIni]
           key == IF Reused(existing) THEN existing ELSE drawn + 1
<1>1. /\ ConfigLoads /\ ~Overridden /\ key \in Keys
      /\ drawn' = IF key = existing THEN drawn ELSE drawn + 1
      /\ rows' = [rows EXCEPT ![AdvertisePort] = key]
      /\ agent' = Serving(key)
      /\ \/ saved' = TRUE /\ ini' = [ini EXCEPT ![AgentIni] = key]
            /\ UNCHANGED edits
         \/ saved' = FALSE /\ Failure /\ UNCHANGED ini
      /\ UNCHANGED env
  BY DEF BootRegistering
<1>2. ListenPort \in Ports /\ AdvertisePort \in Ports /\ AgentIni \in Files
  BY <1>1, LoadedPorts, IniIsAFile DEF ContainerInv
<1>3. /\ drawn \in Nat /\ drawn <= drawn' /\ drawn' \in 0..MaxKey
      /\ key <= drawn'
  <2>1. drawn \in 0..MaxKey /\ existing \in Keys \cup {NoKey}
    BY <1>2 DEF ContainerInv, TypeOK
  <2>2. existing # NoKey => existing <= drawn
    BY <1>2 DEF ContainerInv, KeysAreDrawn
  <2>3. CASE Reused(existing)
    BY <2>1, <2>2, <2>3, <1>1 DEF Reused, Keys
  <2>4. CASE ~Reused(existing)
    <3>1. key = drawn + 1
      BY <2>4
    <3>2. NoKey \notin Nat
      OBVIOUS
    <3>3. existing # drawn + 1
      BY <2>1, <2>2, <3>2 DEF Keys
    <3> QED
      BY <3>1, <3>3, <2>1, <1>1 DEF Keys
  <2> QED
    BY <2>3, <2>4
<1>4. /\ agent' \in [listen : Ports, key : Keys]
      /\ agent'.listen = ListenPort /\ agent'.key = key
  BY <1>1, <1>2 DEF Serving
<1> HIDE DEF key
<1>5. TypeOK'
  <2>1. TypeOK
    BY DEF ContainerInv
  <2>2. ini' \in [Files -> Keys \cup {NoKey}] /\ saved' \in BOOLEAN
    BY <2>1, <1>1, <1>2 DEF TypeOK
  <2>3. rows' \in [Ports -> Keys \cup {NoRow}] /\ env' \in Env
    BY <2>1, <1>1, <1>2 DEF TypeOK
  <2>4. edits' \in 0..MaxEdits
    BY <2>1, <1>1 DEF TypeOK, Failure
  <2> QED
    BY <2>2, <2>3, <2>4, <1>3, <1>4 DEF TypeOK
<1>6. KeysAreDrawn'
  BY <1>1, <1>2, <1>3 DEF ContainerInv, TypeOK, KeysAreDrawn, Keys
<1>7. AgentFollowsEnv'
  <2>1. /\ ConfigLoads' /\ ~Overridden' /\ ListenPort' = ListenPort
        /\ AdvertisePort' = AdvertisePort /\ AgentIni' = AgentIni
    BY <1>1 DEF ConfigLoads, Overridden, ListenPort, AdvertisePort, AgentIni
  <2>2. rows'[AdvertisePort] = key /\ key \in Nat /\ key # NoRow
    BY <1>1, <1>2 DEF ContainerInv, TypeOK, Keys
  <2>3. saved' => ini'[AgentIni] = key
    BY <1>1, <1>2 DEF ContainerInv, TypeOK
  <2> QED
    BY <2>1, <2>2, <2>3, <1>4 DEF AgentFollowsEnv
<1> QED
  BY <1>5, <1>6, <1>7 DEF ContainerInv

\* A container that is created anew has no agent yet, and one file less.
LEMMA RecreateStep ==
    ASSUME ContainerInv, Recreate
    PROVE  ContainerInv'
<1>1. env' \in Env
  <2>1. env \in Env
    BY DEF ContainerInv, TypeOK
  <2>2. CASE \E name \in {"NODE_PORT", "NODE_LISTEN_PORT", "NODE_ADVERTISE_PORT"} :
              \E p \in PortValue : env' = [env EXCEPT ![name] = p]
    BY <2>1, <2>2 DEF Env
  <2>3. CASE \E k \in KeyValue : env' = [env EXCEPT !.NODE_KEY = k]
    BY <2>1, <2>3 DEF Env
  <2>4. CASE \E f \in IniValue : env' = [env EXCEPT !.NODE_INI = f]
    BY <2>1, <2>4 DEF Env
  <2> QED
    BY <2>2, <2>3, <2>4 DEF Recreate
<1>2. /\ agent' = NoRow /\ edits' \in 0..MaxEdits
      /\ ini' = [ini EXCEPT ![LocalIni] = NoKey]
      /\ UNCHANGED <<saved, rows, drawn>>
  BY DEF Recreate, Failure, ContainerInv, TypeOK
<1> QED
  BY <1>1, <1>2 DEF ContainerInv, TypeOK, KeysAreDrawn, AgentFollowsEnv, Up

\* A manual registration draws a key that is larger than the agent's.
LEMMA ManualRegisterStep ==
    ASSUME ContainerInv, NEW p \in Ports, ManualRegister(p)
    PROVE  ContainerInv'
<1>1. /\ drawn \in Nat /\ drawn + 1 \in Keys /\ drawn' = drawn + 1
      /\ rows' = [rows EXCEPT ![p] = drawn + 1]
      /\ edits' \in 0..MaxEdits
      /\ UNCHANGED <<env, ini, agent, saved>>
  BY DEF ManualRegister, Failure, ContainerInv, TypeOK
<1>2. TypeOK'
  BY <1>1 DEF ContainerInv, TypeOK, Keys
<1>3. KeysAreDrawn'
  BY <1>1 DEF ContainerInv, TypeOK, KeysAreDrawn, Keys
<1>4. ASSUME Up
      PROVE  /\ ConfigLoads' /\ agent'.listen = ListenPort'
             /\ Overridden' => agent'.key = env'.NODE_KEY
             /\ ~Overridden' /\ saved' => ini'[AgentIni'] = agent'.key
             /\ ~Overridden' => /\ rows'[AdvertisePort'] # NoRow
                                /\ agent'.key <= rows'[AdvertisePort']
  <2>1. /\ ConfigLoads' = ConfigLoads /\ ListenPort' = ListenPort
        /\ AdvertisePort' = AdvertisePort /\ AgentIni' = AgentIni
        /\ Overridden' = Overridden
    BY <1>1 DEF ConfigLoads, ListenPort, AdvertisePort, AgentIni, Overridden
  <2>2. AdvertisePort \in Ports
    BY <1>4, LoadedPorts DEF ContainerInv, AgentFollowsEnv
  <2>3. ~Overridden => /\ rows[AdvertisePort] # NoRow
                       /\ agent.key <= rows[AdvertisePort]
                       /\ rows[AdvertisePort] <= drawn
    BY <1>4, <2>2 DEF ContainerInv, AgentFollowsEnv, KeysAreDrawn
  <2>4. agent.key \in Nat /\ rows[AdvertisePort] \in Nat \cup {NoRow}
    BY <1>4, <2>2 DEF ContainerInv, TypeOK, Keys, Up
  <2>5. rows'[AdvertisePort] = IF AdvertisePort = p THEN drawn + 1
                                                    ELSE rows[AdvertisePort]
    BY <1>1, <2>2 DEF ContainerInv, TypeOK
  <2>6. ~Overridden => /\ rows'[AdvertisePort] # NoRow
                       /\ agent.key <= rows'[AdvertisePort]
    BY <2>3, <2>4, <2>5, <1>1
  <2> QED
    BY <1>1, <1>4, <2>1, <2>6 DEF ContainerInv, AgentFollowsEnv
<1>5. AgentFollowsEnv'
  BY <1>1, <1>4 DEF AgentFollowsEnv, Up
<1> QED
  BY <1>2, <1>3, <1>5 DEF ContainerInv

\* Every step keeps the invariant.
LEMMA ContainerInvIsInductive ==
    ASSUME ContainerInv, [Next]_vars
    PROVE  ContainerInv'
<1>1. CASE Crash
  BY <1>1 DEF Crash, Failure, ContainerInv, TypeOK, KeysAreDrawn,
              AgentFollowsEnv, Up
<1>2. CASE UNCHANGED vars
  BY <1>2 DEF vars, ContainerInv, TypeOK, KeysAreDrawn, AgentFollowsEnv, Up,
              ConfigLoads, ListenPort, AdvertisePort, AgentIni, Overridden
<1> QED
  BY <1>1, <1>2, BootWithKeyStep, BootRegisteringStep, RecreateStep,
     ManualRegisterStep DEF Next

-----------------------------------------------------------------------------
(* Theorems.                                                               *)

\* Every reachable state satisfies the invariant.
THEOREM ContainerInvariantHolds == Spec => []ContainerInv
<1>1. Init => ContainerInv
  <2> SUFFICES ASSUME Init PROVE ContainerInv
    OBVIOUS
  <2>1. ImageEnv \in Env
    BY DEF ImageEnv, Env, PortValue, KeyValue, IniValue, Files
  <2>2. TypeOK
    <3>1. env \in Env
      BY <2>1 DEF Init
    <3>2. ini \in [Files -> Keys \cup {NoKey}]
      BY DEF Init
    <3>3. rows \in [Ports -> Keys \cup {NoRow}]
      BY DEF Init
    <3>4. drawn \in 0..MaxKey /\ edits \in 0..MaxEdits
      BY DEF Init
    <3> QED
      BY <3>1, <3>2, <3>3, <3>4 DEF Init, TypeOK
  <2>3. KeysAreDrawn /\ AgentFollowsEnv
    BY DEF Init, KeysAreDrawn, AgentFollowsEnv, Up
  <2> QED
    BY <2>2, <2>3 DEF ContainerInv
<1> QED
  BY <1>1, ContainerInvIsInductive, PTL DEF Spec

\* The variables keep their types.
THEOREM ContainerTypeCorrect == Spec => []TypeOK
  BY ContainerInvariantHolds, PTL DEF ContainerInv

\* The health check script works out the port and the key that the agent did.
THEOREM ScriptAgrees == Spec => []ScriptFindsTheAgent
<1>1. ContainerInv => ScriptFindsTheAgent
  <2> SUFFICES ASSUME ContainerInv, Up, KeyAtHand,
                      FirstNonEmpty(env.NODE_LISTEN_PORT, ScriptPort) = ScriptPort
               PROVE  ScriptPasses
    BY DEF ScriptFindsTheAgent
  <2>1. ScriptPort = agent.listen
    BY DEF ContainerInv, AgentFollowsEnv, FirstNonEmpty, ScriptPort, ListenPort
  <2>2. ScriptIni = AgentIni
    BY DEF KeyAtHand, ScriptIni, AgentIni
  <2>3. env.NODE_KEY \in KeyValue
    BY DEF ContainerInv, TypeOK, Env
  <2>4. ScriptKey = agent.key
    BY <2>2, <2>3 DEF ContainerInv, AgentFollowsEnv, KeyAtHand, Overridden,
                      ScriptKey, KeyValue
  <2> QED
    BY <2>1, <2>4 DEF ScriptPasses, Up
<1> QED
  BY <1>1, ContainerInvariantHolds, PTL

\* The centre's row leads to where the agent listens, with the key it has or a
\* newer one.
THEOREM RowLeads == Spec => []RowLeadsToAgent
<1>1. ContainerInv => RowLeadsToAgent
  <2> SUFFICES ASSUME ContainerInv, Up, ~Overridden,
                      env.NODE_LISTEN_PORT = Unset,
                      env.NODE_ADVERTISE_PORT = Unset
               PROVE  rows[agent.listen] \in agent.key..MaxKey
    BY DEF RowLeadsToAgent
  <2>1. agent.listen = AdvertisePort /\ AdvertisePort \in Ports
    BY LoadedPorts DEF ContainerInv, AgentFollowsEnv, FirstNonEmpty, ListenPort,
                       AdvertisePort
  <2>2. /\ rows[AdvertisePort] \in Keys /\ agent.key \in Keys
        /\ agent.key <= rows[AdvertisePort]
    BY <2>1 DEF ContainerInv, TypeOK, AgentFollowsEnv, Up
  <2> QED
    BY <2>1, <2>2 DEF Keys
<1> QED
  BY <1>1, ContainerInvariantHolds, PTL

=============================================================================
