----------------------------- MODULE NodeContainer -----------------------------
(***************************************************************************)
(* A node's container: the ports and the key that the agent works out from *)
(* its environment and node.ini (internal/config/nodeconfig.go,            *)
(* cmd/node/main.go), those that the health check script works out on its  *)
(* own (docker/node-healthcheck.sh), the port that docker-compose.yml      *)
(* publishes, and the address the centre has stored.  Two programs and two *)
(* files must agree on them over edits, restarts and failed saves.         *)
(*                                                                         *)
(* Keys are numbers, drawn afresh by the centre.  How a registration gets  *)
(* through is the subject of AgentRegistration; here it is one step.       *)
(* NODE_HOST keeps its default, every interface: the script asks at        *)
(* 127.0.0.1, whatever the agent binds to (cmd/node/main.go:42).           *)
(***************************************************************************)
EXTENDS Naturals

CONSTANTS Ports,        \* bound: the values of the port variables
          DefaultPort,  \* 8081
          BadPort,      \* a value that is no port
          MaxKey,       \* bound: the keys drawn and chosen by the operator
          Blank,        \* blanks only
          NoKey, NoRow,
          MaxEdits      \* bound: edits, failed saves and crashes

ASSUME PortAssumption == Ports \subseteq Nat \ {0} /\ DefaultPort \in Ports
ASSUME KeyAssumption ==
    /\ MaxKey \in Nat \ {0} /\ MaxEdits \in Nat
    /\ {Blank, NoKey, NoRow} \cap Nat = {} /\ NoKey # Blank

Keys == 1..MaxKey

\* What an empty variable holds; it counts as one that is not set.
Unset == 0
PortValue == Ports \cup {Unset, BadPort}
ASSUME UnsetAssumption == BadPort \notin Ports \cup {Unset} /\ NoKey \notin Keys

DataIni == "/data/node.ini"
LocalIni == "./node.ini"
Files == {DataIni, LocalIni}

VARIABLES env,      \* of the container: the image's defaults and -e
          ini,      \* node_key in each file, NoKey if there is none
          agent,    \* [listen, key] while it is serving, else NoRow
          saved,    \* the running agent's SaveNodeState succeeded, or is not due
          rows,     \* the centre: the current key of each port of this address
          drawn,    \* the number of keys drawn
          edits     \* edits and failures so far

vars == <<env, ini, agent, saved, rows, drawn, edits>>

KeyValue == Keys \cup {NoKey, Blank}
IniValue == Files \cup {NoKey}

Env == [NODE_PORT : PortValue, NODE_LISTEN_PORT : PortValue,
        NODE_ADVERTISE_PORT : PortValue, NODE_KEY : KeyValue,
        NODE_INI : IniValue]

FirstNonEmpty(a, b) == IF a # Unset THEN a ELSE b

-----------------------------------------------------------------------------
(* The agent.                                                              *)

\* Seeded fault: the port is only read from the newer variable.
ListenPortAlone == FirstNonEmpty(env.NODE_LISTEN_PORT, DefaultPort)

\* LoadNodeConfig: NODE_LISTEN_PORT > NODE_PORT > 8081
ListenPort ==
    FirstNonEmpty(env.NODE_LISTEN_PORT, FirstNonEmpty(env.NODE_PORT, DefaultPort))

\* Seeded fault: each port has a default of its own.
AdvertisePortAlone == FirstNonEmpty(env.NODE_ADVERTISE_PORT, DefaultPort)

\* LoadNodeConfig: NODE_ADVERTISE_PORT > NODE_PORT > ListenPort
AdvertisePort ==
    FirstNonEmpty(env.NODE_ADVERTISE_PORT, FirstNonEmpty(env.NODE_PORT, ListenPort))

\* Seeded fault: only the port that is registered is checked.
ConfigLoadsIfAdvertised == AdvertisePort # BadPort

ConfigLoads == ListenPort # BadPort /\ AdvertisePort # BadPort

AgentIni == IF env.NODE_INI = NoKey THEN LocalIni ELSE env.NODE_INI

\* NODE_KEY is trimmed before it is looked at.
Overridden == env.NODE_KEY \in Keys

Failure == edits < MaxEdits /\ edits' = edits + 1

Serving(key) == [listen |-> ListenPort, key |-> key]

\* RegisterOrReuse: the key of node.ini is the current one of the same endpoint.
Reused(existing) == existing \in Keys /\ rows[AdvertisePort] = existing

\* resolveNodeKey with NODE_KEY.
BootWithKey ==
    /\ agent = NoRow /\ ConfigLoads /\ Overridden
    /\ agent' = Serving(env.NODE_KEY)
    /\ saved' = TRUE
    /\ UNCHANGED <<env, ini, rows, drawn, edits>>

\* resolveNodeKey with a registration; a failed save is only logged.
BootRegistering ==
    LET existing == ini[AgentIni]
        key == IF Reused(existing) THEN existing ELSE drawn + 1 IN
    /\ agent = NoRow /\ ConfigLoads /\ ~Overridden
    /\ key \in Keys
    /\ drawn' = IF key = existing THEN drawn ELSE drawn + 1
    /\ rows' = [rows EXCEPT ![AdvertisePort] = key]
    /\ agent' = Serving(key)
    /\ \/ saved' = TRUE /\ ini' = [ini EXCEPT ![AgentIni] = key]
          /\ UNCHANGED edits
       \/ saved' = FALSE /\ Failure /\ UNCHANGED ini
    /\ UNCHANGED env

Crash ==
    /\ agent # NoRow
    /\ Failure
    /\ agent' = NoRow
    /\ UNCHANGED <<env, ini, saved, rows, drawn>>

-----------------------------------------------------------------------------
(* Around it.                                                              *)

\* The container is created anew with one variable changed: /data is a volume,
\* the rest of the file system is not kept.
Recreate ==
    /\ Failure
    /\ \/ \E name \in {"NODE_PORT", "NODE_LISTEN_PORT", "NODE_ADVERTISE_PORT"} :
          \E p \in PortValue : env' = [env EXCEPT ![name] = p]
       \/ \E k \in KeyValue : env' = [env EXCEPT !.NODE_KEY = k]
       \/ \E f \in IniValue : env' = [env EXCEPT !.NODE_INI = f]
    /\ ini' = [ini EXCEPT ![LocalIni] = NoKey]
    /\ agent' = NoRow
    /\ UNCHANGED <<saved, rows, drawn>>

\* The operator registers this address and a port by hand.
ManualRegister(p) ==
    /\ Failure
    /\ drawn + 1 \in Keys
    /\ drawn' = drawn + 1
    /\ rows' = [rows EXCEPT ![p] = drawn + 1]
    /\ UNCHANGED <<env, ini, agent, saved>>

\* Dockerfile.node
ImageEnv == [NODE_PORT |-> DefaultPort, NODE_LISTEN_PORT |-> Unset,
             NODE_ADVERTISE_PORT |-> Unset, NODE_KEY |-> NoKey,
             NODE_INI |-> DataIni]

Init ==
    /\ env = ImageEnv
    /\ ini = [f \in Files |-> NoKey]
    /\ agent = NoRow
    /\ saved = FALSE
    /\ rows = [p \in Ports |-> NoRow]
    /\ drawn = 0
    /\ edits = 0

Next ==
    \/ BootWithKey \/ BootRegistering
    \/ Crash \/ Recreate
    \/ \E p \in Ports : ManualRegister(p)

Spec == Init /\ [][Next]_vars

-----------------------------------------------------------------------------
(* The health check script.                                                *)

ScriptPort == FirstNonEmpty(env.NODE_PORT, DefaultPort)
ScriptIni == IF env.NODE_INI = NoKey THEN DataIni ELSE env.NODE_INI

\* Seeded fault: the file is preferred to NODE_KEY.
ScriptKeyOfFile ==
    IF ini[ScriptIni] # NoKey THEN ini[ScriptIni] ELSE env.NODE_KEY

\* -z does not trim: a blank NODE_KEY is used.
ScriptKey == IF env.NODE_KEY # NoKey THEN env.NODE_KEY ELSE ini[ScriptIni]

\* wget's request is answered 200.
ScriptPasses ==
    agent # NoRow /\ ScriptPort = agent.listen /\ ScriptKey = agent.key

-----------------------------------------------------------------------------
(* Properties.                                                             *)

TypeOK ==
    /\ env \in Env
    /\ ini \in [Files -> Keys \cup {NoKey}]
    /\ agent \in [listen : Ports, key : Keys] \cup {NoRow}
    /\ saved \in BOOLEAN
    /\ rows \in [Ports -> Keys \cup {NoRow}]
    /\ drawn \in 0..MaxKey
    /\ edits \in 0..MaxEdits

Up == agent # NoRow

\* The key the agent serves with is where the script looks for it.
KeyAtHand == saved /\ env.NODE_KEY # Blank /\ env.NODE_INI # NoKey

\* The script passes whenever the agent serves, over every edit, restart, failed
\* save and manual registration, as long as NODE_LISTEN_PORT does not differ
\* from NODE_PORT, the last save succeeded, NODE_KEY is not blank and NODE_INI
\* not empty: then the shell and the Go program pick the same port and key.
ScriptFindsTheAgent ==
    /\ Up /\ KeyAtHand
    /\ FirstNonEmpty(env.NODE_LISTEN_PORT, ScriptPort) = ScriptPort
    => ScriptPasses

\* A node without NODE_ADVERTISE_PORT and NODE_LISTEN_PORT listens where the
\* centre looks for it, with the key the centre has for that endpoint unless
\* that was replaced by a manual registration since: a key it draws is newer.
RowLeadsToAgent ==
    /\ Up /\ ~Overridden
    /\ env.NODE_LISTEN_PORT = Unset /\ env.NODE_ADVERTISE_PORT = Unset
    => rows[agent.listen] \in agent.key..MaxKey

=============================================================================
