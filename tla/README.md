# A TLA+ model of the speed-test service

This directory models the control logic of the Go speed-test service: a
*centre* (`cmd/web`) that keeps a registry of nodes in SQLite, checks and tests
them and proxies browser measurements to them, and *node agents* (`cmd/node`)
that register themselves and serve the measurements. TLC checks small
instances; TLAPS proves every safety and action property that a passing run
checks, for every instance.

## 1. Inventory

| Component (source) | State | Operations | Interacts with |
| --- | --- | --- | --- |
| node table (`internal/store`) | table `nodes`, `sqlite_sequence`, one mutex | `RegisterOrReuse`, `SetEnabled`, `Delete`, `UpdateHealthResult`, `Get`, `List` | called by every handler of the centre; each call holds the mutex throughout |
| key material (`internal/security`, `internal/sealedbox`) | none | generate, hash, fingerprint, seal, unseal | registration, key resolution |
| registration API (`cmd/web/register.go`) | per request | `POST /api/register`, `/api/register/auto` | netguard (DNS), store |
| administration, checks, tests (`cmd/web/nodes.go`, `nodeclient.go`) | a copy of one row per request | enable, disable, delete, health check, speed test | store, node agents over HTTP |
| browser proxies (`cmd/web/nodes.go`) | a copy of one row per request | ping, download, upload of one node | node agents, browser |
| direct speed test (`cmd/web/server.go`) | none | ping, download, upload of the centre | browser |
| token middleware (`cmd/web/server.go`) | settings | `requireAdmin`, `requireRegistrationOrAdmin` | every route |
| agent registration (`cmd/node/main.go`, `register.go`) | key loaded, attempt, key granted | boot, attempt, retry, exit | registration API, `node.ini` |
| `node.ini` (`internal/config/nodeini.go`) | `node_key` on disk | load, atomic save | agent |
| agent HTTP server (`cmd/node/server.go`) | its `nodeKey`, constant after start | `/healthz`, `/ping`, `/download`, `/upload` | centre, browser |
| configuration (`internal/config`) | settings, constant after start | load, validate | all |
| target validation (`internal/netguard`) | none | validate an address, port and protocol | registration, every contact with a node |
| web frontend (`static/app.js`) | selected target, node list, running test, history | refresh, select, test, abort, manage nodes | the centre's API |
| images, compose, health script (`docker*`) | none | restart policy, health check | agent |
| Python prototype (`app/`), `vendor/`, CI | – | superseded / third-party | – |

What is hard here, and what makes each part correct:

* **Registration is not idempotent for a caller without a valid key** and its
  client gives up after ten seconds while the handler goes on. Late, duplicate
  and failed-after-commit calls meet crashes and failed saves of the agent. It
  is correct if a key never opens two endpoints or comes back after it was
  retired, if an agreement between `node.ini` and the table is not ended by what
  the agent repeats, and if a restart restores it. A call that was given up before
  does end it (section 6).
* **Three representations of one key** (hash, fingerprint, sealed copy) are
  written by different branches under settings that change between restarts.
  Correct if whatever key is resolved is the current one.
* **Handlers decide on a copy of a row** and write to the row by id seconds
  later. Correct if the id still means the same registration, and if the health
  columns agree with one another after any order of results.
* **The page acts on copies and on one shared engine object**: lists, changes
  and selections cross one another, and a test goes on for half a minute
  meanwhile. Correct if a result is of the target it names, and if cancelling
  works at every await.
* **Bytes pass several hops, each with a limit of its own**, at any pace, and a
  server may answer an upload before its sender is done. Counts are `int64` and
  wrap. Correct if a part of a body never passes for all of it, and if a node
  that stops does not hold up the centre for ever.
* **Configuration is read twice, by rules of its own each time**: tokens from the
  environment and `./.env`; ports and keys by the agent, the shell script and
  the compose file; an endpoint at its registration, again, under other
  settings and answers of DNS, at every contact, and once more at its dial. Correct
  if the readings agree, or the later one decides.

`PROJECT.json` lists every hazard with its line and the properties that cover it.

## 2. Modules

| Module | Models | Uses |
| --- | --- | --- |
| `KeyLease` | the abstract promise: leases of keys to endpoints, never reused | – |
| `NodeStore` | the table and its operations, key resolution, restarts with other settings | refines `KeyLease` |
| `AgentRegistration` | agents, `node.ini`, calls in flight, the registration handler, the operator | extends, and refines, `NodeStore` |
| `HealthProbe` | concurrent checks, tests and proxied requests, agent restarts | extends, and refines, `NodeStore` |
| `Fleet` | agents and handlers together, over one table | extends `AgentRegistration` and `HealthProbe`, refines the latter |
| `Transfer` | one measurement and its bytes, at a node, at the centre, relayed, or made by the centre | – |
| `AuthGate` | tokens from the environment to the comparison with a request's headers | – |
| `NodeContainer` | ports and keys as the agent, the health check script and the centre's table have them | – |
| `TargetGuard` | which endpoints are stored and contacted, over changes of settings and DNS | – |
| `SpeedtestUI` | the page: node list, selection, calls in flight, the speed-test engine | – |
| `TestHistory` | the stored history of tests and the tabs that share it | – |
| `<M>Proofs` | theorems about `<M>`; `FleetProofs` also about `HealthProbe` | extends `<M>` |
| `PageProofs` | theorems about `SpeedtestUI` and `TestHistory` | extends both |
| `MC<M>` | sets and symmetry for TLC, where needed | extends `<M>` |

The agents meet the handlers of the centre in two places only: the table and the
key an agent listens with. `HealthProbe` leaves the agents open: one may be
restarted with any key that is no other endpoint's credential (`AgentRestarts`).
`Fleet` puts the agents of `AgentRegistration` in that place, and
`FleetRefinesHealthProbe` proves that they do what `HealthProbe` assumes.
`Transfer`, `AuthGate`
and `TargetGuard` detail what the handlers of `HealthProbe` take as one step:
the requests to a node, who may call a handler, and whether a node is contacted.

### NodeStore

`rows` is the table as a function from ids to rows, `sequence` is
`sqlite_sequence`, `generated` the keys drawn so far, `settings` the two
settings of the running centre that matter to keys. Since `Store.mu` is held
from the first to the last statement of each operation, each is one action:
`RegisterOrReuse` is the disjunction of `Reuse`, `Insert` and `Rotate`;
`Register` adds what the handler does before (only the `auto` route passes the
presented key on) and `SealKey` is the closure it hands over. `ResolvesTo` is
`resolveNodeKey` as a relation: no `k` is related when the code refuses.

Abstractions: an address and port is one value; a key is a value that is only
compared; `HashNodeKey` is injective, and a sealed box opens only under the
`SECRET_KEY` it was made with; the generator never draws a value twice. Name,
protocol, metadata and timestamps are absent, nullable health columns are
booleans (TRUE: not NULL). Presented keys range over all of `Keys`, also those
not drawn yet, which stand for arbitrary strings.

### AgentRegistration

`agent[a].pc` is the position in `main`/`resolveNodeKey`: `down`,
`registering` (about to send or sleeping between attempts), `waiting`,
`saving`, `serving`. `call` holds the requests in flight: `sent` until the
handler's store operation, then `answered` or `refused` until the agent reads
the reply. A timeout (`AttemptFailed`) makes the agent stop waiting but leaves
a `sent` call where it is, so that `Answer` may carry it out at any later time.
`Refuse` covers errors before the store operation and errors after its commit.
`SaveNodeState` either replaces the file or leaves it alone: the rename is
atomic, and the only failure after it (`chmod`) leaves the new content.
`Boot` also covers `NODE_KEY`. Back-off delays are left to interleaving.
Two agents never announce the same endpoint.

`Agrees` relates `node.ini` to the table. `AgreementEnds` says who parts them: the
operator, or a call that is `Outdated`, which nobody waits for and which presents
something else than the file has by now. The first attempt of a first boot, timed
out and carried out after the second was answered, is such a call:
`SyncedNodesKeepTheirKey` fails by it.

### HealthProbe

A handler is an element of `probe` from its admission to its end. `Begin`
reads the row, the switch and the key; `Contact` is one request to the node,
which may also fail for any other reason; `Record` is `UpdateHealthResult` by
id, whose `ErrNotFound` both callers ignore. Proxied requests record nothing.
`listening[e]` is the key the agent at `e` was started with: any key of that
endpoint's past or present. This module is the abstract view of the agents that
`Fleet` makes concrete; it has theorems but no run of its own.

### Fleet

All steps of `AgentRegistration`, the handlers of `HealthProbe`, the switch, and
restarts of the centre. `listening` follows the agents: `Served` is the key of the
agent that serves at an endpoint, which `main` hands to `newNodeServer` before it
listens and which goes with the process. A restart of the centre ends its
handlers; the registrations it was carrying out were cut off just before
(`Refuse`, before or after the commit). `RequestsFitTheirNode` is what the parts
are for together: a request that carries the current key of an endpoint is let
in by an agent in sync with the centre, and none carries a key that opens
another agent.

### SpeedtestUI

`page` holds `state.*` and what the selection box shows; `options` are the
options it was last given. `call` holds the page's calls: `sent`, then
`answered` when the centre has served them (a list keeps the table of that
moment), or `failed`, which a call may become before or after its effect.
`Receive` is the code after the await, in any order. A change that succeeded
turns into the reload of the list it starts; a registration selects its node
after that reload. `engine` holds the fields of the one `SpeedtestEngine`, `run`
the local state of each activation of `run()`: its `await` is where it is
suspended. `Proceed`, `WakeUp`, `Interrupt`, `NetworkError` and `Finish` resume it
when the network answers, when a timer or a cancelled stream is done, when the
abort signal rejects what is awaited, on an error, and after the last upload.
How many requests a phase makes and when its time is up is left open. The table
here is any table other administrators and agents can produce: `NodeStore` is
not repeated.

### Transfer

`pc` is where the measurement is: `ping`, then `download`/`downloading`, then
`upload`/`uploading` for a test of the centre; a browser's request starts at
`download` or `upload`. A body flows over one link, or two when the centre relays
it: `moved[0]` bytes were sent into link 1, `moved[i]` taken out of link i, and
`link[i]` is open, ended cleanly or broken. `Begin` computes the size from request
and settings (`Clamped`, `NumBytes`, `ChunkSize`), `Write`, `Take` and `EndCopy`
are the loops, `io.Copy` and `io.LimitReader`; `Closed` is what `net/http` does to a
body that does not have its `Content-Length`. `Respond` is a server's answer to an
upload, which may come before its sender is done; `FailUpload` is the sender that
finds its connection broken, answer or not. `Timeout` is `client.Timeout` of the
centre. Handlers share nothing but settings, so one measurement is enough.

Abstractions: bytes are counted one by one, times and rates are absent, the
pings of a test are one step, a lost connection may lose what it carries. A ping
count beyond `Room` is one that `make([]float64, 0, count)` (`nodeclient.go:78`)
cannot serve: it panics, or takes the memory the process has. `int64` is scaled down to `MaxInt64`, with its wrapping (`Plus1`).

### AuthGate

A value is a text and whether blanks surround it; a line of `./.env` may also be
quoted. `LookupEnv` is `loadDotEnv` followed by `os.Getenv`; `Boot` is `config.Load`
with `validate`, `Serve` one request with any combination of the headers that its
server reads, `Admitted` the middleware of its route. `Edit` is the operator, who
edits the environment or the file under a running centre. One route of each kind
stands for those that share their middleware.

### NodeContainer

`env` is the container's environment, `ini` the content of the two files that may
be `NODE_INI`, `rows` the centre's key for each port of this address, `agent` what
the running agent listens with. `BootWithKey` and `BootRegistering` are the
agent's start; how its registration gets through is left to `AgentRegistration`.
`Recreate` changes one variable and loses every file but the volume's.
`ScriptPort`, `ScriptIni`, `ScriptKey` are the shell's rules. `NODE_HOST` keeps its
default, so that the agent can be asked at 127.0.0.1, as the script does.

### TargetGuard

A host is a text, a name or an IP literal, in one of several spellings (brackets,
blanks, a protocol or path). Two texts may be one host to DNS (`Domain`: letter
case is nothing to it) or one IPv6 address; netguard keeps them as they are
written and the table compares bytes, so each has rows of its own. `Class` is what
`classify` says of a literal, `dns` what a name resolves to. `Register` is
`ValidateNodeTarget` in the registration handler and what is stored then. A contact
is two steps: `Check` is `nodeBaseURL`, which validates the stored endpoint anew,
`Dial` the HTTP client, which looks the host up again. `contact` keeps the answer
that was judged and the address that was dialled.

### TestHistory

`records[tab]` is the copy of a tab, `ls_history` what is stored. The constant
50 is `MaxRecords`.

## 3. Runs

| Run | Instance | Shows |
| --- | --- | --- |
| `node_store` | 2 endpoints, 4 keys, 2 secrets, ids up to 3 | the inductive invariant (unique endpoints and credentials, coherent sealed copies), only current keys are resolved, refinement of `KeyLease`, retired keys stay retired |
| `sealed_mode` | 1 endpoint, 2 keys | a finding (section 6) |
| `agent_registration` | 1 agent, 3 endpoints, 6 keys, 3 calls in flight, 2 retries, 4 disruptions | no key opens another endpoint, who ends an agreement, an agent ends up serving, restarts heal |
| `late_registration` | 2 agents, 3 endpoints, 7 keys, 3 disruptions | a finding (section 6) |
| `fleet` | 1 agent, 2 handlers, 2 endpoints, 2 keys, 2 ids, 1 call in flight, 2 disruptions | requests open the node they were meant for, results stay with their registration, coherent health columns |
| `transfer` | `MaxInt64` 4; limits, defaults and sizes from negative over zero to largest; ping counts up to one beyond `Room`; all four routes | limits hold, what is accepted or complete is whole, no panic under sane settings and counts, a stopped node holds up nothing |
| `auth_gate` | 7 texts, 2 edits of 6 variables in 2 places, 6 kinds of routes | the registration token opens nothing but registration that no token would, the admin token is enough, accepted tokens can be presented |
| `node_container` | 3 ports and a bad one, 3 keys, 4 edits or failures | script, agent and table agree where they can |
| `target_guard` | 2 texts of one name, 5 literals (2 of one address), 6 spellings, 2 rows, 2 changes | one row per text of a host, stored endpoints stay readable, dials obey the settings but for an answer that DNS changed after the check |
| `speedtest_ui` | 2 ids, 2 calls, 2 activations, 2 of them at a time, 2 tests, 1 change, no central test | the box never shows a node that is not selected; results of one target; cancelled tests leave none; cancelling ends a test |
| `speedtest_target` | 2 ids, 1 call, 2 tests | a finding (section 6) |
| `test_history` | 2 tabs, limit 3, 6 tests | well-formed lists whatever the tabs overwrite; no tab drops what it shows |

Bounds. `MaxId` bounds insertions, `Keys` the keys drawn, `Calls` the requests
in flight, `Probes` the handlers, `MaxDisruptions` the faults and operator
interventions. Three ids over two endpoints allow deletion followed by a new
registration next to a second row; four keys allow two rotations of both rows
with a retired key to present; with four disruptions a timeout, a crash, a
move of the agent and another operator step, or two timeouts whose late calls meet
a move and a failed save, occur in one behaviour, and three slots never make an
agent wait for one that is not freed. A second agent acts on the first only by the
rows of other endpoints that it registers, which `ManualRegister` does as well, or
by calls it leaves behind at an endpoint the first moves to, which the first one's
own moves leave behind too. `node_store` needs no deadlock exception.

`fleet` is the product of two components, so its bounds are those of the parts
where they meet: two handlers overlap one another and a registration; two
disruptions stop an agent that has a key and move it, with its `node.ini`, to the
other endpoint, or let a rotation by hand meet a crash; two ids and keys allow a
row to be rotated, or deleted and inserted anew, under a handler on its way. What
several calls do to one another is left to `agent_registration`, and any number of everything to `FleetProofs`. That the
composition implements `ProbeSpec` is left to the proof, since evaluating it on
every step triples the time of the run.

`transfer` has each limit below, at and above the size that meets it, both at the
last hop and at the proxy; with `MaxInt64` 4 the limit 4 wraps. `auth_gate` needs
two edits to make a good configuration bad and to hide the bad value again;
`node_container` four: two variables, a failure and a restart with what came of
them. `speedtest_ui` limits calls and activations together (`MaxPending`, in the
guards of the steps that a user takes): two of a kind or one of each are enough
for every crossing of two. `test_history` needs more tests than the limit,
spread over two tabs. `fleet`, `target_guard`, `node_store` and `test_history`
check deadlock. The others may really stop: transfers, tests and retries come
to an end, keys and edits run out by their bounds, and a centre that refuses
its configuration stays down.

Symmetry over endpoints, keys, agents and handlers is used in runs without liveness
only: all are compared for equality and appear in no `CHOOSE` whose result
matters (`DrawnKey` and `NextSlot` pick among values that no state mentions;
keys and slots are not permuted where they are used).

## 4. Fairness

`FairRegistrationSpec` assumes weak fairness of each agent's own steps
(`Boot` because `docker-compose.yml` restarts the container unless it was
stopped; the others because they are straight-line code of a running process)
and of `Answer` for every call (a Go handler runs to its end; its lookups and
SQLite calls return). Disruptions are finitely many, by the bound; no fairness
is assumed of them. `FairUISpec` assumes weak fairness of `WakeUp` and
`Interrupt` only: the browser fires timers, closes a cancelled stream and rejects
an aborted fetch. Answers of the network, and the user, may fail to come, so
`CancelEnds` does not depend on them. `FairSpec` of `Transfer` assumes weak fairness
of the centre's own steps in a test (`TestStep`: straight-line code of a
goroutine), of its timers (`Timeout`) and of the failure of a proxied upload whose
connection is broken. Nodes and browsers may stop for ever at any byte:
`HandlersEnd` then rests on `client.Timeout` alone, and is not stated for proxied
downloads, where a browser that stops reading does hold the handler. Nothing
else is assumed fair.

## 5. Proofs

Each module of proofs has one inductive invariant of its specification, a lemma
per action that it is kept, `<...>InvariantHolds`, and the properties of the runs
as theorems under names of their own (`PROJECT.json` lists which states which).
Assumptions about constants are the named `ASSUME`s of the modules: bounds are
natural numbers, null values are none of the values they stand beside, sets of
inputs are in range. TLC evaluates them in the runs.

### NodeStoreProofs

`NodeStoreProofs` proves, for every set of endpoints, keys and secrets and every
`MaxId`, over `Spec` of `NodeStore`:

| Theorem | States |
| --- | --- |
| `InvariantHolds` | `Spec => []IInv` |
| `TypeCorrect`, `Consistent` | `TypeOK`, `RegistryConsistent` |
| `NeverSendsStaleKey` | `ResolvedKeyIsCurrent` |
| `ImplementsKeyLease` | `Spec => LeaseSpec` |
| `RetiredKeysStayRetired` | `RetiredForever` |

Assumptions, all declared and named in `NodeStore`: `MaxId` is a natural number,
`NoKey` is no key, `NoSealed` is no box. That hashing is injective and that a
box opens only under its own secret is in the definitions (records), not assumed.

The inductive invariant is `IInv == TypeOK /\ RegistryConsistent /\
SealedCopyCoherent /\ CredentialsDrawn`. `RegistryConsistent` alone is not
inductive: a rotation could draw a key that another row already has.
`CredentialsDrawn` (every stored hash is of a key drawn before) excludes that,
because a drawn key is never drawn again. The uniqueness of endpoints survives
an insertion because `Insert` is taken only when the lookup by address and port
is empty, and `TypeOK` carries `DOMAIN rows \subseteq 1..sequence`, without which
the id of the new row might be taken. `ResolvedKeyIsCurrent` follows from
`SealedCopyCoherent` for the keys that come out of a sealed copy and from the
comparison of hashes for the supplied ones. There is one lemma per operation
(`ReuseStep`, `InsertStep`, `RotateStep`, ...) and `StepCases` splits `Next`.

`ImplementsKeyLease` maps the table to `Leases`, one pair per row, and the drawn
keys to `spent`. `NewKeyIsAnIssue` shows that an insertion or a rotation is an
`Issue` of the new key; `OtherStepsRevokeOrStutter` that a deletion is a
`Revoke` and everything else, including a reuse, a stutter. It needs
`RegistryConsistent`, so that the pairs of an endpoint are exactly the one of its
row. `RetiredKeysStayRetired` follows from the same two lemmas.

### AgentRegistrationProofs

For any agents, endpoints, calls, retries and disruptions: `RegistrationTypeCorrect`,
`CredentialsStayHome`, `AgreementsEnd`, and `RegistrationRefinesNodeStore`, by
which every theorem of `NodeStoreProofs` holds of the composition. The inductive
invariant `RegistrationInv` adds to `IInv` that keys that agents hold and
keys on their way in an answer are *at home*: drawn, and the key of no row but their own endpoint's.
`CredentialStaysHome` speaks of agents only and is not inductive, because a late
answer may carry a key whose row has been replaced meanwhile. That a move of an
agent forgets its call, and that agents do not share endpoints or calls
(`OwnEndpoints`, `AwaitedInFlight`), is what keeps an answer from another's hands.
`AgreementEnds` needs a second invariant, `FileInv`: an agent that registers
presents what its `node.ini` holds, here and in the call it awaits; what a file
holds was drawn; and an agent that is granted another key, in an answer or about to
be saved, has a file whose key opens nothing where the agent is (`GrantsAgain`).
Without the last, a save could replace a key that is still good. It is kept because
the centre grants another key only when the presented one opens nothing (`Reuses`),
and a drawn key that opens nothing at an endpoint never will (`StaysShut`).
`AgentsKeepAgreements` and `CallsKeepAgreements` then go through the steps of
agents and of calls. `RegistrationKeepsLeases` and `RetiredKeysStayOut`
carry the promise of `KeyLease` over to the composition: `RegistrationTableSteps`
shows that every step of it is one of the table or leaves the table alone, and
`LeaseSpec` only speaks of the table.

### FleetProofs

First about `HealthProbe`, for any number of handlers: `ProbeInv` adds to `IInv`,
besides the two invariants of the run, that a handler holds an assigned id
(`IdsAssigned`: an insertion therefore never takes the id of a handler on its way,
which is all of `ResultStaysWithRegistration`) and that a pending test has a
request to make. `ProbesRefineNodeStore` maps every step to one of the table or to
a stutter.

Then about `Fleet`, for any number of agents, calls, handlers, endpoints and keys.
`FleetInv` joins the invariants of the parts by three facts of the whole:

* `listening = Served`. An endpoint listens with the key of its agent, since no two
  agents announce one endpoint.
* `KeysApart`. A key *claims* an endpoint when it opens the endpoint's row, is held
  by the agent there or set as its `NODE_KEY`, is carried by a reply to it, or is
  sent by a handler. No key claims two endpoints. `RequestsFitTheirNode` speaks of handlers
  and agents only and is not inductive: a key on its way in an answer becomes an
  agent's in the next step, and a row's key a handler's. Each of the four places
  feeds the others, so only all of them together are kept.
* `ClaimsDrawn`. Every key that claims an endpoint was drawn, so that one drawn
  later claims none yet.

`OneMoreClaim` and `NoMoreClaims` say when a step keeps the keys apart: it claims at
most one key more, which is fresh or claimed that endpoint before. The lemmas
about each action (`RegistrationClaims`, `HandlersSend`, ...) show which of the two
it is. A key in `node.ini` is left out on purpose: it moves with its agent and says
nothing about the endpoint announced now. It counts only once the centre has
granted it, which `Reuses` does for the row of that very endpoint alone.

From `FleetInv` follow `RequestsFit` and, step by step, `FleetRefinesHealthProbe`: an
agent that starts to serve does so with a drawn key that opens no other row,
which is an `AgentRestarts`. All theorems about `HealthProbe` then hold of the fleet
(`FleetKeepsHandlersApart`), and those about the table (`FleetRefinesNodeStore`,
`FleetKeepsLeases`, `FleetRetiresKeysForGood`). `FleetCredentialsStayHome` and
`FleetKeepsAgreements` show the other direction: the handlers, the switch and
restarts of the centre disturb nothing that was proved of the agents alone.

### TransferProofs

For every `MaxInt64` and any limits, defaults, chunks and sizes in its range. The
invariant `TransferInv` follows the bytes: the size is that of the request
(`PlanFollowsRequest`), a link that ended cleanly carried a whole body or one the
upload proxy has cut (`CleanEnds`), no reader exceeds its cap (`ReadersCapped`),
and an answer 200 stands for one of those (`AnswerStands`). `AcceptedArrived` then
excludes the cut ones, since a reader at its cap has one byte more than its
limit unless the limit wraps. `HandlersEnd` is left to TLC.

### AuthGateProofs, NodeContainerProofs, TargetGuardProofs

* `GateInv`: `validate` has seen the tokens of a running centre, and the last answer
  is the one it would give now. `RolesAreSeparate`, `AdminTokenSuffices` and
  `FileTokensWork` follow for any texts and headers.
* `ContainerInv`: keys in files and rows have been drawn (so a key drawn later is
  larger), and a running agent has what its environment and file say.
  `ScriptAgrees` and `RowLeads` follow for any ports and keys.
* `GuardInv`: rows are in the normal form of some accepted target, and the answer
  kept of a contact passed under the settings the centre still has
  (`ContactJudged`). `OneRow`, `StoredStaysStable` and `DialsObey` follow for any
  hosts, texts and answers.

### PageProofs

`SpeedtestUI`, for any number of nodes, calls, activations and tests: `UITypeCorrect`,
`ShownIsSelected`, `ResultsOfOneTarget`, `NoCancelledRecord`. `UIInv` adds to the
properties that there is at most one activation and that the engine's `nodeObj` is
its target (`RunsSound`): without it, an activation could enter its next phase with
another's target. Lists in flight name assigned ids only (`GoodCall`), so that an
old one can be shown at any time. `LeastIsOneOfThem` takes the first of some
ids from the well-foundedness of `<`.

`TestHistory`, for any number of tabs, tests and any limit: `TabsKeepProperHistories` and
`TabsKeepWhatTheyShow`. `HistoryInv` says of each copy what `HistoryTypeOK` says, and
that copies are of completed tests. It has to hold of all copies at once, as any
of them may be stored next and be loaded by another tab. `SaveProperties` and
`RemoveAtProperties` are the facts about the lists, by their positions: a record
falls out of a list only when it is the last of a full one, or the one removed.

### Only model-checked

Liveness (`EventuallyServing`, `RestartHeals`, `HandlersEnd`, `CancelEnds`), which is
out of the prover's reach.

## 6. Findings

* `sealed_mode` (`SealedModeProbesAutomatically`): `README.md:22-23` of the
  repository says that with `STORE_NODE_KEY_SEALED=true` the centre checks and
  tests nodes without being given their key. A node whose key was issued while
  sealing was off, or under another `SECRET_KEY`, keeps its key by the reuse
  branch of `RegisterOrReuse`, which does not touch `node_key_sealed`; so it
  registers itself again and again and still cannot be checked without its key.
  The key itself stays correct (`ResolvedKeyIsCurrent`).
* `speedtest_target` (`NodeTestsMeasureTheNode`): `static/app.js:1158` says that
  the engine requests the node's own address. A target that is not in
  `state.nodes` (deleted since and retested from the history; just registered
  while the list failed to load) makes `nodeObj` undefined, which every phase
  takes for the centre: the centre is measured and the result is recorded under
  the node's id.
* `late_registration` (`SyncedNodesKeepTheirKey`): `README.md:26-29` says that a
  registration of a node whose key is valid reuses it and does not rotate it. The
  first attempt of a first boot presents no key. If it times out (10 s, while the
  centre's DNS lookup or SQLite takes longer), the second is answered, and the centre
  then carries out the first, the key of a node that serves with it, and has saved
  it, is rotated (`cmd/web/register.go:101`). Nobody learns the new key; a restart of
  the node heals it (`RestartHeals`). `AgreementEnds` says that such a call, given up
  and out of date, is the only way besides the operator.
* `auth_gate` (`RolesSeparate`): `README.md:135` says that all `/api/nodes/*` routes
  need the admin token, and its table lists the browser proxies among them
  (`:145-147`). `server.go:71-73` registers these three without `requireAdmin`, as
  `main_test.go:373-397` expects. `RolesSeparate` is stated over the routes as they
  are registered: the proxies count as open.
* `target_guard` (`DialsObeyTheSettings`): `README.md:189-190` and `.env.example:28`
  list reserved addresses among those that `ALLOW_PRIVATE_NODES=false` refuses;
  `classify` (`netguard.go:63`) has no such class, nor have `Classes`. `README.md:188`
  says that every answer is looked at; one that `net.ParseIP` does not read, such as an
  address with a zone, is passed over (`netguard.go:166-169`, `Permitted`).

Seen while modelling; each follows from a definition here, without a run of its
own:

* `static/app.js:259` promises that completed tests are saved automatically. Each tab
  writes its own copy over the stored one and so removes what other tabs have
  added since: the last disjunct of `RecordsAreKept`.
* With `MAX_TEST_BYTES` the largest `int64`, `maxTestBytes+1` wraps
  (`cmd/node/server.go:168`, `Plus1`): the node reads nothing of an upload and
  answers 200, and `measureUpload` reports all of it (`nodeclient.go:212`). The premise
  `~Overflows` of `AcceptedInFull`.
* `README.md:12` and `:196-197` of the repository say that `/ping`, `/download` and
  `/upload` of a node require its key; `cmd/node/server.go:88-92` lets requests
  without any key pass (`AuthenticateSpeedtest`), as `main_test.go:97-103` expects.
* `docker/node-healthcheck.sh:6` asks at `NODE_PORT` while the agent listens at
  `NODE_LISTEN_PORT` if that is set (`nodeconfig.go:64`): the premise of
  `ScriptFindsTheAgent` about the two ports.
* `docker-compose.yml:33` publishes `${NODE_PORT}` to the container's port 8081 but
  also passes `NODE_PORT` into the container (`:40`), where the agent then listens:
  with another value than 8081 (`.env.example:65`) nothing listens behind the
  published port.
* The `ping_count` of a test is not bounded (`nodes.go:219-222`): the premise
  `request.count > Room` of `SaneSettingsNeverPanic`.
* `README.md:27-28` speaks of one `address+port`. Two texts of one host (`Node` and
  `node`, `::1` and `0:0:0:0:0:0:0:1`) are two rows with two keys, of which the agent
  there has one: `OneRowPerHostText` is about texts.

## 7. Not modelled, and what could follow

* Of the configuration: parsing of numbers, `DATABASE_PATH`, secrets from files.
  Of `node.ini`: its parser and the keys beside `node_key`. Of the page: measured
  values, language, theme, gauge, chart and tables, which no state here depends on.
* Redirects that a node answers with: the HTTP client follows them, and
  `nodeBaseURL` does not see their target. The window between the lookup of the check
  and that of the dial is modelled (`Dial`); `netguard.go:10` claims no more than to
  make it small.
* The end of a proxied download whose browser stops reading: the code has nothing
  that would end it.

Left out for good: request parsing and validation messages, logging, CORS, SQL
text, timestamps, build stages, the Python prototype (superseded, in no image),
vendored packages and CI. Liveness and `ENABLED` are checked by TLC only.
