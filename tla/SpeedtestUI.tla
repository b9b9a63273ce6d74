----------------------------- MODULE SpeedtestUI -----------------------------
(***************************************************************************)
(* The web page (static/app.js): the node list and the target selection,   *)
(* the calls of the page that are in flight, and the speed-test engine,    *)
(* which measures a node or the centre directly from the browser.          *)
(*                                                                         *)
(* JavaScript runs to the next await without interruption, so an action    *)
(* is the code between two awaits.  Calls are answered in any order, and   *)
(* the user may act at any of these points.  Rates, latencies, progress,   *)
(* texts and the drawing of the page are left out, and so is the health    *)
(* button: what it leaves behind in the page is a refresh.                 *)
(***************************************************************************)
EXTENDS Naturals, Sequences, FiniteSets

CONSTANTS MaxId,            \* bound: the largest node id
          Direct,           \* the target "direct": the centre itself
          NoTarget,         \* the target ""
          CentralSpeedtest, \* ENABLE_CENTRAL_SPEEDTEST of the centre
          Calls,            \* bound: calls of the page in flight at a time
          Runs,             \* bound: activations of engine.run at a time
          NoRun,            \* the engine has not been started yet
          MaxPending,       \* bound: calls and activations at a time
          MaxTests,         \* bound: tests started
          MaxChanges        \* bound: changes of the node table

Ids == 1..MaxId
Targets == Ids \cup {Direct, NoTarget}

ASSUME UIBoundsAssumption ==
    /\ MaxId \in Nat \ {0} /\ MaxTests \in Nat /\ MaxChanges \in Nat
    /\ MaxPending \in Nat /\ Calls # {}
ASSUME CentralSpeedtestAssumption == CentralSpeedtest \in BOOLEAN
ASSUME TargetsAssumption ==
    Direct # NoTarget /\ Direct \notin Ids /\ NoTarget \notin Ids
ASSUME NoRunAssumption == NoRun \notin Runs

VARIABLES table,        \* the centre's nodes: id -> enabled
          sequence,     \* the largest id ever assigned
          page,         \* state.* and the selection box
          call,         \* the calls in flight: slot -> call
          engine,       \* the fields of the one SpeedtestEngine
          run,          \* the activations of run(): slot -> its local state
          history,      \* state.history, newest first
          tests,        \* how many tests were started
          changes       \* how many changes of the table were asked for

pageVars == <<table, sequence, page, call, changes>>
engineVars == <<engine, run, history, tests>>
uiVars == <<pageVars, engineVars>>

Nodes == UNION {[S -> BOOLEAN] : S \in SUBSET Ids}
NoNodes == [id \in {} |-> FALSE]
Enabled(nodes) == {id \in DOMAIN nodes : nodes[id]}
Least(S) == CHOOSE n \in S : \A m \in S : n <= m

Changes == {"enable", "disable", "delete", "register"}

Call == [kind  : {"config", "list"} \cup Changes,
         id    : Targets,   \* the node meant; for a list, the one to select then
         state : {"sent", "answered", "failed"},
         nodes : Nodes]     \* data.nodes of an answered list

Sent(kind, id) ==
    [kind |-> kind, id |-> id, state |-> "sent", nodes |-> NoNodes]

-----------------------------------------------------------------------------
(* The selection.                                                          *)

\* selectNode: a select element shows nothing when its value is no option.
Selected(p, target) ==
    [p EXCEPT !.selectedTarget = target,
              !.shown = IF target \in p.options THEN target ELSE NoTarget]

\* The options the select element gets: the centre first, then the enabled nodes.
Offered(p) ==
    (IF p.enableCentralSpeedtest THEN {Direct} ELSE {}) \cup Enabled(p.nodes)

\* The option a select element shows after its options were replaced.
FirstOption(options) ==
    IF Direct \in options THEN Direct
    ELSE IF options = {} THEN NoTarget ELSE Least(options)

\* Seeded fault: the value of the select element is not looked at.
RenderedUnchecked(p) == [p EXCEPT !.options = Offered(p)]

\* Seeded fault: the first active node is shown but not selected.
RenderedUnselected(p) ==
    [p EXCEPT !.options = Offered(p),
              !.shown = IF @ \in Offered(p) THEN @ ELSE FirstOption(Offered(p))]

\* renderNodeSelect: the shown option stays if it still exists.  If not, the
\* first active node is selected when the centre is not offered, and otherwise
\* the element falls back to its first option by itself.
Rendered(p) ==
    LET q == [p EXCEPT !.options = Offered(p),
                       !.shown = FirstOption(Offered(p))]
    IN IF p.shown \in Offered(p) THEN [q EXCEPT !.shown = p.shown]
       ELSE IF ~p.enableCentralSpeedtest /\ Enabled(p.nodes) # {}
       THEN Selected(q, Least(Enabled(p.nodes)))
       ELSE q

\* The target selected when the selected node has been deleted; state.nodes may
\* still hold the deleted node.
AfterDelete(p) ==
    IF p.enableCentralSpeedtest THEN Direct
    ELSE IF DOMAIN p.nodes = {} THEN NoTarget ELSE Least(DOMAIN p.nodes)

-----------------------------------------------------------------------------
(* The calls of the page and their answers.                                *)

\* A bound of the model: the user does not start more at a time.
Room == Cardinality(DOMAIN call) + Cardinality(DOMAIN run) < MaxPending

NextCall == CHOOSE c \in Calls : c \notin DOMAIN call

WithCall(new) ==
    /\ DOMAIN call # Calls
    /\ call' = [c \in DOMAIN call \cup {NextCall} |->
                  IF c \in DOMAIN call THEN call[c] ELSE new]

WithoutCall(c) == [d \in DOMAIN call \ {c} |-> call[d]]

Change == changes < MaxChanges /\ changes' = changes + 1

\* The refresh button.
Refresh ==
    /\ Room
    /\ WithCall(Sent("list", NoTarget))
    /\ UNCHANGED <<table, sequence, page, changes, engineVars>>

\* handleNodeAction on a node of the list, as it was when the list was loaded;
\* registerNewNode.
ChangeTable ==
    /\ Room
    /\ Change
    /\ \/ \E id \in DOMAIN page.nodes :
             \/ WithCall(Sent(IF page.nodes[id] THEN "disable" ELSE "enable", id))
             \/ WithCall(Sent("delete", id))
       \/ WithCall(Sent("register", NoTarget))
    /\ UNCHANGED <<table, sequence, page, engineVars>>

\* The effect of a change on the table: on a node that exists, or a new one.
\* Registering a known address gives the id of its row, which becomes enabled.
Applied(kind, id) ==
    /\ table' = CASE kind = "delete" -> [i \in DOMAIN table \ {id} |-> table[i]]
                  [] kind = "register" -> [i \in DOMAIN table \cup {id} |->
                                             i = id \/ table[i]]
                  [] OTHER -> [table EXCEPT ![id] = kind = "enable"]
    /\ \/ id \in DOMAIN table /\ UNCHANGED sequence
       \/ kind = "register" /\ id = sequence + 1 /\ sequence' = id

\* Another administrator, or an agent that registers itself.
ChangeElsewhere ==
    /\ Change
    /\ \E kind \in Changes, id \in Ids : Applied(kind, id)
    /\ UNCHANGED <<page, call, engineVars>>

\* The centre serves a call, at any time after it was made.
Serve(c) ==
    /\ c \in DOMAIN call
    /\ call[c].state = "sent"
    /\ \/ /\ call[c].kind = "config"
          /\ call' = [call EXCEPT ![c].state = "answered"]
          /\ UNCHANGED <<table, sequence>>
       \/ /\ call[c].kind = "list"
          /\ call' = [call EXCEPT ![c].state = "answered", ![c].nodes = table]
          /\ UNCHANGED <<table, sequence>>
       \/ /\ call[c].kind \in Changes
          /\ \E id \in Ids :
                /\ call[c].kind # "register" => id = call[c].id
                /\ Applied(call[c].kind, id)
                /\ call' = [call EXCEPT ![c].state = "answered", ![c].id = id]
    /\ UNCHANGED <<page, changes, engineVars>>

\* The call fails: refused (no or a wrong token, the node is gone), or its
\* answer is lost after it was served.
Fail(c) ==
    /\ c \in DOMAIN call
    /\ call[c].state # "failed"
    /\ call' = [call EXCEPT ![c].state = "failed"]
    /\ UNCHANGED <<table, sequence, page, changes, engineVars>>

\* refreshNodes after its await: a failure renders the old list again.
ReceiveList(c) ==
    LET nodes == IF call[c].state = "answered" THEN call[c].nodes ELSE page.nodes
        fresh == Rendered([page EXCEPT !.nodes = nodes])
    IN /\ call[c].kind = "list"
       /\ page' = IF call[c].id = NoTarget THEN fresh
                  ELSE Selected(fresh, call[c].id)
       /\ call' = WithoutCall(c)

\* The start of the page: a failed /api/config counts as enabled.
ReceiveConfig(c) ==
    /\ call[c].kind = "config"
    /\ page' = [page EXCEPT !.enableCentralSpeedtest =
                   call[c].state = "failed" \/ CentralSpeedtest]
    /\ call' = [call EXCEPT ![c] = Sent("list", NoTarget)]

\* A change succeeded: the list is loaded again, and a node just registered is
\* selected after that, whether or not it could be loaded.
ReceiveChange(c) ==
    /\ call[c].kind \in Changes
    /\ IF call[c].state = "failed"
       THEN UNCHANGED page /\ call' = WithoutCall(c)
       ELSE /\ call' = [call EXCEPT ![c] =
                  Sent("list", IF @.kind = "register" THEN @.id ELSE NoTarget)]
            /\ page' = IF /\ call[c].kind = "delete"
                          /\ page.selectedTarget = call[c].id
                       THEN Selected(page, AfterDelete(page)) ELSE page

Receive(c) ==
    /\ c \in DOMAIN call
    /\ call[c].state # "sent"
    /\ ReceiveList(c) \/ ReceiveConfig(c) \/ ReceiveChange(c)
    /\ UNCHANGED <<table, sequence, changes, engineVars>>

\* The selection box, the button that picks the node with the lowest latency
\* (some enabled node, or none is known to be online), the language button.
Select ==
    /\ \/ \E target \in page.options : page' = Selected(page, target)
       \/ \E id \in Enabled(page.nodes) : page' = Selected(page, id)
       \/ page.enableCentralSpeedtest /\ page' = Selected(page, Direct)
       \/ page' = Rendered(page)
    /\ UNCHANGED <<table, sequence, call, changes, engineVars>>

-----------------------------------------------------------------------------
(* The engine.                                                             *)

Run == [await      : {"ping", "pause", "download", "read", "cancel", "upload"},
        targetId   : Targets,               \* testSummary.targetId
        targetName : Ids \cup {Direct},     \* testSummary.targetName
        contacted  : SUBSET (Ids \cup {Direct}),
        aborted    : BOOLEAN]               \* its abort controller's signal

Engine == [isTesting       : BOOLEAN,                   \* state.isTesting
           nodeObj         : Ids \cup {Direct},         \* Direct: no node
           abortController : Runs \cup {NoRun}]         \* the run it belongs to

\* What the engine sends its requests to when target is tested: the node, if it
\* is in the list, and otherwise the centre.
NodeObj(target) == IF target \in DOMAIN page.nodes THEN target ELSE Direct

WithoutRun(r) == [q \in DOMAIN run \ {r} |-> run[q]]

\* Seeded fault: a second test may be started while one is running.
MayStartAnyway == TRUE

MayStart == ~engine.isTesting

\* startSpeedtest and engine.run up to its first await: nothing happens while a
\* test is running.
Start(target) ==
    IF ~MayStart THEN UNCHANGED <<engine, run, tests>>
    ELSE /\ Room /\ tests < MaxTests /\ tests' = tests + 1
         /\ \E r \in Runs \ DOMAIN run :
               /\ engine' = [isTesting |-> TRUE, nodeObj |-> NodeObj(target),
                             abortController |-> r]
               /\ run' = [q \in DOMAIN run \cup {r} |->
                     IF q \in DOMAIN run THEN run[q]
                     ELSE [await |-> "ping", targetId |-> target,
                           targetName |-> NodeObj(target),
                           contacted |-> {NodeObj(target)}, aborted |-> FALSE]]

\* The start buttons; the buttons in the rows of the node list and of the
\* history, which select their target first.
StartTest ==
    /\ \/ Start(page.selectedTarget) /\ UNCHANGED page
       \/ \E target \in DOMAIN page.nodes
                           \cup {history[i].targetId : i \in DOMAIN history} :
             page' = Selected(page, target) /\ Start(target)
    /\ UNCHANGED <<table, sequence, call, changes, history>>

\* The cancel button, which is there while a test is running.
Abort ==
    /\ engine.abortController \in DOMAIN run
    /\ run' = [run EXCEPT ![engine.abortController].aborted = TRUE]
    /\ UNCHANGED <<pageVars, engine, history, tests>>

\* Every way out of run() ends with finishTest.
End(r) ==
    /\ run' = WithoutRun(r)
    /\ engine' = [engine EXCEPT !.isTesting = FALSE]

\* Seeded fault: the uploads are fetched without the signal.
AwaitsSignalButUpload(r) == run[r].await \in {"ping", "download", "read"}

\* Seeded fault: the pings are fetched without the signal.
AwaitsSignalButPing(r) == run[r].await \in {"download", "read", "upload"}

\* The awaits that the abort of the run's signal rejects: the fetches and reads,
\* but not the pause after a ping or the cancellation of the last download.
AwaitsSignal(r) == run[r].await \in {"ping", "download", "read", "upload"}

\* The next await of run r, in a phase that has been entered before.
Awaits(r, await) ==
    /\ run' = [run EXCEPT ![r].await = await]
    /\ UNCHANGED engine

\* A phase starts: its URL is made from the engine's nodeObj.
Enters(r, phase) ==
    /\ run' = [run EXCEPT ![r].await = phase,
                          ![r].contacted = @ \cup {engine.nodeObj}]
    /\ UNCHANGED engine

\* The network lets run r go on: the node or the centre answered 2xx (or 204), a
\* chunk or the end of the stream was read.  The choices are "once more", or
\* that the count or the time of the phase has been reached.
Proceed(r) ==
    /\ r \in DOMAIN run
    /\ ~(run[r].aborted /\ AwaitsSignal(r))
    /\ \/ run[r].await = "ping" /\ Awaits(r, "pause")
       \/ run[r].await = "download" /\ Awaits(r, "read")
       \/ /\ run[r].await = "read"
          /\ Awaits(r, "download") \/ Awaits(r, "cancel") \/ Enters(r, "upload")
    /\ UNCHANGED <<pageVars, history, tests>>

\* The last upload was answered after the time was up: the run is complete, its
\* result is saved, and the list is loaded again if a node was tested.
Finish(r) ==
    /\ r \in DOMAIN run
    /\ run[r].await = "upload"
    /\ ~(run[r].aborted /\ AwaitsSignal(r))
    /\ history' = <<[targetId |-> run[r].targetId,
                     targetName |-> run[r].targetName,
                     contacted |-> run[r].contacted]>> \o history
    /\ End(r)
    /\ IF engine.nodeObj = Direct THEN UNCHANGED call
                                  ELSE WithCall(Sent("list", NoTarget))
    /\ UNCHANGED <<table, sequence, page, changes, tests>>

\* The pause after a ping or the cancellation of a download is over: the next
\* turn of the loop, or the next phase, first looks at the signal.
WakeUp(r) ==
    /\ r \in DOMAIN run
    /\ run[r].await \in {"pause", "cancel"}
    /\ \/ run[r].aborted /\ End(r)
       \/ /\ ~run[r].aborted
          /\ \/ run[r].await = "pause" /\ Awaits(r, "ping")
             \/ run[r].await = "pause" /\ Enters(r, "download")
             \/ run[r].await = "cancel" /\ Enters(r, "upload")
    /\ UNCHANGED <<pageVars, history, tests>>

\* The abort rejects what the run awaits.
Interrupt(r) ==
    /\ r \in DOMAIN run
    /\ run[r].aborted /\ AwaitsSignal(r)
    /\ End(r)
    /\ UNCHANGED <<pageVars, history, tests>>

\* The connection breaks or the status is not 2xx: the error is shown.
NetworkError(r) ==
    /\ r \in DOMAIN run
    /\ run[r].await # "pause"
    /\ End(r)
    /\ UNCHANGED <<pageVars, history, tests>>

-----------------------------------------------------------------------------

UIInit ==
    /\ table \in Nodes
    /\ sequence = MaxId - 1 /\ DOMAIN table \subseteq 1..sequence
    /\ page = [enableCentralSpeedtest |-> TRUE, nodes |-> NoNodes,
               selectedTarget |-> Direct, shown |-> Direct, options |-> {Direct}]
    /\ \E c \in Calls : call = [d \in {c} |-> Sent("config", NoTarget)]
    /\ engine = [isTesting |-> FALSE, nodeObj |-> Direct,
                 abortController |-> NoRun]
    /\ run = [r \in {} |-> {}]
    /\ history = <<>>
    /\ tests = 0
    /\ changes = 0

EngineStep(r) == Proceed(r) \/ Finish(r) \/ WakeUp(r) \/ Interrupt(r) \/ NetworkError(r)

UINext ==
    \/ Refresh \/ ChangeTable \/ ChangeElsewhere \/ Select
    \/ \E c \in Calls : Serve(c) \/ Fail(c) \/ Receive(c)
    \/ StartTest \/ Abort
    \/ \E r \in Runs : EngineStep(r)

UISpec == UIInit /\ [][UINext]_uiVars

\* Timers fire, a cancelled stream is closed, and an aborted fetch is rejected.
\* Nothing is assumed of the network or of the user.
UIFairness == \A r \in Runs : WF_uiVars(WakeUp(r)) /\ WF_uiVars(Interrupt(r))

FairUISpec == UISpec /\ UIFairness

-----------------------------------------------------------------------------
(* Properties.                                                             *)

\* Types; the selection box shows one of its options or nothing, the list never
\* names an id the centre has not assigned, and the engine is testing exactly
\* while an activation of run() is under way.
UITypeOK ==
    /\ table \in Nodes /\ sequence \in 0..MaxId
    /\ DOMAIN table \cup DOMAIN page.nodes \subseteq 1..sequence
    /\ page \in [enableCentralSpeedtest : BOOLEAN, nodes : Nodes,
                 selectedTarget : Targets, shown : Targets,
                 options : SUBSET (Ids \cup {Direct})]
    /\ page.shown \in page.options \cup {NoTarget}
    /\ DOMAIN call \subseteq Calls /\ call \in [DOMAIN call -> Call]
    /\ engine \in Engine
    /\ DOMAIN run \subseteq Runs /\ run \in [DOMAIN run -> Run]
    /\ engine.isTesting <=> DOMAIN run # {}
    /\ tests \in 0..MaxTests /\ changes \in 0..MaxChanges

\* When the selection box shows a node, that node is the one a test started now
\* is for, whatever lists, deletions, registrations and configuration arrived
\* and in whatever order.  (The box may fall back to "direct" by itself.)
ShownNodeIsSelected == page.shown \in {NoTarget, Direct, page.selectedTarget}

\* A result in the history names the one endpoint that all three of its phases
\* measured, although the list, the selection and the engine's fields may have
\* been used for something else while the test was running.
ResultsAreOfOneTarget ==
    \A i \in DOMAIN history : history[i].contacted = {history[i].targetName}

\* A test whose cancel button was pressed never leaves a result, wherever the
\* cancellation caught it.
CancelledNotRecorded ==
    [][\A r \in DOMAIN run :
          run[r].aborted /\ r \notin DOMAIN run' => history' = history]_uiVars

\* Cancelling ends the test even if the node never answers again, and the
\* engine can be started afterwards.
CancelEnds ==
    \A r \in Runs : r \in DOMAIN run /\ run[r].aborted ~> ~engine.isTesting

\* static/app.js:1158 of the repository: the engine requests the node's own
\* address.  A test of a node measures that node.
NodeTestsMeasureTheNode ==
    \A i \in DOMAIN history :
       history[i].targetId # Direct => history[i].contacted = {history[i].targetId}
=============================================================================
