------------------------------ MODULE PageProofs ------------------------------
(***************************************************************************)
(* Theorems about the web page: SpeedtestUI, for any number of nodes,      *)
(* calls, activations and tests, and TestHistory, for any number of tabs   *)
(* and records.  Whatever order answers, changes and cancellations come    *)
(* in, the selection box tells the truth about nodes, a result is of one   *)
(* endpoint, and a cancelled test leaves none; however the tabs overwrite  *)
(* one another's copy, the stored history stays proper and loses nothing   *)
(* that the writing tab shows.                                             *)
(***************************************************************************)
EXTENDS SpeedtestUI, TestHistory, WellFoundedInduction, SequenceTheorems, TLAPS

USE UIBoundsAssumption, CentralSpeedtestAssumption, TargetsAssumption,
    NoRunAssumption

Page == [enableCentralSpeedtest : BOOLEAN, nodes : Nodes,
         selectedTarget : Targets, shown : Targets,
         options : SUBSET (Ids \cup {Direct})]

TableSound ==
    /\ table \in Nodes
    /\ sequence \in 0..MaxId
    /\ DOMAIN table \subseteq 1..sequence
    /\ changes \in 0..MaxChanges

\* A page that shows an option or nothing, no node but the selected one, and
\* lists only ids up to last.
GoodPage(p, last) ==
    /\ p \in Page
    /\ DOMAIN p.nodes \subseteq 1..last
    /\ p.shown \in p.options \cup {NoTarget}
    /\ p.shown \in {NoTarget, Direct, p.selectedTarget}

\* A call whose list, if any, is of a table that has been.
GoodCall(x, last) == x \in Call /\ DOMAIN x.nodes \subseteq 1..last

CallsSound ==
    /\ DOMAIN call \subseteq Calls
    /\ call = [c \in DOMAIN call |-> call[c]]
    /\ \A c \in DOMAIN call : GoodCall(call[c], sequence)

\* A run has contacted what the engine measures now and nothing else.
OnTarget(x, nodeObj) ==
    x \in Run /\ x.contacted = {x.targetName} /\ x.targetName = nodeObj

\* There is at most one activation of run(), and the engine's fields are its.
RunsSound ==
    /\ engine \in Engine
    /\ DOMAIN run \subseteq Runs
    /\ run = [r \in DOMAIN run |-> run[r]]
    /\ \A r \in DOMAIN run : OnTarget(run[r], engine.nodeObj)
    /\ \A q, r \in DOMAIN run : q = r
    /\ engine.isTesting <=> DOMAIN run # {}
    /\ tests \in 0..MaxTests

Result == [targetId : Targets, targetName : Ids \cup {Direct},
           contacted : SUBSET (Ids \cup {Direct})]

HistorySound ==
    /\ history \in Seq(Result)
    /\ ResultsAreOfOneTarget

\* The inductive invariant.
UIInv ==
    /\ TableSound
    /\ GoodPage(page, sequence)
    /\ CallsSound
    /\ RunsSound
    /\ HistorySound

-----------------------------------------------------------------------------
(* Operators.                                                              *)

\* A list of nodes is a function from some ids to the switch.
LEMMA NodesAreFunctions ==
    ASSUME NEW f
    PROVE  f \in Nodes <=> /\ DOMAIN f \subseteq Ids
                           /\ f \in [DOMAIN f -> BOOLEAN]
  BY DEF Nodes

\* The first of some ids is one of them.
LEMMA LeastIsOneOfThem ==
    ASSUME NEW S, S \subseteq Ids, S # {}
    PROVE  Least(S) \in S
<1>1. S \subseteq Nat
  BY DEF Ids
<1>2. PICK n \in S : \A m \in S : ~(<<m, n>> \in OpToRel(<, Nat))
  BY <1>1, NatLessThanWellFounded, WFMin
<1>3. ASSUME NEW m \in S, m < n
      PROVE  FALSE
  <2>1. <<m, n>> \in Nat \X Nat /\ <<m, n>>[1] < <<m, n>>[2]
    BY <1>1, <1>3
  <2>2. <<m, n>> \in OpToRel(<, Nat)
    BY <2>1, Zenon DEF OpToRel
  <2> QED
    BY <1>2, <2>2
<1>4. \A m \in S : n <= m
  BY <1>1, <1>3
<1> QED
  BY <1>4 DEF Least

\* The options of the selection box are the centre and ids.
LEMMA OptionsTyped ==
    ASSUME NEW p \in Page
    PROVE  Enabled(p.nodes) \subseteq Ids /\ Offered(p) \subseteq Ids \cup {Direct}
  BY NodesAreFunctions DEF Page, Enabled, Offered

\* Selecting keeps the page good.
LEMMA SelectedIsGood ==
    ASSUME NEW p, NEW last, GoodPage(p, last), NEW target \in Targets
    PROVE  GoodPage(Selected(p, target), last)
  BY DEF GoodPage, Page, Selected, Targets

\* Another list keeps the page good.
LEMMA RelistedIsGood ==
    ASSUME NEW p, NEW last, GoodPage(p, last),
           NEW nodes \in Nodes, DOMAIN nodes \subseteq 1..last
    PROVE  GoodPage([p EXCEPT !.nodes = nodes], last)
  BY DEF GoodPage, Page

\* Giving the box its options anew keeps the page good: what it falls back to is
\* the centre or selected, too.
LEMMA RenderedIsGood ==
    ASSUME NEW p, NEW last, GoodPage(p, last)
    PROVE  GoodPage(Rendered(p), last)
<1> DEFINE options == Offered(p)
           first == FirstOption(options)
           q == [p EXCEPT !.options = options, !.shown = first]
<1>1. p \in Page /\ options \subseteq Ids \cup {Direct} /\ Enabled(p.nodes) \subseteq Ids
  BY OptionsTyped DEF GoodPage
<1>2. first \in options \cup {NoTarget}
  BY <1>1, LeastIsOneOfThem DEF FirstOption
<1>3. q \in Page /\ q.nodes = p.nodes /\ q.options = options /\ q.shown = first
      /\ q.selectedTarget = p.selectedTarget
  BY <1>1, <1>2 DEF Page, Targets
<1>4. CASE p.shown \in Offered(p)
  <2>1. Rendered(p) = [q EXCEPT !.shown = p.shown]
    BY <1>4 DEF Rendered
  <2> HIDE DEF q
  <2> QED
    BY <1>3, <1>4, <2>1 DEF GoodPage, Page
<1>5. CASE /\ p.shown \notin Offered(p)
           /\ ~p.enableCentralSpeedtest /\ Enabled(p.nodes) # {}
  <2> DEFINE least == Least(Enabled(p.nodes))
  <2>1. Rendered(p) = Selected(q, least)
    BY <1>5 DEF Rendered
  <2>2. least \in Targets
    BY <1>1, <1>5, LeastIsOneOfThem DEF Targets
  <2> HIDE DEF q, least
  <2> QED
    BY <1>3, <2>1, <2>2 DEF GoodPage, Page, Selected, Targets
<1>6. CASE /\ p.shown \notin Offered(p)
           /\ p.enableCentralSpeedtest \/ Enabled(p.nodes) = {}
  <2>1. Rendered(p) = q
    BY <1>6 DEF Rendered
  <2>2. first \in {NoTarget, Direct}
    BY <1>6 DEF Offered, FirstOption
  <2> HIDE DEF q
  <2> QED
    BY <1>2, <1>3, <2>1, <2>2 DEF GoodPage
<1> QED
  BY <1>4, <1>5, <1>6

\* A good page, call or list stays so when more ids have been assigned.
LEMMA LaterIsGood ==
    ASSUME NEW last \in Nat, NEW later \in Nat, last <= later
    PROVE  /\ \A p : GoodPage(p, last) => GoodPage(p, later)
           /\ \A x : GoodCall(x, last) => GoodCall(x, later)
  BY DEF GoodPage, GoodCall

\* A call that was just made.
LEMMA SentIsGood ==
    ASSUME NEW kind \in {"config", "list"} \cup Changes, NEW id \in Targets,
           NEW last
    PROVE  GoodCall(Sent(kind, id), last)
<1>1. NoNodes \in Nodes /\ DOMAIN NoNodes = {}
  BY NodesAreFunctions DEF NoNodes
<1> QED
  BY <1>1 DEF GoodCall, Sent, Call

\* Making a call.
LEMMA WithCallKeeps ==
    ASSUME CallsSound, NEW new, GoodCall(new, sequence), WithCall(new),
           sequence' = sequence
    PROVE  CallsSound'
<1>1. NextCall \in Calls
  BY DEF NextCall, CallsSound, WithCall
<1> QED
  BY <1>1 DEF CallsSound, WithCall

\* Being done with a call.
LEMMA WithoutCallKeeps ==
    ASSUME CallsSound, NEW c, call' = WithoutCall(c), sequence' = sequence
    PROVE  CallsSound'
  BY DEF CallsSound, WithoutCall

\* Replacing a call.
LEMMA ReplacedCallKeeps ==
    ASSUME CallsSound, NEW c \in DOMAIN call, NEW new, GoodCall(new, sequence),
           call' = [call EXCEPT ![c] = new], sequence' = sequence
    PROVE  CallsSound'
  BY DEF CallsSound

-----------------------------------------------------------------------------
(* Steps of the page.                                                      *)

\* The engine is not concerned by what happens to the page.
LEMMA EngineUntouched ==
    ASSUME RunsSound, HistorySound, UNCHANGED engineVars
    PROVE  RunsSound' /\ HistorySound'
  BY DEF RunsSound, HistorySound, ResultsAreOfOneTarget, engineVars

\* A change of the table: it names assigned ids only, also those it assigns.
LEMMA AppliedKeeps ==
    ASSUME TableSound, NEW kind \in Changes, NEW id \in Ids, Applied(kind, id),
           changes' \in 0..MaxChanges
    PROVE  TableSound' /\ sequence <= sequence'
<1>1. sequence' \in 0..MaxId /\ sequence <= sequence' /\ id \in 1..sequence'
      /\ (kind = "register" \/ id \in DOMAIN table)
  BY DEF Applied, TableSound, Ids
<1>2. DOMAIN table \subseteq Ids /\ table \in [DOMAIN table -> BOOLEAN]
  BY NodesAreFunctions DEF TableSound
<1>3. CASE kind = "delete"
  <2>1. table' = [i \in DOMAIN table \ {id} |-> table[i]]
    BY <1>3 DEF Applied
  <2>2. DOMAIN table' \subseteq DOMAIN table /\ table' \in [DOMAIN table' -> BOOLEAN]
    BY <2>1, <1>2
  <2> QED
    BY <1>1, <1>2, <2>2, NodesAreFunctions DEF TableSound
<1>4. CASE kind = "register"
  <2>1. table' = [i \in DOMAIN table \cup {id} |-> i = id \/ table[i]]
    BY <1>4 DEF Applied
  <2>2. DOMAIN table' = DOMAIN table \cup {id} /\ table' \in [DOMAIN table' -> BOOLEAN]
    BY <2>1, <1>2
  <2> QED
    BY <1>1, <1>2, <2>2, NodesAreFunctions DEF TableSound
<1>5. CASE kind \in {"enable", "disable"}
  <2>1. table' = [table EXCEPT ![id] = kind = "enable"]
    BY <1>5 DEF Applied
  <2>2. DOMAIN table' = DOMAIN table /\ table' \in [DOMAIN table' -> BOOLEAN]
    BY <2>1, <1>2
  <2> QED
    BY <1>1, <1>2, <2>2, NodesAreFunctions DEF TableSound
<1> QED
  BY <1>3, <1>4, <1>5 DEF Changes

\* Asking for the list.
LEMMA RefreshStep ==
    ASSUME UIInv, Refresh
    PROVE  UIInv'
<1>1. GoodCall(Sent("list", NoTarget), sequence)
  BY SentIsGood DEF Targets
<1>2. CallsSound'
  BY <1>1, WithCallKeeps DEF UIInv, Refresh
<1> QED
  BY <1>2, EngineUntouched DEF UIInv, Refresh, TableSound

\* Asking for a change.
LEMMA ChangeTableStep ==
    ASSUME UIInv, ChangeTable
    PROVE  UIInv'
<1>1. changes' \in 0..MaxChanges
      /\ UNCHANGED <<table, sequence, page, engineVars>>
  BY DEF UIInv, TableSound, ChangeTable, Change
<1>2. DOMAIN page.nodes \subseteq Targets
  BY NodesAreFunctions DEF UIInv, GoodPage, Page, Targets
<1>3. PICK kind \in Changes, id \in Targets : WithCall(Sent(kind, id))
  BY <1>2 DEF ChangeTable, Changes, Targets
<1>4. GoodCall(Sent(kind, id), sequence)
  BY SentIsGood
<1>5. CallsSound'
  BY <1>1, <1>3, <1>4, WithCallKeeps DEF UIInv
<1> QED
  BY <1>1, <1>5, EngineUntouched DEF UIInv, TableSound

\* Someone else changes the table.
LEMMA ChangeElsewhereStep ==
    ASSUME UIInv, ChangeElsewhere
    PROVE  UIInv'
<1>1. changes' \in 0..MaxChanges /\ UNCHANGED <<page, call, engineVars>>
  BY DEF UIInv, TableSound, ChangeElsewhere, Change
<1>2. PICK kind \in Changes, id \in Ids : Applied(kind, id)
  BY DEF ChangeElsewhere
<1>3. TableSound' /\ sequence <= sequence'
  BY <1>1, <1>2, AppliedKeeps DEF UIInv
<1>4. sequence \in Nat /\ sequence' \in Nat
  BY <1>3 DEF UIInv, TableSound
<1>5. GoodPage(page, sequence') /\ \A c \in DOMAIN call : GoodCall(call[c], sequence')
  BY <1>3, <1>4, LaterIsGood DEF UIInv, CallsSound
<1> QED
  BY <1>1, <1>3, <1>5, EngineUntouched DEF UIInv, CallsSound

\* The centre serves a call.
LEMMA ServeStep ==
    ASSUME UIInv, NEW c \in Calls, Serve(c)
    PROVE  UIInv'
<1>1. UNCHANGED <<page, changes, engineVars>> /\ c \in DOMAIN call
  BY DEF Serve
<1>2. GoodCall(call[c], sequence)
  BY <1>1 DEF UIInv, CallsSound
<1>3. CASE UNCHANGED <<table, sequence>>
           /\ call' = [call EXCEPT ![c].state = "answered"]
  <2> DEFINE new == [call[c] EXCEPT !.state = "answered"]
  <2>1. GoodCall(new, sequence) /\ call' = [call EXCEPT ![c] = new]
    BY <1>2, <1>3 DEF GoodCall, Call
  <2> HIDE DEF new
  <2>2. CallsSound'
    BY <1>1, <1>3, <2>1, ReplacedCallKeeps DEF UIInv
  <2> QED
    BY <1>1, <1>3, <2>2, EngineUntouched DEF UIInv, TableSound
<1>4. CASE UNCHANGED <<table, sequence>>
           /\ call' = [call EXCEPT ![c].state = "answered", ![c].nodes = table]
  <2> DEFINE new == [call[c] EXCEPT !.state = "answered", !.nodes = table]
  <2>1. GoodCall(new, sequence) /\ call' = [call EXCEPT ![c] = new]
    BY <1>2, <1>4 DEF GoodCall, Call, UIInv, TableSound, CallsSound
  <2> HIDE DEF new
  <2>2. CallsSound'
    BY <1>1, <1>4, <2>1, ReplacedCallKeeps DEF UIInv
  <2> QED
    BY <1>1, <1>4, <2>2, EngineUntouched DEF UIInv, TableSound
<1>5. ASSUME call[c].kind \in Changes, NEW id \in Ids, Applied(call[c].kind, id),
             call' = [call EXCEPT ![c].state = "answered", ![c].id = id]
      PROVE  UIInv'
  <2>1. TableSound' /\ sequence <= sequence'
    BY <1>1, <1>5, AppliedKeeps DEF UIInv, TableSound
  <2>2. sequence \in Nat /\ sequence' \in Nat
    BY <2>1 DEF UIInv, TableSound
  <2>3. GoodPage(page, sequence') /\ \A d \in DOMAIN call : GoodCall(call[d], sequence')
    BY <2>1, <2>2, LaterIsGood DEF UIInv, CallsSound
  <2> DEFINE new == [call[c] EXCEPT !.state = "answered", !.id = id]
  <2>4. GoodCall(new, sequence')
    BY <1>1, <2>3 DEF GoodCall, Call, Targets
  <2>5. call' = [call EXCEPT ![c] = new]
    BY <1>5, <1>1, <1>2 DEF GoodCall, Call
  <2> HIDE DEF new
  <2>6. CallsSound'
    BY <1>1, <2>3, <2>4, <2>5 DEF UIInv, CallsSound
  <2> QED
    BY <1>1, <2>1, <2>3, <2>6, EngineUntouched DEF UIInv
<1> QED
  BY <1>3, <1>4, <1>5 DEF Serve

\* A call fails.
LEMMA FailStep ==
    ASSUME UIInv, NEW c \in Calls, Fail(c)
    PROVE  UIInv'
<1> DEFINE new == [call[c] EXCEPT !.state = "failed"]
<1>1. GoodCall(new, sequence) /\ call' = [call EXCEPT ![c] = new]
      /\ c \in DOMAIN call
  BY DEF UIInv, CallsSound, GoodCall, Call, Fail
<1> HIDE DEF new
<1>2. CallsSound'
  BY <1>1, ReplacedCallKeeps DEF UIInv, Fail
<1> QED
  BY <1>2, EngineUntouched DEF UIInv, TableSound, Fail

\* An answer, or a failure, reaches the page.
LEMMA ReceiveStep ==
    ASSUME UIInv, NEW c \in Calls, Receive(c)
    PROVE  UIInv'
<1>1. UNCHANGED <<table, sequence, changes, engineVars>> /\ c \in DOMAIN call
  BY DEF Receive
<1>2. GoodCall(call[c], sequence) /\ call[c].id \in Targets
      /\ call[c].nodes \in Nodes
  BY <1>1 DEF UIInv, CallsSound, GoodCall, Call
<1>3. SUFFICES CallsSound' /\ GoodPage(page', sequence)
  BY <1>1, EngineUntouched DEF UIInv, TableSound
<1>4. CASE ReceiveList(c)
  <2> DEFINE nodes == IF call[c].state = "answered" THEN call[c].nodes ELSE page.nodes
             listed == [page EXCEPT !.nodes = nodes]
             fresh == Rendered(listed)
  <2>1. nodes \in Nodes /\ DOMAIN nodes \subseteq 1..sequence
    BY <1>2 DEF UIInv, GoodPage, GoodCall, Page
  <2> HIDE DEF nodes
  <2>2. GoodPage(listed, sequence)
    BY <2>1, RelistedIsGood DEF UIInv
  <2>3. GoodPage(fresh, sequence)
    BY <2>2, RenderedIsGood
  <2>4. /\ page' = IF call[c].id = NoTarget THEN fresh
                   ELSE Selected(fresh, call[c].id)
        /\ call' = WithoutCall(c)
    BY <1>4 DEF ReceiveList, nodes
  <2> HIDE DEF fresh
  <2>5. GoodPage(page', sequence)
    BY <1>2, <2>3, <2>4, SelectedIsGood
  <2> QED
    BY <1>1, <2>4, <2>5, WithoutCallKeeps DEF UIInv
<1>5. CASE ReceiveConfig(c)
  <2>1. GoodPage(page', sequence)
    BY <1>5 DEF ReceiveConfig, UIInv, GoodPage, Page
  <2>2. GoodCall(Sent("list", NoTarget), sequence)
    BY SentIsGood DEF Targets
  <2> QED
    BY <1>1, <1>5, <2>1, <2>2, ReplacedCallKeeps DEF ReceiveConfig, UIInv
<1>6. CASE ReceiveChange(c)
  <2>1. CASE call[c].state = "failed"
    <3>1. page' = page /\ call' = WithoutCall(c)
      BY <1>6, <2>1 DEF ReceiveChange
    <3> QED
      BY <1>1, <3>1, WithoutCallKeeps DEF UIInv
  <2>2. CASE call[c].state # "failed"
    <3> DEFINE target == IF call[c].kind = "register" THEN call[c].id ELSE NoTarget
    <3>1. call' = [call EXCEPT ![c] = Sent("list", target)]
      BY <1>6, <2>2 DEF ReceiveChange
    <3>2. GoodCall(Sent("list", target), sequence)
      BY <1>2, SentIsGood DEF Targets
    <3> HIDE DEF target
    <3>3. CallsSound'
      BY <1>1, <3>1, <3>2, ReplacedCallKeeps DEF UIInv
    <3>4. AfterDelete(page) \in Targets
      <4>1. DOMAIN page.nodes \subseteq Ids
        BY NodesAreFunctions DEF UIInv, GoodPage, Page
      <4> QED
        BY <4>1, LeastIsOneOfThem DEF AfterDelete, Targets
    <3>5. GoodPage(Selected(page, AfterDelete(page)), sequence)
      BY <3>4, SelectedIsGood DEF UIInv
    <3>6. page' \in {page, Selected(page, AfterDelete(page))}
      BY <1>6, <2>2 DEF ReceiveChange
    <3> QED
      BY <3>3, <3>5, <3>6 DEF UIInv
  <2> QED
    BY <2>1, <2>2
<1> QED
  BY <1>4, <1>5, <1>6 DEF Receive

\* The user selects a target, or the box is drawn again.
LEMMA SelectStep ==
    ASSUME UIInv, Select
    PROVE  UIInv'
<1>1. page.options \subseteq Targets /\ Enabled(page.nodes) \subseteq Targets
      /\ Direct \in Targets
  BY NodesAreFunctions DEF UIInv, GoodPage, Page, Targets, Enabled
<1>2. GoodPage(page', sequence)
  BY <1>1, SelectedIsGood, RenderedIsGood DEF UIInv, Select
<1> QED
  BY <1>2, EngineUntouched DEF UIInv, Select, TableSound, CallsSound


-----------------------------------------------------------------------------
(* Steps of the engine.                                                    *)

\* The page is not concerned by what happens in the engine.
LEMMA PageUntouched ==
    ASSUME UIInv, UNCHANGED pageVars
    PROVE  TableSound' /\ GoodPage(page', sequence') /\ CallsSound'
  BY DEF UIInv, TableSound, CallsSound, pageVars

\* The history changes by a new result only.
LEMMA HistoryUntouched ==
    ASSUME HistorySound, UNCHANGED history
    PROVE  HistorySound'
  BY DEF HistorySound, ResultsAreOfOneTarget

\* What is tested is a node or the centre.
LEMMA NodeObjTyped ==
    ASSUME UIInv, NEW target \in Targets
    PROVE  NodeObj(target) \in Ids \cup {Direct}
  BY NodesAreFunctions DEF UIInv, GoodPage, Page, NodeObj

\* A test starts, unless one is running: its run is then the only one.
LEMMA StartKeeps ==
    ASSUME UIInv, NEW target \in Targets, Start(target)
    PROVE  RunsSound'
<1>1. CASE ~MayStart
  BY <1>1 DEF Start, UIInv, RunsSound
<1>2. CASE MayStart
  <2> DEFINE obj == NodeObj(target)
             first == [await |-> "ping", targetId |-> target, targetName |-> obj,
                       contacted |-> {obj}, aborted |-> FALSE]
  <2>1. obj \in Ids \cup {Direct} /\ OnTarget(first, obj)
    BY NodeObjTyped DEF OnTarget, Run
  <2>2. PICK r \in Runs \ DOMAIN run :
           /\ engine' = [isTesting |-> TRUE, nodeObj |-> obj, abortController |-> r]
           /\ run' = [q \in DOMAIN run \cup {r} |->
                        IF q \in DOMAIN run THEN run[q] ELSE first]
    BY <1>2 DEF Start
  <2>3. tests' \in 0..MaxTests
    BY <1>2 DEF Start, UIInv, RunsSound
  <2>4. DOMAIN run = {}
    BY <1>2 DEF MayStart, UIInv, RunsSound
  <2>5. engine' \in Engine /\ engine'.isTesting /\ engine'.nodeObj = obj
    BY <2>1, <2>2 DEF Engine
  <2> HIDE DEF first, obj
  <2>6. DOMAIN run' = {r} /\ run'[r] = first /\ run' = [q \in {r} |-> first]
    BY <2>2, <2>4
  <2> QED
    BY <2>1, <2>2, <2>3, <2>5, <2>6 DEF RunsSound
<1> QED
  BY <1>1, <1>2

\* A start button is pressed.
LEMMA StartTestStep ==
    ASSUME UIInv, StartTest
    PROVE  UIInv'
<1>1. UNCHANGED <<table, sequence, call, changes, history>>
  BY DEF StartTest
<1>2. ASSUME NEW i \in DOMAIN history
      PROVE  history[i].targetId \in Targets
  <2>1. history \in Seq(Result)
    BY DEF UIInv, HistorySound
  <2>2. history[i] \in Result
    BY <1>2, <2>1
  <2> QED
    BY <2>2 DEF Result
<1>3. DOMAIN page.nodes \subseteq Targets
  BY NodesAreFunctions DEF UIInv, GoodPage, Page, Targets
<1>4. PICK target \in Targets :
         Start(target) /\ page' \in {page, Selected(page, target)}
  BY <1>2, <1>3 DEF StartTest, UIInv, GoodPage, Page
<1>5. GoodPage(page', sequence)
  BY <1>4, SelectedIsGood DEF UIInv
<1>6. RunsSound'
  BY <1>4, StartKeeps
<1> QED
  BY <1>1, <1>5, <1>6, HistoryUntouched DEF UIInv, TableSound, CallsSound

\* The fields of one run change, and it is still on its target.
LEMMA RunChanges ==
    ASSUME RunsSound, NEW r \in DOMAIN run, NEW new,
           run' = [run EXCEPT ![r] = new], OnTarget(new, engine.nodeObj),
           UNCHANGED <<engine, tests>>
    PROVE  RunsSound'
  BY DEF RunsSound

\* The cancel button is pressed.
LEMMA AbortStep ==
    ASSUME UIInv, Abort
    PROVE  UIInv'
<1> DEFINE r == engine.abortController
           new == [run[r] EXCEPT !.aborted = TRUE]
<1>1. r \in DOMAIN run /\ OnTarget(run[r], engine.nodeObj)
  BY DEF Abort, UIInv, RunsSound
<1>2. OnTarget(new, engine.nodeObj) /\ run' = [run EXCEPT ![r] = new]
  BY <1>1 DEF Abort, OnTarget, Run
<1> HIDE DEF r, new
<1>3. RunsSound'
  BY <1>1, <1>2, RunChanges DEF Abort, UIInv
<1> QED
  BY <1>3, PageUntouched, HistoryUntouched DEF Abort, UIInv

\* A run goes on to its next await.
LEMMA AwaitsKeeps ==
    ASSUME RunsSound, NEW r \in DOMAIN run,
           NEW await \in {"ping", "pause", "download", "read", "cancel", "upload"},
           Awaits(r, await) \/ Enters(r, await), UNCHANGED tests
    PROVE  RunsSound'
<1>1. OnTarget(run[r], engine.nodeObj)
  BY DEF RunsSound
<1>2. CASE Awaits(r, await)
  <2> DEFINE new == [run[r] EXCEPT !.await = await]
  <2>1. OnTarget(new, engine.nodeObj) /\ run' = [run EXCEPT ![r] = new]
    BY <1>1, <1>2 DEF Awaits, OnTarget, Run
  <2> HIDE DEF new
  <2> QED
    BY <1>2, <2>1, RunChanges DEF Awaits
<1>3. CASE Enters(r, await)
  <2> DEFINE new == [run[r] EXCEPT !.await = await,
                        !.contacted = run[r].contacted \cup {engine.nodeObj}]
  <2>1. OnTarget(new, engine.nodeObj)
    BY <1>1 DEF OnTarget, Run
  <2>2. run' = [run EXCEPT ![r] = new]
    BY <1>1, <1>3 DEF Enters, OnTarget, Run
  <2> HIDE DEF new
  <2> QED
    BY <1>3, <2>1, <2>2, RunChanges DEF Enters
<1> QED
  BY <1>2, <1>3

\* The one run ends.
LEMMA EndKeeps ==
    ASSUME RunsSound, NEW r \in DOMAIN run, End(r), UNCHANGED tests
    PROVE  RunsSound'
<1>1. run' = [q \in {} |-> run[q]] /\ DOMAIN run' = {}
  BY DEF RunsSound, End, WithoutRun
<1>2. engine' \in Engine /\ ~engine'.isTesting
  BY DEF RunsSound, End, Engine
<1> QED
  BY <1>1, <1>2 DEF RunsSound

\* The network, a timer or the abort signal lets a run go on, or end.
LEMMA RunStep ==
    ASSUME UIInv, NEW r \in Runs,
           Proceed(r) \/ WakeUp(r) \/ Interrupt(r) \/ NetworkError(r)
    PROVE  UIInv'
<1>1. r \in DOMAIN run /\ UNCHANGED <<pageVars, history, tests>>
  BY DEF Proceed, WakeUp, Interrupt, NetworkError
<1>2. \/ End(r)
      \/ \E await \in {"ping", "pause", "download", "read", "cancel", "upload"} :
            Awaits(r, await) \/ Enters(r, await)
  BY DEF Proceed, WakeUp, Interrupt, NetworkError
<1>3. RunsSound'
  BY <1>1, <1>2, AwaitsKeeps, EndKeeps DEF UIInv
<1> QED
  BY <1>1, <1>3, PageUntouched, HistoryUntouched DEF UIInv

\* A run is complete: its result is of the one target it contacted.
LEMMA FinishStep ==
    ASSUME UIInv, NEW r \in Runs, Finish(r)
    PROVE  UIInv'
<1> DEFINE result == [targetId |-> run[r].targetId,
                      targetName |-> run[r].targetName,
                      contacted |-> run[r].contacted]
<1>1. r \in DOMAIN run /\ End(r) /\ history' = <<result>> \o history
      /\ UNCHANGED <<table, sequence, page, changes, tests>>
  BY DEF Finish
<1>2. OnTarget(run[r], engine.nodeObj)
  BY <1>1 DEF UIInv, RunsSound
<1>3. result \in Result /\ result.contacted = {result.targetName}
  BY <1>2 DEF OnTarget, Run, Result
<1> HIDE DEF result
<1>4. HistorySound'
  <2>1. history \in Seq(Result) /\ ResultsAreOfOneTarget
    BY DEF UIInv, HistorySound
  <2>2. history' \in Seq(Result)
    BY <1>1, <1>3, <2>1
  <2>3. ASSUME NEW i \in DOMAIN history'
        PROVE  history'[i] = result \/ \E j \in DOMAIN history : history'[i] = history[j]
    BY <1>1, <1>3, <2>1, <2>3
  <2> QED
    BY <1>3, <2>1, <2>2, <2>3 DEF HistorySound, ResultsAreOfOneTarget
<1>5. RunsSound'
  BY <1>1, EndKeeps DEF UIInv
<1>6. GoodCall(Sent("list", NoTarget), sequence)
  BY SentIsGood DEF Targets
<1>7. CallsSound'
  <2>1. CASE UNCHANGED call
    BY <1>1, <2>1 DEF UIInv, CallsSound
  <2>2. CASE WithCall(Sent("list", NoTarget))
    BY <1>1, <1>6, <2>2, WithCallKeeps DEF UIInv
  <2> QED
    BY <2>1, <2>2 DEF Finish
<1> QED
  BY <1>1, <1>4, <1>5, <1>7 DEF UIInv, TableSound

-----------------------------------------------------------------------------
(* Theorems.                                                               *)

\* The invariant holds when the page is opened.
LEMMA UIInvHoldsAtStart == UIInit => UIInv
<1> SUFFICES ASSUME UIInit PROVE UIInv
  OBVIOUS
<1>1. MaxId - 1 = sequence /\ DOMAIN table \subseteq 1..sequence /\ table \in Nodes
  BY DEF UIInit
<1>2. PICK c \in Calls : call = [d \in {c} |-> Sent("config", NoTarget)]
  BY DEF UIInit
<1>3. GoodCall(Sent("config", NoTarget), sequence)
  BY SentIsGood DEF Targets
<1>4. CallsSound
  BY <1>2, <1>3 DEF CallsSound
<1>5. NoNodes \in Nodes /\ DOMAIN NoNodes = {}
  BY NodesAreFunctions DEF NoNodes
<1>6. GoodPage(page, sequence)
  BY <1>5 DEF UIInit, GoodPage, Page, Targets
<1>7. RunsSound
  BY DEF UIInit, RunsSound, Engine
<1>8. HistorySound
  BY DEF UIInit, HistorySound, ResultsAreOfOneTarget
<1>9. TableSound
  BY <1>1 DEF UIInit, TableSound
<1> QED
  BY <1>4, <1>6, <1>7, <1>8, <1>9 DEF UIInv


\* Every step keeps the invariant.
LEMMA UIInvIsInductive == UIInv /\ [UINext]_uiVars => UIInv'
<1> SUFFICES ASSUME UIInv, [UINext]_uiVars PROVE UIInv'
  OBVIOUS
<1>1. CASE UNCHANGED uiVars
  <2>1. UNCHANGED pageVars /\ UNCHANGED engineVars
    BY <1>1 DEF uiVars
  <2> QED
    BY <2>1, PageUntouched, EngineUntouched DEF UIInv
<1>2. CASE UINext
  BY <1>2, RefreshStep, ChangeTableStep, ChangeElsewhereStep, SelectStep,
     ServeStep, FailStep, ReceiveStep, StartTestStep, AbortStep, RunStep,
     FinishStep
  DEF UINext, EngineStep
<1> QED
  BY <1>1, <1>2

\* Every reachable state satisfies the invariant.
THEOREM UIInvariantHolds == UISpec => []UIInv
  BY UIInvHoldsAtStart, UIInvIsInductive, PTL DEF UISpec

\* The variables keep their types, the page lists assigned ids only, and the
\* engine is testing exactly while an activation of run() is under way.
THEOREM UITypeCorrect == UISpec => []UITypeOK
<1>1. UIInv => UITypeOK
  <2> SUFFICES ASSUME UIInv PROVE UITypeOK
    OBVIOUS
  <2>1. call \in [DOMAIN call -> Call]
    BY DEF UIInv, CallsSound, GoodCall
  <2>2. run \in [DOMAIN run -> Run]
    BY DEF UIInv, RunsSound, OnTarget
  <2> QED
    BY <2>1, <2>2
    DEF UIInv, TableSound, GoodPage, Page, CallsSound, RunsSound, UITypeOK
<1> QED
  BY <1>1, UIInvariantHolds, PTL

\* A node in the selection box is the selected one, whatever arrived and in
\* whatever order.
THEOREM ShownIsSelected == UISpec => []ShownNodeIsSelected
<1>1. UIInv => ShownNodeIsSelected
  BY DEF UIInv, GoodPage, ShownNodeIsSelected
<1> QED
  BY <1>1, UIInvariantHolds, PTL

\* All phases of a recorded test measured the endpoint it names.
THEOREM ResultsOfOneTarget == UISpec => []ResultsAreOfOneTarget
<1>1. UIInv => ResultsAreOfOneTarget
  BY DEF UIInv, HistorySound
<1> QED
  BY <1>1, UIInvariantHolds, PTL

\* No run that was cancelled records its test: the only step that records one
\* ends a run whose last await the signal would have rejected.
THEOREM NoCancelledRecord == UISpec => CancelledNotRecorded
<1> DEFINE Discarded == \A r \in DOMAIN run :
              run[r].aborted /\ r \notin DOMAIN run' => history' = history
<1>1. ASSUME UIInv, [UINext]_uiVars
      PROVE  [Discarded]_uiVars
  <2> SUFFICES ASSUME UINext, NEW r \in DOMAIN run, run[r].aborted,
                      r \notin DOMAIN run'
               PROVE  history' = history
    BY <1>1
  <2>1. ASSUME NEW q \in Runs, Finish(q)
        PROVE  FALSE
    <3>1. q \in DOMAIN run /\ run' = WithoutRun(q)
      BY <2>1 DEF Finish, End
    <3>2. q = r
      BY <3>1 DEF WithoutRun
    <3> QED
      BY <2>1, <3>2 DEF Finish, AwaitsSignal
  <2>2. ASSUME NEW q \in Runs, EngineStep(q)
        PROVE  UNCHANGED history
    BY <2>1, <2>2 DEF EngineStep, Proceed, WakeUp, Interrupt, NetworkError
  <2>3. CASE Refresh \/ ChangeTable \/ ChangeElsewhere \/ Select
    BY <2>3 DEF Refresh, ChangeTable, ChangeElsewhere, Select, engineVars
  <2>4. ASSUME NEW c \in Calls, Serve(c) \/ Fail(c) \/ Receive(c)
        PROVE  UNCHANGED history
    BY <2>4 DEF Serve, Fail, Receive, engineVars
  <2>5. CASE StartTest \/ Abort
    BY <2>5 DEF StartTest, Abort
  <2> QED
    BY <2>2, <2>3, <2>4, <2>5 DEF UINext
<1> QED
  BY <1>1, UIInvariantHolds, PTL DEF UISpec, CancelledNotRecorded

-----------------------------------------------------------------------------
(* Lemmas about the sequences of TestHistory.                              *)

\* Removing an entry moves those after it one place down.
LEMMA RemoveAtProperties ==
    ASSUME NEW S, NEW s \in Seq(S), NEW i \in DOMAIN s
    PROVE  /\ RemoveAt(s, i) \in Seq(S)
           /\ Len(RemoveAt(s, i)) = Len(s) - 1
           /\ \A j \in 1..(Len(s) - 1) :
                 RemoveAt(s, i)[j] = IF j < i THEN s[j] ELSE s[j + 1]
  <1>1. i \in 1..Len(s) /\ Len(s) \in Nat  BY LenProperties
  <1> DEFINE a == SubSeq(s, 1, i - 1)
             b == SubSeq(s, i + 1, Len(s))
  <1>2. /\ a \in Seq(S) /\ Len(a) = i - 1
        /\ \A j \in 1..(i - 1) : a[j] = s[j]
    BY <1>1, SubSeqProperties
  <1>3. /\ b \in Seq(S) /\ Len(b) = Len(s) - i
        /\ \A j \in 1..(Len(s) - i) : b[j] = s[i + j]
    BY <1>1, SubSeqProperties
  <1>4. RemoveAt(s, i) = a \o b  BY DEF RemoveAt
  <1> HIDE DEF a, b
  <1>5. /\ a \o b \in Seq(S)
        /\ Len(a \o b) = Len(a) + Len(b)
        /\ \A j \in 1..(Len(a) + Len(b)) :
              (a \o b)[j] = IF j <= Len(a) THEN a[j] ELSE b[j - Len(a)]
    BY <1>2, <1>3, ConcatProperties
  <1>6. Len(a) + Len(b) = Len(s) - 1  BY <1>1, <1>2, <1>3
  <1>7. ASSUME NEW j \in 1..(Len(s) - 1)
        PROVE  (a \o b)[j] = IF j < i THEN s[j] ELSE s[j + 1]
    <2>1. CASE j < i
      BY <1>1, <1>2, <1>5, <1>6, <2>1
    <2>2. CASE ~(j < i)
      <3>1. /\ ~(j <= Len(a)) /\ j - Len(a) \in 1..(Len(s) - i)
            /\ i + (j - Len(a)) = j + 1
        BY <1>1, <1>2, <2>2
      <3>2. (a \o b)[j] = b[j - Len(a)]  BY <1>5, <1>6, <3>1
      <3>3. QED  BY <1>3, <2>2, <3>1, <3>2
    <2>3. QED  BY <2>1, <2>2
  <1>8. QED  BY <1>4, <1>5, <1>6, <1>7

\* A list of tests completed so far, newest first, within the limit.
Proper(s, n) ==
    /\ s \in Seq(1..n)
    /\ Len(s) <= MaxRecords
    /\ \A i, j \in DOMAIN s : i < j => s[i] > s[j]

HistoryInv ==
    /\ completed \in Nat
    /\ records \in [Tabs -> Seq(1..completed)]
    /\ Proper(ls_history, completed)
    /\ \A tab \in Tabs : Proper(records[tab], completed)

\* An empty list is proper, and a proper list stays so when tests are completed.
LEMMA ProperBasics ==
    ASSUME NEW n \in Nat
    PROVE  /\ Proper(<<>>, n)
           /\ \A s : Proper(s, n) => Proper(s, n + 1)
  <1>1. Proper(<<>>, n)
    <2>1. <<>> \in Seq(1..n) /\ Len(<<>>) = 0  BY EmptySeq
    <2>2. DOMAIN <<>> = 1..0  BY <2>1, LenProperties
    <2>3. QED  BY <2>1, <2>2, HistoryAssumption DEF Proper
  <1>2. ASSUME NEW s, Proper(s, n) PROVE Proper(s, n + 1)
    <2>1. 1..n \subseteq 1..(n + 1)  OBVIOUS
    <2>2. s \in Seq(1..(n + 1))  BY <1>2, <2>1, SeqMonotonic DEF Proper
    <2>3. QED  BY <1>2, <2>2 DEF Proper
  <1>3. QED  BY <1>1, <1>2

LEMMA RemoveIsProper ==
    ASSUME NEW n \in Nat, NEW s, Proper(s, n), NEW i \in DOMAIN s
    PROVE  Proper(RemoveAt(s, i), n)
  <1>1. s \in Seq(1..n) /\ Len(s) <= MaxRecords  BY DEF Proper
  <1>2. /\ i \in 1..Len(s) /\ Len(s) \in Nat /\ DOMAIN s = 1..Len(s)
        /\ \A j \in 1..Len(s) : s[j] \in 1..n
    BY <1>1, LenProperties
  <1> DEFINE t == RemoveAt(s, i)
  <1>3. /\ t \in Seq(1..n) /\ Len(t) = Len(s) - 1
        /\ \A j \in 1..(Len(s) - 1) : t[j] = IF j < i THEN s[j] ELSE s[j + 1]
    BY <1>1, RemoveAtProperties
  <1> HIDE DEF t
  <1>4. DOMAIN t = 1..(Len(s) - 1)  BY <1>3, LenProperties
  <1>5. ASSUME NEW j \in DOMAIN t, NEW k \in DOMAIN t, j < k
        PROVE  t[j] > t[k]
    <2> DEFINE jj == IF j < i THEN j ELSE j + 1
               kk == IF k < i THEN k ELSE k + 1
    <2>1. jj \in 1..Len(s) /\ kk \in 1..Len(s) /\ jj < kk
      BY <1>2, <1>4, <1>5
    <2>2. t[j] = s[jj] /\ t[k] = s[kk]  BY <1>3, <1>4
    <2> HIDE DEF jj, kk
    <2>3. s[jj] > s[kk]  BY <1>2, <2>1 DEF Proper
    <2>4. QED  BY <2>2, <2>3
  <1>6. Len(t) <= MaxRecords  BY <1>1, <1>2, <1>3, HistoryAssumption
  <1>7. QED  BY <1>3, <1>5, <1>6 DEF Proper, t

\* What a completed test leaves: itself in front, then what was there, without
\* the oldest record if the list was full.
LEMMA SaveProperties ==
    ASSUME NEW n \in Nat, NEW s, Proper(s, n)
    PROVE  LET t == Capped(<<n + 1>> \o s) IN
           /\ Proper(t, n + 1)
           /\ \A id \in Members(s) \ Members(t) :
                 Len(s) = MaxRecords /\ id = s[MaxRecords]
  <1> DEFINE x == <<n + 1>>
             c == x \o s
             t == Capped(c)
             m == IF Len(s) = MaxRecords THEN MaxRecords ELSE Len(s) + 1
  <1>1. /\ s \in Seq(1..(n + 1)) /\ Len(s) \in Nat /\ DOMAIN s = 1..Len(s)
        /\ Len(s) <= MaxRecords
        /\ \A j \in 1..Len(s) : s[j] \in 1..n
    <2>1. s \in Seq(1..n) /\ s \in Seq(1..(n + 1))
      BY ProperBasics DEF Proper
    <2>2. QED  BY <2>1, LenProperties DEF Proper
  <1>a. Len(s) \in Nat /\ Len(s) <= MaxRecords /\ MaxRecords \in Nat \ {0}
    BY <1>1, HistoryAssumption
  <1>2. x \in Seq(1..(n + 1)) /\ Len(x) = 1 /\ x[1] = n + 1
    OBVIOUS
  <1> HIDE DEF x
  <1>3. /\ c \in Seq(1..(n + 1)) /\ Len(c) = Len(s) + 1
        /\ \A j \in 1..(Len(s) + 1) : c[j] = IF j <= 1 THEN x[j] ELSE s[j - 1]
    <2>1. /\ c \in Seq(1..(n + 1)) /\ Len(c) = Len(x) + Len(s)
          /\ \A j \in 1..(Len(x) + Len(s)) :
                c[j] = IF j <= Len(x) THEN x[j] ELSE s[j - Len(x)]
      BY <1>1, <1>2, ConcatProperties
    <2>2. Len(x) + Len(s) = Len(s) + 1  BY <1>a, <1>2
    <2> HIDE DEF c
    <2>3. QED  BY <1>2, <2>1, <2>2
  <1> HIDE DEF c
  <1>4. /\ t \in Seq(1..(n + 1)) /\ Len(t) = m
        /\ \A j \in 1..m : t[j] = c[j]
    <2>1. CASE Len(s) = MaxRecords
      <3>1. t = SubSeq(c, 1, MaxRecords)
        <4>1. Len(c) > MaxRecords  BY <1>a, <1>3, <2>1
        <4>2. QED  BY <4>1 DEF Capped
      <3>2. \A j \in 1..MaxRecords : c[j] \in 1..(n + 1)
        BY <1>3, <2>1, LenProperties, HistoryAssumption
      <3>3. QED  BY <2>1, <3>1, <3>2, SubSeqProperties, HistoryAssumption
    <2>2. CASE Len(s) # MaxRecords
      <3>1. t = c
        <4>1. ~(Len(c) > MaxRecords)  BY <1>a, <1>3, <2>2
        <4>2. QED  BY <4>1 DEF Capped
      <3>2. QED  BY <1>3, <2>2, <3>1
    <2>3. QED  BY <2>1, <2>2
  <1> HIDE DEF t
  <1>5. /\ m \in Nat /\ m <= MaxRecords /\ m <= Len(s) + 1
        /\ m >= 1
    BY <1>a
  <1>6. Len(s) # MaxRecords => m = Len(s) + 1  OBVIOUS
  <1>7. Len(s) = MaxRecords => m = MaxRecords  OBVIOUS
  <1> HIDE DEF m
  <1>8. DOMAIN t = 1..m  BY <1>4, LenProperties
  <1>9. \A j \in 1..m : t[j] = IF j = 1 THEN n + 1 ELSE s[j - 1]
    BY <1>2, <1>3, <1>4, <1>5, <1>1
  <1>10. ASSUME NEW j \in DOMAIN t, NEW k \in DOMAIN t, j < k
         PROVE  t[j] > t[k]
    <2>1. k - 1 \in 1..Len(s) /\ t[k] = s[k - 1]
      BY <1>1, <1>5, <1>8, <1>9, <1>10
    <2>2. CASE j = 1
      BY <1>1, <1>8, <1>9, <2>1, <2>2
    <2>3. CASE j # 1
      <3>1. j - 1 \in 1..Len(s) /\ t[j] = s[j - 1] /\ j - 1 < k - 1
        BY <1>1, <1>5, <1>8, <1>9, <1>10, <2>3
      <3>2. s[j - 1] > s[k - 1]  BY <1>1, <2>1, <3>1 DEF Proper
      <3>3. QED  BY <2>1, <3>1, <3>2
    <2>4. QED  BY <2>2, <2>3
  <1>11. Proper(t, n + 1)  BY <1>4, <1>5, <1>10 DEF Proper
  <1>12. ASSUME NEW id \in Members(s) \ Members(t)
         PROVE  Len(s) = MaxRecords /\ id = s[MaxRecords]
    <2>1. PICK i \in 1..Len(s) : id = s[i]  BY <1>1 DEF Members
    <2>2. i + 1 \notin 1..m
      <3>1. SUFFICES ASSUME i + 1 \in 1..m PROVE FALSE  OBVIOUS
      <3>2. t[i + 1] = id  BY <1>1, <1>9, <2>1, <3>1
      <3>3. QED  BY <1>8, <3>1, <3>2 DEF Members
    <2>3. i \in Nat /\ 1 <= i /\ i <= Len(s)  BY <1>a, <2>1
    <2>4. Len(s) = MaxRecords /\ i = MaxRecords
      BY <1>a, <1>5, <1>6, <1>7, <2>2, <2>3
    <2>5. QED  BY <2>1, <2>4
  <1>13. QED  BY <1>11, <1>12 DEF t, c, x

\* Where every list of HistoryTypeOK comes from.
LEMMA HistoryInvImpliesTypeOK == HistoryInv => HistoryTypeOK
  BY DEF HistoryInv, HistoryTypeOK, Proper

\* What one operation of a tab makes of the tab's copy.
LEMMA HistoryStepKept ==
    ASSUME HistoryInv, HistoryNext
    PROVE  HistoryInv'
  <1>1. /\ completed \in Nat
        /\ \A s : Proper(s, completed) => Proper(s, completed + 1)
        /\ Proper(<<>>, completed)
    BY ProperBasics DEF HistoryInv
  <1>2. ASSUME NEW tab \in Tabs, NEW s, NEW n, n \in Nat, n = completed',
               Proper(s, n), \A q : Proper(q, completed) => Proper(q, n),
               records' = [records EXCEPT ![tab] = s],
               ls_history' = s \/ ls_history' = ls_history
        PROVE  HistoryInv'
    <2>1. ls_history' = s \/ ls_history' = ls_history  BY <1>2
    <2>2. Proper(ls_history', n)  BY <1>2, <2>1 DEF HistoryInv
    <2>3. ASSUME NEW b \in Tabs
          PROVE  Proper(records'[b], n) /\ records'[b] \in Seq(1..n)
      <3>1. records'[b] = IF b = tab THEN s ELSE records[b]
        BY <1>2 DEF HistoryInv
      <3>2. QED  BY <1>2, <3>1 DEF HistoryInv, Proper
    <2>4. records' \in [Tabs -> Seq(1..n)]  BY <1>2, <2>3 DEF HistoryInv
    <2>5. QED  BY <2>2, <2>3, <2>4, n = completed', n \in Nat DEF HistoryInv
  <1>3. PICK tab \in Tabs :
           \/ LoadHistory(tab) \/ SaveHistoryRecord(tab) \/ ClearAllHistory(tab)
           \/ \E id \in 1..MaxCompleted : DeleteHistoryItem(tab, id)
    BY HistoryNext DEF HistoryNext
  <1>4. Proper(records[tab], completed) /\ Proper(ls_history, completed)
    BY DEF HistoryInv
  <1>5. CASE LoadHistory(tab)
    BY <1>1, <1>2, <1>4, <1>5 DEF LoadHistory
  <1>6. CASE SaveHistoryRecord(tab)
    <2> DEFINE s == Capped(<<completed + 1>> \o records[tab])
    <2>1. Proper(s, completed + 1)  BY <1>1, <1>4, SaveProperties
    <2>2. /\ completed' = completed + 1
          /\ records' = [records EXCEPT ![tab] = s] /\ ls_history' = s
      BY <1>6 DEF SaveHistoryRecord, Store
    <2>3. completed' \in Nat /\ Proper(s, completed')
      BY <1>1, <2>1, <2>2
    <2>4. \A q : Proper(q, completed) => Proper(q, completed')
      BY <1>1, <2>2
    <2> HIDE DEF s
    <2>5. QED  BY <1>2, <2>2, <2>3, <2>4
  <1>7. CASE ClearAllHistory(tab)
    BY <1>1, <1>2, <1>7 DEF ClearAllHistory, Store
  <1>8. ASSUME NEW id \in 1..MaxCompleted, DeleteHistoryItem(tab, id)
        PROVE  HistoryInv'
    <2>1. PICK i \in DOMAIN records[tab] : Store(tab, RemoveAt(records[tab], i))
      BY <1>8 DEF DeleteHistoryItem
    <2>2. Proper(RemoveAt(records[tab], i), completed)
      BY <1>1, <1>4, RemoveIsProper
    <2>3. QED  BY <1>1, <1>2, <1>8, <2>1, <2>2 DEF DeleteHistoryItem, Store
  <1>9. QED  BY <1>3, <1>5, <1>6, <1>7, <1>8

LEMMA HistoryInvariance == HistorySpec => []HistoryInv
  <1>1. HistoryInit => HistoryInv
    <2> SUFFICES ASSUME HistoryInit PROVE HistoryInv  OBVIOUS
    <2>1. completed = 0 /\ ls_history = <<>> /\ records = [tab \in Tabs |-> <<>>]
      BY DEF HistoryInit
    <2>2. Proper(<<>>, 0)  BY ProperBasics
    <2>3. QED  BY <2>1, <2>2 DEF HistoryInv, Proper
  <1>2. HistoryInv /\ [HistoryNext]_historyVars => HistoryInv'
    <2>1. HistoryInv /\ UNCHANGED historyVars => HistoryInv'
      BY DEF HistoryInv, historyVars
    <2>2. QED  BY <2>1, HistoryStepKept
  <1>3. QED  BY <1>1, <1>2, PTL DEF HistorySpec

-----------------------------------------------------------------------------

\* HistoryTypeOK: however the tabs overwrite one another's copy in
\* localStorage, every list is one of completed tests, newest first, without
\* repetition and within the limit of saveHistoryRecord.
THEOREM TabsKeepProperHistories == HistorySpec => []HistoryTypeOK
  BY HistoryInvariance, HistoryInvImpliesTypeOK, PTL

\* RecordsAreKept: a record goes from localStorage only by the user's hand, by
\* the limit, or because the writing tab never had it.
THEOREM TabsKeepWhatTheyShow == HistorySpec => RecordsAreKept
  <1> DEFINE Kept ==
        \A id \in Members(ls_history) \ Members(ls_history') :
           \E tab \in Tabs :
              \/ ClearAllHistory(tab) \/ DeleteHistoryItem(tab, id)
              \/ /\ SaveHistoryRecord(tab)
                 /\ Len(records[tab]) = MaxRecords
                 /\ id = records[tab][MaxRecords]
              \/ /\ id \notin Members(records[tab])
                 /\ ls_history' = records'[tab]
  <1>1. HistoryInv /\ [HistoryNext]_historyVars => Kept
    <2> SUFFICES ASSUME HistoryInv, [HistoryNext]_historyVars,
                        NEW id \in Members(ls_history) \ Members(ls_history')
                 PROVE  \E tab \in Tabs :
                           \/ ClearAllHistory(tab) \/ DeleteHistoryItem(tab, id)
                           \/ /\ SaveHistoryRecord(tab)
                              /\ Len(records[tab]) = MaxRecords
                              /\ id = records[tab][MaxRecords]
                           \/ /\ id \notin Members(records[tab])
                              /\ ls_history' = records'[tab]
      OBVIOUS
    <2>1. ls_history' # ls_history  OBVIOUS
    <2>2. PICK tab \in Tabs :
             \/ SaveHistoryRecord(tab) \/ ClearAllHistory(tab)
             \/ \E i \in 1..MaxCompleted : DeleteHistoryItem(tab, i)
      BY <2>1 DEF HistoryNext, historyVars, LoadHistory
    <2>3. /\ Proper(records[tab], completed) /\ completed \in Nat
          /\ records'[tab] = ls_history'
      BY <2>2 DEF HistoryInv, SaveHistoryRecord, ClearAllHistory,
                  DeleteHistoryItem, Store
    <2>4. CASE id \notin Members(records[tab])
      BY <2>3, <2>4
    <2>5. CASE id \in Members(records[tab]) /\ SaveHistoryRecord(tab)
      <3>1. ls_history' = Capped(<<completed + 1>> \o records[tab])
        BY <2>5 DEF SaveHistoryRecord, Store
      <3>2. Len(records[tab]) = MaxRecords /\ id = records[tab][MaxRecords]
        BY <2>3, <2>5, <3>1, SaveProperties
      <3>3. QED  BY <2>5, <3>2
    <2>6. ASSUME id \in Members(records[tab]),
                 NEW n \in 1..MaxCompleted, DeleteHistoryItem(tab, n)
          PROVE  DeleteHistoryItem(tab, id)
      <3> DEFINE s == records[tab]
      <3>1. PICK i \in DOMAIN s : s[i] = n /\ ls_history' = RemoveAt(s, i)
        BY <2>6 DEF DeleteHistoryItem, Store
      <3>2. PICK j \in DOMAIN s : s[j] = id  BY <2>6 DEF Members
      <3>3. /\ s \in Seq(1..completed) /\ DOMAIN s = 1..Len(s) /\ Len(s) \in Nat
        BY <2>3, LenProperties DEF Proper
      <3> HIDE DEF s
      <3>4. /\ RemoveAt(s, i) \in Seq(1..completed)
            /\ Len(RemoveAt(s, i)) = Len(s) - 1
            /\ \A k \in 1..(Len(s) - 1) :
                  RemoveAt(s, i)[k] = IF k < i THEN s[k] ELSE s[k + 1]
        BY <3>3, RemoveAtProperties
      <3>5. DOMAIN ls_history' = 1..(Len(s) - 1)
        BY <3>1, <3>4, LenProperties
      <3>6. i = j
        <4>1. CASE j < i
          <5>1. j \in 1..(Len(s) - 1) /\ ls_history'[j] = id
            BY <3>1, <3>2, <3>3, <3>4, <4>1
          <5>2. QED  BY <3>5, <5>1 DEF Members
        <4>2. CASE i < j
          <5>1. /\ j - 1 \in 1..(Len(s) - 1) /\ ~(j - 1 < i)
                /\ (j - 1) + 1 = j
            BY <3>3, <4>2
          <5>2. ls_history'[j - 1] = id  BY <3>1, <3>2, <3>4, <5>1
          <5>3. QED  BY <3>5, <5>1, <5>2 DEF Members
        <4>3. QED  BY <3>3, <4>1, <4>2
      <3>7. QED  BY <2>6, <3>1, <3>2, <3>6
    <2>7. CASE ClearAllHistory(tab)
      BY <2>7
    <2>8. QED  BY <2>2, <2>4, <2>5, <2>6, <2>7
  <1>2. QED  BY <1>1, HistoryInvariance, PTL DEF HistorySpec, RecordsAreKept

=============================================================================
