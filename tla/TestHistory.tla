----------------------------- MODULE TestHistory -----------------------------
(***************************************************************************)
(* The history of speed tests of the web page (static/app.js): every tab   *)
(* loads localStorage.ls_history when it is opened, keeps its own copy and *)
(* writes the whole copy back after each change.  A record is the number   *)
(* of its test, in the order of completion; two tests do not start in the  *)
(* same millisecond, so record ids differ.                                 *)
(***************************************************************************)
EXTENDS Naturals, SequencesExt

CONSTANTS Tabs,         \* the open tabs of one browser
          MaxRecords,   \* 50
          MaxCompleted  \* bound: completed tests

ASSUME HistoryAssumption ==
    MaxRecords \in Nat \ {0} /\ MaxCompleted \in Nat

VARIABLES records,      \* state.history of each tab, newest first
          ls_history,   \* what localStorage holds; <<>> also when there is nothing
          completed     \* how many tests were completed

historyVars == <<records, ls_history, completed>>

Members(s) == {s[i] : i \in DOMAIN s}

\* Seeded fault: the history grows by one before the oldest record goes.
CappedLate(s) == IF Len(s) > MaxRecords + 1 THEN SubSeq(s, 1, MaxRecords) ELSE s

\* Seeded fault: the slice is one short.
CappedShort(s) == IF Len(s) > MaxRecords THEN SubSeq(s, 1, MaxRecords - 1) ELSE s

Capped(s) == IF Len(s) > MaxRecords THEN SubSeq(s, 1, MaxRecords) ELSE s

\* The tab's copy becomes s and is written back.
Store(tab, s) ==
    /\ records' = [records EXCEPT ![tab] = s]
    /\ ls_history' = s

-----------------------------------------------------------------------------

\* The tab is opened or reloaded.
LoadHistory(tab) ==
    /\ records' = [records EXCEPT ![tab] = ls_history]
    /\ UNCHANGED <<ls_history, completed>>

\* A test of the tab is complete.
SaveHistoryRecord(tab) ==
    /\ completed < MaxCompleted
    /\ completed' = completed + 1
    /\ Store(tab, Capped(<<completed'>> \o records[tab]))

ClearAllHistory(tab) ==
    /\ Store(tab, <<>>)
    /\ UNCHANGED completed

\* The filter drops every record with that id, which is one: ids differ.
DeleteHistoryItem(tab, id) ==
    /\ \E i \in DOMAIN records[tab] :
          /\ records[tab][i] = id
          /\ Store(tab, RemoveAt(records[tab], i))
    /\ UNCHANGED completed

HistoryInit ==
    /\ records = [tab \in Tabs |-> <<>>]
    /\ ls_history = <<>>
    /\ completed = 0

HistoryNext ==
    \E tab \in Tabs :
       \/ LoadHistory(tab) \/ SaveHistoryRecord(tab) \/ ClearAllHistory(tab)
       \/ \E id \in 1..MaxCompleted : DeleteHistoryItem(tab, id)

HistorySpec == HistoryInit /\ [][HistoryNext]_historyVars

-----------------------------------------------------------------------------
(* Properties.                                                             *)

\* What a tab shows and what is stored are lists of completed tests, newest
\* first, without repetition and never longer than the limit, although the tabs
\* overwrite one another's copy.
HistoryTypeOK ==
    \A s \in {records[tab] : tab \in Tabs} \cup {ls_history} :
       /\ s \in Seq(1..completed)
       /\ Len(s) <= MaxRecords
       /\ \A i, j \in DOMAIN s : i < j => s[i] > s[j]

\* static/app.js:102 of the repository: completed tests are recorded here
\* automatically.  A tab never removes from the storage a record that it shows,
\* unless the user removes it there or the limit pushes the oldest one out.
\* (What other tabs have stored since it was loaded, it does overwrite.)
RecordsAreKept ==
    [][\A id \in Members(ls_history) \ Members(ls_history') :
          \E tab \in Tabs :
             \/ ClearAllHistory(tab) \/ DeleteHistoryItem(tab, id)
             \/ /\ SaveHistoryRecord(tab)
                /\ Len(records[tab]) = MaxRecords
                /\ id = records[tab][MaxRecords]
             \/ /\ id \notin Members(records[tab])
                /\ ls_history' = records'[tab]
      ]_historyVars
=============================================================================
