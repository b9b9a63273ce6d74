---------------------------- MODULE TransferProofs ----------------------------
(***************************************************************************)
(* Theorems about Transfer: the safety of a measurement for every int64,   *)
(* every limit, default and body, and any pace and failure of the hops.    *)
(* That handlers end is left to the model checker.                         *)
(***************************************************************************)
EXTENDS Transfer, TLAPS

USE SizeAssumption, RangeAssumption, SentinelAssumption

Downloading == pc = "downloading"

\* These n bytes are all there is, and as many as were announced.
Whole(n) == n = plan /\ announced \in {Chunked, plan}

\* A stream under way has the size the request gave it.
PlanFollowsRequest ==
    /\ plan <= MaxInt64
    /\ Downloading => plan = DownloadTotal /\ announced = plan
    /\ Uploading => plan = UploadPlan /\ announced = UploadAnnounced

\* A clean end of a link stands for a whole body; the upload proxy alone may
\* also pass on a body of unknown length that it has cut.
CleanEnds ==
    Moving =>
        /\ link[1] = "eof" => Whole(moved[0])
        /\ link[2] = "eof" /\ Route = "proxy" =>
              \/ Whole(moved[1])
              \/ Uploading /\ announced = Chunked /\ moved[1] >= Cap(1)

\* No reader of an upload takes more than its LimitReader lets through.
ReadersCapped ==
    Uploading => \A i \in 1..Sink : moved[i] > 0 => moved[i] <= Cap(i)

\* An upload is answered 200 for a whole body, or for one that a reader cut at
\* its cap.
AnswerStands ==
    /\ Uploading \/ Accepted
    /\ answer = "200"
    => /\ plan = UploadPlan /\ announced = UploadAnnounced
       /\ moved[Sink] <= UploadLimit
       /\ \/ moved[Sink] >= Cap(Sink)
          \/ Whole(moved[Sink])
          \/ Route = "proxy" /\ announced = Chunked /\ moved[2] >= Cap(1)

\* What is reported of an accepted upload.
ReportStands ==
    Accepted => answer = "200" /\ reported = UploadReport

\* Nothing is got before the end.
OutcomeAtTheEnd == pc \notin Final => outcome = "none"

\* The inductive invariant.
TransferInv ==
    /\ TypeOK
    /\ PlanFollowsRequest
    /\ CleanEnds
    /\ ReadersCapped
    /\ AnswerStands
    /\ ReportStands
    /\ OutcomeAtTheEnd
    /\ CompleteDownloadIsWhole
    /\ SaneSettingsNeverPanic

-----------------------------------------------------------------------------
(* Sizes.                                                                  *)

\* The settings and counts are int64.
LEMMA SetupTypes ==
    ASSUME TypeOK
    PROVE  /\ settings.maxTestBytes \in Int64 /\ settings.MaxTestBytes \in Int64
           /\ settings.DefaultDownloadBytes \in Int64
           /\ settings.DefaultUploadBytes \in Int64
           /\ settings.StreamChunkBytes \in 0..MaxInt64
           /\ settings.PingCount \in Int64 /\ request.count \in Int64
           /\ request.size \in 0..MaxInt64
           /\ request.length \in {request.size, Chunked}
           /\ request.bytes \in Int64 \cup {Absent, Garbage}
           /\ Route = "test" => request.bytes \in Int64
           /\ Route \in {"node", "centre", "proxy", "test"}
  BY DEF TypeOK, SettingsOK, RequestOK, Route

\* A clamped size is positive, and beyond its limit only if that is not.
LEMMA ClampedBounds ==
    ASSUME NEW n \in Int64, NEW max \in Int64
    PROVE  /\ Clamped(n, max) \in 1..MaxInt64
           /\ AtMost(Clamped(n, max), max)
  BY DEF Clamped, AtMost, Int64

\* What the centre asks of a node in a test is an int64 within its own limit,
\* and negative only if the limit or the default is.
LEMMA NumBytesBounds ==
    ASSUME TypeOK, NEW n \in Int64, NEW default \in Int64
    PROVE  /\ NumBytes(n, default) \in Int64
           /\ NumBytes(n, default) <= settings.MaxTestBytes
           /\ NumBytes(n, default) < 0 =>
                 settings.MaxTestBytes < 0 \/ default < 0
  BY SetupTypes DEF NumBytes, Int64

\* Clamping keeps a size that was within another limit within it.
LEMMA ClampedKeeps ==
    ASSUME NEW n \in Int64, NEW max \in Int64, NEW limit \in Int64, n <= limit
    PROVE  AtMost(Clamped(n, max), limit)
  BY DEF Clamped, AtMost, Int64

\* The size of a download, and the limits it keeps.
LEMMA DownloadBounds ==
    ASSUME TypeOK
    PROVE  /\ DownloadTotal \in 1..MaxInt64
           /\ AtMost(DownloadTotal, IF Route = "centre" THEN settings.MaxTestBytes
                                                        ELSE settings.maxTestBytes)
           /\ Route = "test" => AtMost(DownloadTotal, settings.MaxTestBytes)
<1>1. NodeDefault \in Int64 /\ 1..MaxInt64 \subseteq Int64
  BY DEF Int64
<1>2. ASSUME NEW b
      PROVE  /\ NodeTotal(b) \in 1..MaxInt64
             /\ AtMost(NodeTotal(b), settings.maxTestBytes)
             /\ b \in Int64 /\ b <= settings.MaxTestBytes =>
                   AtMost(NodeTotal(b), settings.MaxTestBytes)
  BY <1>1, SetupTypes, ClampedBounds, ClampedKeeps DEF NodeTotal
<1>3. ASSUME NEW b
      PROVE  /\ DirectTotal(b) \in 1..MaxInt64
             /\ AtMost(DirectTotal(b), settings.MaxTestBytes)
  BY SetupTypes, ClampedBounds DEF DirectTotal
<1>4. CASE Route = "node"
  BY <1>4, <1>2 DEF DownloadTotal
<1>5. CASE Route = "centre"
  BY <1>5, <1>3 DEF DownloadTotal
<1>6. CASE Route = "proxy"
  BY <1>6, <1>2 DEF DownloadTotal
<1>7. CASE Route = "test"
  BY <1>7, <1>2, SetupTypes, NumBytesBounds DEF DownloadTotal
<1> QED
  BY <1>4, <1>5, <1>6, <1>7, SetupTypes

\* The size of an upload that is begun, and of the chunk it is made of.
LEMMA UploadBounds ==
    ASSUME TypeOK
    PROVE  /\ Route = "test" => TestUploadBytes \in Int64
           /\ Route = "test" /\ ChunkSize < 0 => TestUploadBytes < 0
           /\ (Route = "test" => ChunkSize >= 0) =>
                 /\ UploadPlan \in 0..MaxInt64
                 /\ UploadAnnounced \in Nat \cup {Chunked}
                 /\ Route = "test" => UploadPlan <= TestUploadBytes
                 /\ Route = "proxy" => UploadAnnounced \in {Chunked, UploadPlan}
<1>1. Route = "test" => TestUploadBytes \in Int64
  BY SetupTypes, NumBytesBounds DEF TestUploadBytes
<1>2. CASE Route = "test"
  <2>1. ChunkSize \in Int64 /\ (ChunkSize >= 0 <=> TestUploadBytes >= 0)
    BY <1>1, <1>2, SetupTypes DEF ChunkSize, Int64
  <2> QED
    BY <1>1, <1>2, <2>1 DEF UploadPlan, UploadAnnounced, RepeatedBytes, Int64
<1>3. CASE Route # "test"
  BY <1>3, SetupTypes DEF UploadPlan, UploadAnnounced
<1> QED
  BY <1>1, <1>2, <1>3

\* The cap of a reader is its limit and one more, or so far below that nothing
\* is read at all.
LEMMA CapBounds ==
    ASSUME TypeOK, NEW i
    PROVE  LET limit == IF i = Sink THEN UploadLimit ELSE settings.MaxTestBytes IN
           /\ limit \in Int64 /\ Cap(i) \in Int
           /\ Cap(i) <= limit + 1
           /\ limit # MaxInt64 => Cap(i) = limit + 1
  BY SetupTypes DEF Cap, Plus1, UploadLimit, Int64

\* Settings and request never change, and nothing derived from them does.
LEMMA SetupFixed ==
    ASSUME UNCHANGED setup
    PROVE  /\ Route' = Route /\ Sink' = Sink /\ UploadLimit' = UploadLimit
           /\ DownloadTotal' = DownloadTotal /\ UploadPlan' = UploadPlan
           /\ UploadAnnounced' = UploadAnnounced
           /\ TestUploadBytes' = TestUploadBytes
           /\ \A i \in 1..2 : Cap(i)' = Cap(i)
           /\ settings' = settings /\ request' = request
           /\ SettingsOK' = SettingsOK /\ RequestOK' = RequestOK
  BY DEF setup, Route, Sink, UploadLimit, DownloadTotal, UploadPlan,
         UploadAnnounced, TestUploadBytes, Cap, NodeTotal, DirectTotal,
         ProxiedBytes, NumBytes, RepeatedBytes, ChunkSize, SettingsOK, RequestOK

-----------------------------------------------------------------------------
(* The steps of a stream.                                                  *)

\* What the steps that only move bytes and links leave alone.
Streaming ==
    /\ Moving
    /\ UNCHANGED <<setup, pc, plan, announced, outcome, reported>>

\* While a stream moves, most of the invariant is about what does not change.
LEMMA StreamingKeeps ==
    ASSUME TransferInv, Streaming
    PROVE  /\ PlanFollowsRequest' /\ ReportStands' /\ OutcomeAtTheEnd'
           /\ CompleteDownloadIsWhole' /\ SaneSettingsNeverPanic'
           /\ Moving' /\ Uploading' = Uploading /\ ~Accepted /\ ~Accepted'
           /\ \A n : Whole(n)' = Whole(n)
<1>1. /\ UNCHANGED <<pc, plan, announced, outcome, reported>> /\ Moving
      /\ UNCHANGED setup
  BY DEF Streaming
<1>2. PlanFollowsRequest'
  BY <1>1, SetupFixed DEF TransferInv, PlanFollowsRequest, Downloading, Uploading
<1>3. SaneSettingsNeverPanic' /\ OutcomeAtTheEnd'
  BY <1>1, SetupFixed DEF TransferInv, SaneSettingsNeverPanic, OutcomeAtTheEnd
<1>4. ReportStands' /\ CompleteDownloadIsWhole' /\ ~Accepted /\ ~Accepted'
  BY <1>1 DEF ReportStands, CompleteDownloadIsWhole, Accepted, Moving
<1>5. \A n : Whole(n)' = Whole(n)
  BY <1>1 DEF Whole
<1> QED
  BY <1>1, <1>2, <1>3, <1>4, <1>5 DEF Moving, Uploading

\* The caps stay where they are.
LEMMA CappedAfter ==
    ASSUME TransferInv, Streaming,
           Uploading => \A i \in 1..Sink : moved'[i] > 0 => moved'[i] <= Cap(i)
    PROVE  ReadersCapped'
<1>1. Sink \in 1..2 /\ Sink' = Sink /\ Uploading' = Uploading
      /\ \A i \in 1..2 : Cap(i)' = Cap(i)
  BY StreamingKeeps, SetupFixed DEF Streaming, Sink
<1>2. ASSUME Uploading, NEW i \in 1..Sink, moved'[i] > 0
      PROVE  moved'[i] <= Cap(i)'
  <2>1. i \in 1..2
    BY <1>1
  <2>2. Cap(i)' = Cap(i)
    BY <1>1, <2>1
  <2>3. moved'[i] <= Cap(i)
    BY <1>2
  <2> QED
    BY <2>2, <2>3
<1> QED
  BY <1>1, <1>2 DEF ReadersCapped

\* The source writes: its link is open, so nothing has ended at it.
LEMMA WriteStep ==
    ASSUME TransferInv, Write
    PROVE  TransferInv'
<1>1. /\ Streaming /\ UNCHANGED setup /\ UNCHANGED <<plan, link, answer>>
      /\ link[1] = "open" /\ moved[0] < plan
      /\ moved' = [moved EXCEPT ![0] = @ + 1]
  BY DEF Write, Streaming
<1>2. /\ moved \in [0..2 -> Nat] /\ plan \in Nat
      /\ moved[2] <= moved[1] /\ moved[1] <= moved[0]
  BY DEF TransferInv, TypeOK
<1>3. /\ moved' \in [0..2 -> Nat] /\ moved'[0] = moved[0] + 1
      /\ moved'[1] = moved[1] /\ moved'[2] = moved[2]
  BY <1>1, <1>2
<1>4. TypeOK'
  BY <1>1, <1>2, <1>3, SetupFixed DEF Streaming, TransferInv, TypeOK
<1>5. Sink \in 1..2
  BY DEF Sink
<1>6. CleanEnds'
  BY <1>1, <1>3, StreamingKeeps, SetupFixed DEF TransferInv, CleanEnds, Streaming
<1>7. ReadersCapped'
  BY <1>1, <1>3, <1>5, CappedAfter DEF TransferInv, ReadersCapped
<1>8. AnswerStands'
  BY <1>1, <1>3, <1>5, StreamingKeeps, SetupFixed
  DEF TransferInv, AnswerStands, Streaming
<1> QED
  BY <1>1, <1>4, <1>6, <1>7, <1>8, StreamingKeeps DEF TransferInv

\* A reader takes some more: what it reads is not cut off, what it hands on to
\* is open, and it has not answered.
LEMMA TakeStep ==
    ASSUME TransferInv, NEW i \in 1..Sink, Take(i)
    PROVE  TransferInv'
<1>1. /\ Streaming /\ UNCHANGED setup /\ UNCHANGED <<plan, announced, link, answer>>
      /\ ~CutOff(i) /\ ~Drained(i)
      /\ i < Sink => link[i + 1] = "open"
      /\ i = Sink => answer = "none"
      /\ moved' = [moved EXCEPT ![i] = @ + 1]
  BY DEF Take, Streaming
<1>2. /\ moved \in [0..2 -> Nat] /\ plan \in Nat /\ moved[0] <= plan
      /\ moved[2] <= moved[1] /\ moved[1] <= moved[0]
  BY DEF TransferInv, TypeOK
<1>3. Sink \in 1..2 /\ (Sink = 2 <=> Route = "proxy") /\ i \in 1..2
  BY DEF Sink
<1>4. /\ moved' \in [0..2 -> Nat] /\ moved'[i] = moved[i] + 1
      /\ \A j \in 0..2 : j # i => moved'[j] = moved[j]
  BY <1>1, <1>2, <1>3
<1>5. moved[i] < moved[i - 1]
  BY <1>1, <1>2, <1>3 DEF Drained
<1>6. TypeOK'
  <2>1. /\ moved'[2] <= moved'[1] /\ moved'[1] <= moved'[0] /\ moved'[0] <= plan
    BY <1>2, <1>3, <1>4, <1>5
  <2> QED
    BY <2>1, <1>1, <1>4, SetupFixed DEF Streaming, TransferInv, TypeOK
<1>7. CleanEnds'
  <2>1. link[1] = "eof" => moved'[0] = moved[0]
    BY <1>3, <1>4
  <2>2. link[2] = "eof" /\ Route = "proxy" => i = 2 /\ moved'[1] = moved[1]
    BY <1>1, <1>3, <1>4
  <2> QED
    BY <2>1, <2>2, <1>1, StreamingKeeps, SetupFixed
    DEF TransferInv, CleanEnds, Streaming
<1>8. ReadersCapped'
  <2>1. Uploading => moved[i] + 1 <= Cap(i)
    BY <1>1, <1>2, <1>3, CapBounds DEF CutOff, TransferInv
  <2>2. ASSUME Uploading, NEW j \in 1..Sink, moved'[j] > 0
        PROVE  moved'[j] <= Cap(j)
    BY <2>1, <2>2, <1>3, <1>4 DEF TransferInv, ReadersCapped
  <2> QED
    BY <2>2, <1>1, CappedAfter
<1>9. AnswerStands'
  <2>1. ASSUME answer = "200"
        PROVE  moved'[Sink] = moved[Sink] /\ (Route = "proxy" => moved'[2] = moved[2])
    BY <2>1, <1>1, <1>3, <1>4
  <2> QED
    BY <2>1, <1>1, <1>3, StreamingKeeps, SetupFixed
    DEF TransferInv, AnswerStands, Streaming
<1> QED
  BY <1>1, <1>6, <1>7, <1>8, <1>9, StreamingKeeps DEF TransferInv

\* A step that changes links only, to "broken" or to what the end of a whole or
\* cut body makes of them.
LEMMA LinkStep ==
    ASSUME TransferInv, Streaming, UNCHANGED <<moved, answer>>,
           link' \in [1..2 -> {"open", "eof", "broken"}],
           link'[1] = "eof" => link[1] = "eof" \/ Whole(moved[0]),
           link'[2] = "eof" /\ Route = "proxy" =>
              \/ link[2] = "eof"
              \/ Whole(moved[1])
              \/ Uploading /\ announced = Chunked /\ moved[1] >= Cap(1)
    PROVE  TransferInv'
<1>1. UNCHANGED setup /\ UNCHANGED <<pc, plan, announced, moved, answer>>
  BY DEF Streaming
<1>2. TypeOK'
  BY <1>1, SetupFixed DEF Streaming, TransferInv, TypeOK
<1>3. CleanEnds'
  BY <1>1, StreamingKeeps, SetupFixed DEF TransferInv, CleanEnds, Streaming
<1>4. ReadersCapped'
  BY <1>1, CappedAfter DEF TransferInv, ReadersCapped
<1>5. AnswerStands'
  <2>1. Sink \in 1..2
    BY DEF Sink
  <2> QED
    BY <1>1, <2>1, StreamingKeeps, SetupFixed DEF TransferInv, AnswerStands, Streaming
<1> QED
  BY <1>2, <1>3, <1>4, <1>5, StreamingKeeps DEF TransferInv

\* A connection is lost.
LEMMA BreakStep ==
    ASSUME TransferInv, NEW i \in 1..2, Break(i)
    PROVE  TransferInv'
<1>1. Streaming /\ UNCHANGED <<moved, answer>>
      /\ link' = [link EXCEPT ![i] = "broken"]
  BY DEF Break, Streaming
<1>2. link \in [1..2 -> {"open", "eof", "broken"}]
  BY DEF TransferInv, TypeOK
<1> QED
  BY <1>1, <1>2, LinkStep

\* The source comes to the end of its body.
LEMMA EndBodyStep ==
    ASSUME TransferInv, EndBody
    PROVE  TransferInv'
<1>1. /\ Streaming /\ UNCHANGED <<moved, answer>>
      /\ moved[0] = plan /\ link' = Closed(1)
  BY DEF EndBody, Streaming
<1>2. link \in [1..2 -> {"open", "eof", "broken"}]
  BY DEF TransferInv, TypeOK
<1>3. /\ link' \in [1..2 -> {"open", "eof", "broken"}] /\ link'[2] = link[2]
      /\ link'[1] = "eof" => announced \in {Chunked, moved[0]}
  BY <1>1, <1>2 DEF Closed, LengthHonoured
<1> QED
  BY <1>1, <1>3, LinkStep DEF Whole

\* The proxy passes the end of a body on.
LEMMA EndCopyStep ==
    ASSUME TransferInv, EndCopy
    PROVE  TransferInv'
<1>1. /\ Streaming /\ UNCHANGED <<moved, answer>>
      /\ Route = "proxy" /\ link[2] = "open" /\ Moving
      /\ \/ /\ AtEnd(1) \/ (~Uploading /\ link[1] = "broken")
            /\ link' = Closed(2)
         \/ link' = [link EXCEPT ![2] = "broken"]
  BY DEF EndCopy, Streaming
<1>2. /\ link \in [1..2 -> {"open", "eof", "broken"}]
      /\ moved[1] \in Nat /\ plan \in Nat
  BY DEF TransferInv, TypeOK
<1>3. CASE link' = [link EXCEPT ![2] = "broken"]
  BY <1>1, <1>2, <1>3, LinkStep
<1>4. CASE /\ AtEnd(1) \/ (~Uploading /\ link[1] = "broken")
           /\ link' = Closed(2)
  <2>1. /\ link' \in [1..2 -> {"open", "eof", "broken"}] /\ link'[1] = link[1]
        /\ link'[2] = "eof" => announced \in {Chunked, moved[1]}
    BY <1>2, <1>4 DEF Closed, LengthHonoured
  <2>2. CASE Downloading
    <3>1. announced = plan /\ announced # Chunked
      BY <1>2, <2>2 DEF TransferInv, PlanFollowsRequest
    <3> QED
      BY <3>1, <2>1, <1>1, LinkStep DEF Whole
  <2>3. CASE Uploading
    <3>1. announced \in {Chunked, plan}
      <4>1. announced = UploadAnnounced /\ plan = UploadPlan
        BY <2>3 DEF TransferInv, PlanFollowsRequest
      <4> QED
        BY <4>1, <1>1, UploadBounds DEF TransferInv
    <3>2. AtEnd(1)
      BY <1>4, <2>3
    <3>3. moved[1] >= Cap(1) \/ Whole(moved[1])
      BY <3>2, <1>1 DEF AtEnd, CutOff, Drained, TransferInv, CleanEnds
    <3>4. link'[2] = "eof" => \/ Whole(moved[1])
                              \/ announced = Chunked /\ moved[1] >= Cap(1)
      <4>1. CASE Whole(moved[1])
        BY <4>1
      <4>2. CASE moved[1] >= Cap(1) /\ announced = Chunked
        BY <4>2
      <4>3. CASE announced = plan
        BY <4>3, <2>1, <1>2 DEF Whole
      <4> QED
        BY <4>1, <4>2, <4>3, <3>1, <3>3
    <3> QED
      BY <3>4, <2>1, <2>3, <1>1, LinkStep
  <2> QED
    BY <2>2, <2>3, <1>1 DEF Moving, Downloading, Uploading
<1> QED
  BY <1>1, <1>3, <1>4

\* The server of an upload answers.
LEMMA RespondStep ==
    ASSUME TransferInv, Respond
    PROVE  TransferInv'
<1>1. /\ Streaming /\ UNCHANGED setup /\ UNCHANGED <<pc, plan, announced, moved, link>>
      /\ Uploading
      /\ answer' \in {"200", "413", "500"}
      /\ answer' = "200" => AtEnd(Sink) /\ ~(moved[Sink] > UploadLimit)
  BY DEF Respond, Streaming, Moving, Uploading
<1>2. /\ Sink \in 1..2 /\ (Sink = 2 <=> Route = "proxy")
      /\ moved \in [0..2 -> Nat] /\ UploadLimit \in Int /\ Cap(Sink) \in Int
      /\ Cap(1) \in Int
  BY CapBounds DEF Sink, TransferInv, TypeOK, Int64
<1>3. TypeOK'
  BY <1>1, SetupFixed DEF Streaming, TransferInv, TypeOK
<1>4. CleanEnds'
  <2>1. Cap(1)' = Cap(1) /\ Route' = Route
    BY <1>1, SetupFixed
  <2> QED
    BY <1>1, <2>1 DEF TransferInv, CleanEnds, Streaming, Moving, Uploading, Whole
<1>5. ReadersCapped'
  BY <1>1, CappedAfter DEF TransferInv, ReadersCapped
<1>6. ASSUME answer' = "200"
      PROVE  /\ plan = UploadPlan /\ announced = UploadAnnounced
             /\ moved[Sink] <= UploadLimit
             /\ \/ moved[Sink] >= Cap(Sink)
                \/ Whole(moved[Sink])
                \/ Route = "proxy" /\ announced = Chunked /\ moved[2] >= Cap(1)
  <2>1. moved[Sink] <= UploadLimit
    BY <1>1, <1>2, <1>6
  <2>2. \/ moved[Sink] >= Cap(Sink)
        \/ moved[Sink] = moved[Sink - 1] /\ link[Sink] = "eof"
    BY <1>1, <1>6 DEF AtEnd, CutOff, Drained
  <2>3. /\ link[1] = "eof" => Whole(moved[0])
        /\ link[2] = "eof" /\ Route = "proxy" =>
              Whole(moved[1]) \/ (announced = Chunked /\ moved[1] >= Cap(1))
    BY <1>1 DEF TransferInv, CleanEnds, Streaming
  <2>4. ASSUME Sink = 1
        PROVE  moved[Sink] >= Cap(Sink) \/ Whole(moved[Sink])
    <3>1. CASE moved[1] >= Cap(1)
      BY <3>1, <2>4
    <3>2. CASE moved[1] = moved[0] /\ link[1] = "eof"
      BY <3>2, <2>3, <2>4
    <3> QED
      BY <3>1, <3>2, <2>2, <2>4
  <2>5. ASSUME Sink = 2
        PROVE  \/ moved[Sink] >= Cap(Sink) \/ Whole(moved[Sink])
               \/ Route = "proxy" /\ announced = Chunked /\ moved[2] >= Cap(1)
    <3>1. CASE moved[2] >= Cap(2)
      BY <3>1, <2>5
    <3>2. CASE moved[2] = moved[1] /\ link[2] = "eof"
      BY <3>2, <2>3, <2>5, <1>2
    <3> QED
      BY <3>1, <3>2, <2>2, <2>5
  <2>6. plan = UploadPlan /\ announced = UploadAnnounced
    BY <1>1 DEF TransferInv, PlanFollowsRequest
  <2> QED
    BY <2>1, <2>4, <2>5, <2>6, <1>2
<1>7. AnswerStands'
  BY <1>1, <1>2, <1>6, StreamingKeeps, SetupFixed DEF AnswerStands
<1> QED
  BY <1>1, <1>3, <1>4, <1>5, <1>7, StreamingKeeps DEF TransferInv

-----------------------------------------------------------------------------
(* Starting and ending.                                                    *)

\* A step to where nothing moves.
LEMMA AtRestStep ==
    ASSUME TransferInv, UNCHANGED setup, UNCHANGED flow,
           pc' \in {"download", "upload"} \cup Final,
           outcome' \in {"none", "200", "403", "413", "500", "502", "failed",
                         "panic"},
           reported' \in Int64 \cup {NoBytes},
           pc' \notin Final => outcome' = "none",
           CompleteDownloadIsWhole', SaneSettingsNeverPanic',
           Accepted' => Uploading /\ answer = "200" /\ reported' = UploadReport
    PROVE  TransferInv'
<1>1. UNCHANGED <<plan, announced, moved, link, answer>>
  BY DEF flow
<1>2. ~Uploading' /\ ~Moving' /\ ~Downloading'
  BY DEF Uploading, Moving, Downloading, Final
<1>3. TypeOK'
  BY <1>1, SetupFixed DEF TransferInv, TypeOK
<1>4. PlanFollowsRequest' /\ CleanEnds' /\ ReadersCapped' /\ OutcomeAtTheEnd'
  BY <1>1, <1>2 DEF TransferInv, PlanFollowsRequest, CleanEnds, ReadersCapped,
                    OutcomeAtTheEnd, Final
<1>5. AnswerStands'
  <2>1. /\ Sink \in 1..2 /\ Route' = Route /\ Sink' = Sink
        /\ UploadLimit' = UploadLimit /\ UploadPlan' = UploadPlan
        /\ UploadAnnounced' = UploadAnnounced
        /\ \A i \in 1..2 : Cap(i)' = Cap(i)
    BY SetupFixed DEF Sink
  <2>2. Cap(1)' = Cap(1) /\ Cap(Sink)' = Cap(Sink)
    BY <2>1
  <2> QED
    BY <1>1, <1>2, <2>1, <2>2 DEF TransferInv, AnswerStands, Whole
<1>6. ReportStands'
  <2>1. UploadReport' = UploadReport
    BY <1>1, SetupFixed DEF UploadReport
  <2> QED
    BY <1>1, <2>1 DEF ReportStands
<1> QED
  BY <1>3, <1>4, <1>5, <1>6 DEF TransferInv

\* A step that starts a stream.
LEMMA BeginStep ==
    ASSUME TransferInv, pc \in {"download", "upload"},
           pc' \in {"downloading", "uploading"},
           NEW total \in 0..MaxInt64, NEW length \in Nat \cup {Chunked},
           Begin(total, length),
           pc' = "downloading" => total = DownloadTotal /\ length = total,
           pc' = "uploading" => total = UploadPlan /\ length = UploadAnnounced
    PROVE  TransferInv'
<1>1. /\ plan' = total /\ announced' = length
      /\ moved' = [i \in 0..2 |-> 0] /\ link' = [i \in 1..2 |-> "open"]
      /\ answer' = "none" /\ UNCHANGED setup /\ UNCHANGED <<outcome, reported>>
  BY DEF Begin
<1>2. outcome = "none"
  BY DEF TransferInv, OutcomeAtTheEnd, Final
<1>3. TypeOK'
  BY <1>1, SetupFixed DEF TransferInv, TypeOK
<1>4. PlanFollowsRequest'
  BY <1>1, SetupFixed DEF PlanFollowsRequest, Downloading, Uploading
<1>5. CleanEnds' /\ AnswerStands'
  BY <1>1 DEF CleanEnds, AnswerStands
<1>6. ReadersCapped'
  <2>1. Sink \in 1..2 /\ Sink' = Sink
    BY <1>1, SetupFixed DEF Sink
  <2> QED
    BY <1>1, <2>1 DEF ReadersCapped
<1>7. ReportStands' /\ OutcomeAtTheEnd' /\ CompleteDownloadIsWhole'
  BY <1>1, <1>2 DEF ReportStands, Accepted, OutcomeAtTheEnd,
                    CompleteDownloadIsWhole
<1>8. SaneSettingsNeverPanic'
  BY <1>1, <1>2 DEF SaneSettingsNeverPanic
<1> QED
  BY <1>3, <1>4, <1>5, <1>6, <1>7, <1>8 DEF TransferInv

\* The pings of a test end it or lead on.
LEMMA PingStep ==
    ASSUME TransferInv, Ping
    PROVE  TransferInv'
<1>1. /\ pc = "ping" /\ UNCHANGED setup /\ UNCHANGED flow /\ UNCHANGED reported
      /\ \/ pc' = "download" /\ UNCHANGED outcome
         \/ pc' = "pinged" /\ outcome' = "failed"
         \/ /\ pc' = "pinged" /\ outcome' = "panic"
            /\ request.count > Room \/ settings.PingCount \notin 1..Room
  <2>1. request.count \in Int /\ Room \in Nat
    BY SetupTypes, SizeAssumption DEF TransferInv, Int64
  <2> QED
    BY <2>1 DEF Ping, EndAt
<1>2. outcome = "none" /\ reported \in Int64 \cup {NoBytes}
  BY <1>1 DEF TransferInv, OutcomeAtTheEnd, TypeOK, Final
<1>3. SaneSettingsNeverPanic'
  BY <1>1, <1>2, SetupFixed DEF SaneSettingsNeverPanic
<1>4. CompleteDownloadIsWhole' /\ ~Accepted'
  BY <1>1 DEF CompleteDownloadIsWhole, Accepted
<1>5. pc' \notin Final => outcome' = "none"
  BY <1>1, <1>2 DEF Final
<1> QED
  BY <1>1, <1>2, <1>3, <1>4, <1>5, AtRestStep DEF Final

\* A download starts, or is forbidden.
LEMMA BeginDownloadStep ==
    ASSUME TransferInv, BeginDownload
    PROVE  TransferInv'
<1>1. CASE pc' = "downloading" /\ Begin(DownloadTotal, DownloadTotal)
  <2>1. DownloadTotal \in 1..MaxInt64
    BY DownloadBounds DEF TransferInv
  <2>2. DownloadTotal \in 0..MaxInt64 /\ DownloadTotal \in Nat \cup {Chunked}
    BY <2>1
  <2> QED
    BY <1>1, <2>2, BeginStep DEF BeginDownload
<1>2. CASE EndAt("downloaded", "403") /\ UNCHANGED <<setup, flow, reported>>
  <2>1. /\ UNCHANGED setup /\ UNCHANGED flow /\ reported' \in Int64 \cup {NoBytes}
    BY <1>2 DEF TransferInv, TypeOK
  <2>2. CompleteDownloadIsWhole' /\ ~Accepted' /\ SaneSettingsNeverPanic'
    BY <1>2 DEF EndAt, CompleteDownloadIsWhole, Accepted, SaneSettingsNeverPanic
  <2> QED
    BY <1>2, <2>1, <2>2, AtRestStep DEF EndAt, Final
<1> QED
  BY <1>1, <1>2 DEF BeginDownload

\* An upload starts, is forbidden, or panics for want of a chunk.
LEMMA BeginUploadStep ==
    ASSUME TransferInv, BeginUpload
    PROVE  TransferInv'
<1>1. CASE /\ Route = "test" => ChunkSize >= 0
           /\ pc' = "uploading" /\ Begin(UploadPlan, UploadAnnounced)
  <2>1. UploadPlan \in 0..MaxInt64 /\ UploadAnnounced \in Nat \cup {Chunked}
    BY <1>1, UploadBounds DEF TransferInv
  <2> QED
    BY <1>1, <2>1, BeginStep DEF BeginUpload
<1>2. CASE /\ Forbidden \/ (Route = "test" /\ ChunkSize < 0)
           /\ EndAt("uploaded", IF Forbidden THEN "403" ELSE "panic")
           /\ UNCHANGED <<setup, flow, reported>>
  <2>1. /\ UNCHANGED setup /\ UNCHANGED flow /\ reported' \in Int64 \cup {NoBytes}
    BY <1>2 DEF TransferInv, TypeOK
  <2>2. CompleteDownloadIsWhole' /\ ~Accepted'
    BY <1>2 DEF EndAt, CompleteDownloadIsWhole, Accepted
  <2>3. SaneSettingsNeverPanic'
    <3>1. ASSUME outcome' = "panic"
          PROVE  settings.MaxTestBytes < 0 \/ settings.DefaultUploadBytes < 0
      <4>1. Route = "test" /\ ChunkSize < 0
        BY <3>1, <1>2 DEF EndAt
      <4>2. TestUploadBytes < 0
        BY <4>1, UploadBounds DEF TransferInv
      <4> QED
        BY <4>1, <4>2, SetupTypes, NumBytesBounds DEF TestUploadBytes, TransferInv
    <3> QED
      BY <3>1, <2>1, SetupFixed DEF SaneSettingsNeverPanic
  <2> QED
    BY <1>2, <2>1, <2>2, <2>3, AtRestStep DEF EndAt, Final
<1> QED
  BY <1>1, <1>2 DEF BeginUpload

\* The receiver of a download sees the end of it: if it is a clean one, it has
\* everything.
LEMMA EndDownloadStep ==
    ASSUME TransferInv, EndDownload
    PROVE  TransferInv'
<1>1. UNCHANGED setup /\ UNCHANGED flow /\ Downloading /\ Moving /\ ~Uploading
  BY DEF EndDownload, Downloading, Moving, Uploading
<1>2. /\ outcome = "none" /\ plan = DownloadTotal /\ announced = plan
      /\ plan \in 0..MaxInt64 /\ reported \in Int64 \cup {NoBytes}
  BY <1>1 DEF TransferInv, OutcomeAtTheEnd, PlanFollowsRequest, TypeOK,
              Downloading, Final
<1>3. CASE /\ AtEnd(Sink) /\ reported' = moved[Sink]
           /\ \/ Route = "test" /\ pc' = "upload" /\ UNCHANGED outcome
              \/ Route # "test" /\ EndAt("downloaded", "200")
  <2>1. moved[Sink] = moved[Sink - 1] /\ link[Sink] = "eof"
    BY <1>1, <1>3 DEF AtEnd, CutOff, Drained
  <2>2. /\ link[1] = "eof" => moved[0] = plan
        /\ link[2] = "eof" /\ Route = "proxy" => moved[1] = plan
    BY <1>1 DEF TransferInv, CleanEnds, Whole
  <2>3. moved[Sink] = plan
    BY <2>1, <2>2 DEF Sink
  <2>4. /\ reported' = plan /\ plan' = plan /\ DownloadTotal' = DownloadTotal
        /\ outcome' # "panic" /\ pc' # "uploaded"
        /\ pc' \in {"upload"} \cup Final /\ outcome' \in {"none", "200"}
        /\ pc' \notin Final => outcome' = "none"
    BY <1>1, <1>2, <1>3, <2>3, SetupFixed DEF flow, EndAt, Final
  <2>5. CompleteDownloadIsWhole' /\ SaneSettingsNeverPanic' /\ ~Accepted'
    BY <2>4, <1>2 DEF CompleteDownloadIsWhole, SaneSettingsNeverPanic, Accepted
  <2>6. reported' \in Int64
    BY <2>4, <1>2 DEF Int64
  <2> QED
    BY <1>1, <2>4, <2>5, <2>6, AtRestStep
<1>4. CASE EndAt("downloaded", "failed") /\ UNCHANGED reported
  <2>1. CompleteDownloadIsWhole' /\ ~Accepted' /\ SaneSettingsNeverPanic'
    BY <1>4 DEF EndAt, CompleteDownloadIsWhole, Accepted, SaneSettingsNeverPanic
  <2> QED
    BY <1>1, <1>2, <1>4, <2>1, AtRestStep DEF EndAt, Final
<1> QED
  BY <1>3, <1>4 DEF EndDownload

\* The sender of an upload has its answer.
LEMMA EndUploadStep ==
    ASSUME TransferInv, EndUpload
    PROVE  TransferInv'
<1>1. /\ UNCHANGED setup /\ UNCHANGED flow /\ Uploading /\ answer # "none"
      /\ pc' = "uploaded" /\ outcome' = answer
      /\ reported' = IF answer = "200" THEN UploadReport ELSE NoBytes
  BY DEF EndUpload, EndAt
<1>2. /\ answer \in {"200", "413", "500"} /\ plan \in 0..MaxInt64
      /\ moved[Sink] \in 0..MaxInt64
  <2>1. Sink \in 1..2
    BY DEF Sink
  <2>2. /\ plan \in Nat /\ plan <= MaxInt64 /\ moved \in [0..2 -> Nat]
        /\ moved[2] <= moved[1] /\ moved[1] <= moved[0] /\ moved[0] <= plan
    BY DEF TransferInv, TypeOK, PlanFollowsRequest
  <2>3. moved[Sink] <= MaxInt64
    <3>1. Sink = 1 \/ Sink = 2
      BY <2>1
    <3> QED
      BY <3>1, <2>2
  <2> QED
    BY <1>1, <2>1, <2>2, <2>3 DEF TransferInv, TypeOK
<1>3. UploadReport \in Int64
  BY <1>2, UploadBounds DEF UploadReport, TransferInv, Int64
<1>4. CompleteDownloadIsWhole' /\ SaneSettingsNeverPanic'
  BY <1>1, <1>2 DEF CompleteDownloadIsWhole, SaneSettingsNeverPanic
<1>5. Accepted' => answer = "200" /\ reported' = UploadReport
  BY <1>1 DEF Accepted
<1> QED
  BY <1>1, <1>2, <1>3, <1>4, <1>5, AtRestStep DEF Final

\* The sender of an upload gives up.
LEMMA FailUploadStep ==
    ASSUME TransferInv, FailUpload
    PROVE  TransferInv'
<1>1. /\ UNCHANGED setup /\ UNCHANGED flow /\ pc' = "uploaded"
      /\ outcome' \in {"502", "failed"} /\ reported' = NoBytes
  BY DEF FailUpload, EndAt
<1>2. CompleteDownloadIsWhole' /\ SaneSettingsNeverPanic' /\ ~Accepted'
  BY <1>1 DEF CompleteDownloadIsWhole, SaneSettingsNeverPanic, Accepted
<1> QED
  BY <1>1, <1>2, AtRestStep DEF Final

\* Every step keeps the invariant.
LEMMA TransferInvIsInductive ==
    ASSUME TransferInv, [Next]_vars
    PROVE  TransferInv'
<1>1. \A i \in 1..Sink : i \in 1..2
  BY DEF Sink
<1>2. ASSUME Timeout
      PROVE  TransferInv'
  <2>1. 1 \in 1..2 /\ 2 \in 1..2
    OBVIOUS
  <2> QED
    BY <1>2, <2>1, BreakStep DEF Timeout
<1>3. CASE UNCHANGED vars
  <2>1. UNCHANGED setup /\ UNCHANGED flow /\ UNCHANGED <<pc, outcome, reported>>
        /\ UNCHANGED <<plan, announced, moved, link, answer>>
    BY <1>3 DEF vars, flow
  <2>2. /\ Route' = Route /\ Sink' = Sink /\ UploadLimit' = UploadLimit
        /\ DownloadTotal' = DownloadTotal /\ UploadPlan' = UploadPlan
        /\ UploadAnnounced' = UploadAnnounced /\ UploadReport' = UploadReport
        /\ settings' = settings
    BY <2>1, SetupFixed DEF UploadReport
  <2>3. Sink \in 1..2 /\ \A i \in 1..2 : Cap(i)' = Cap(i)
    BY <2>1, SetupFixed DEF Sink
  <2>4. Cap(1)' = Cap(1) /\ Cap(Sink)' = Cap(Sink)
    BY <2>2, <2>3
  <2>5. TypeOK' /\ PlanFollowsRequest'
    BY <2>1, <2>2, SetupFixed
    DEF TransferInv, TypeOK, PlanFollowsRequest, Downloading, Uploading
  <2>6. CleanEnds' /\ AnswerStands'
    BY <2>1, <2>2, <2>3, <2>4
    DEF TransferInv, CleanEnds, AnswerStands, Whole, Moving, Uploading, Accepted
  <2>7. ReadersCapped'
    <3>1. ASSUME Uploading, NEW i \in 1..Sink, moved[i] > 0
          PROVE  moved[i] <= Cap(i)'
      <4>1. i \in 1..2
        BY <2>3
      <4> QED
        BY <4>1, <2>3, <3>1 DEF TransferInv, ReadersCapped
    <3> QED
      BY <3>1, <2>1, <2>2 DEF ReadersCapped, Uploading
  <2>8. ReportStands' /\ OutcomeAtTheEnd' /\ CompleteDownloadIsWhole'
    BY <2>1, <2>2 DEF TransferInv, ReportStands, Accepted, OutcomeAtTheEnd,
                      CompleteDownloadIsWhole
  <2>9. SaneSettingsNeverPanic'
    BY <2>1, SetupFixed DEF TransferInv, SaneSettingsNeverPanic
  <2> QED
    BY <2>5, <2>6, <2>7, <2>8, <2>9 DEF TransferInv
<1> QED
  BY <1>1, <1>2, <1>3, PingStep, BeginDownloadStep, BeginUploadStep, WriteStep,
     EndBodyStep, EndCopyStep, RespondStep, TakeStep, BreakStep,
     EndDownloadStep, EndUploadStep, FailUploadStep DEF Next

-----------------------------------------------------------------------------
(* Theorems.                                                               *)

\* Every reachable state satisfies the invariant.
THEOREM TransferInvariantHolds == Spec => []TransferInv
<1>1. Init => TransferInv
  <2> SUFFICES ASSUME Init PROVE TransferInv
    OBVIOUS
  <2>1. TypeOK
    BY DEF Init, TypeOK
  <2>2. PlanFollowsRequest /\ CleanEnds /\ ReadersCapped /\ OutcomeAtTheEnd
    BY DEF Init, PlanFollowsRequest, CleanEnds, ReadersCapped, OutcomeAtTheEnd,
           Downloading, Uploading, Moving
  <2>3. AnswerStands /\ ReportStands /\ SaneSettingsNeverPanic
    BY DEF Init, AnswerStands, ReportStands, Accepted, SaneSettingsNeverPanic
  <2>4. CompleteDownloadIsWhole
    BY DEF Init, CompleteDownloadIsWhole
  <2> QED
    BY <2>1, <2>2, <2>3, <2>4 DEF TransferInv
<1> QED
  BY <1>1, TransferInvIsInductive, PTL DEF Spec

\* The variables keep their types, and no reader is ahead of its writer.
THEOREM TransferTypeCorrect == Spec => []TypeOK
  BY TransferInvariantHolds, PTL DEF TransferInv

\* No server sends or reads beyond its limit.
THEOREM LimitsAreKept == Spec => []LimitsHold
<1>1. TransferInv => LimitsHold
  <2> SUFFICES ASSUME TransferInv PROVE LimitsHold
    OBVIOUS
  <2>1. /\ moved \in [0..2 -> Nat] /\ plan \in Nat /\ moved[0] <= plan
        /\ TypeOK
    BY DEF TransferInv, TypeOK
  <2>2. ASSUME pc = "downloading"
        PROVE  /\ AtMost(moved[0], IF Route = "centre" THEN settings.MaxTestBytes
                                                       ELSE settings.maxTestBytes)
               /\ Route = "test" => AtMost(moved[0], settings.MaxTestBytes)
    <3>1. plan = DownloadTotal
      BY <2>2 DEF TransferInv, PlanFollowsRequest, Downloading
    <3>2. ASSUME NEW limit \in Int, AtMost(plan, limit)
          PROVE  AtMost(moved[0], limit)
      BY <2>1, <3>2 DEF AtMost
    <3> QED
      BY <2>1, <3>1, <3>2, DownloadBounds, SetupTypes DEF Int64
  <2>3. ASSUME Uploading
        PROVE  /\ moved[Sink] > 0 => moved[Sink] <= UploadLimit + 1
               /\ Route = "proxy" /\ moved[1] > 0 =>
                     moved[1] <= settings.MaxTestBytes + 1
               /\ Route = "test" /\ moved[0] > 0 =>
                     moved[0] <= settings.MaxTestBytes
    <3>1. \A i \in 1..Sink : moved[i] > 0 => moved[i] <= Cap(i)
      BY <2>3 DEF TransferInv, ReadersCapped
    <3>2. Sink \in 1..Sink /\ 1 \in 1..Sink /\ moved[Sink] \in Nat
      BY <2>1 DEF Sink
    <3>3. UploadLimit \in Int /\ Cap(Sink) \in Int /\ Cap(Sink) <= UploadLimit + 1
      BY <2>1, CapBounds DEF Int64
    <3>4. moved[Sink] > 0 => moved[Sink] <= UploadLimit + 1
      BY <3>1, <3>2, <3>3
    <3>5. Route = "proxy" /\ moved[1] > 0 => moved[1] <= settings.MaxTestBytes + 1
      <4>1. ASSUME Route = "proxy"
            PROVE  /\ settings.MaxTestBytes \in Int /\ Cap(1) \in Int
                   /\ Cap(1) <= settings.MaxTestBytes + 1
        <5>1. Sink # 1
          BY <4>1 DEF Sink
        <5> QED
          BY <5>1, <2>1, CapBounds DEF Int64
      <4> QED
        BY <4>1, <3>1, <3>2, <2>1
    <3>6. Route = "test" /\ moved[0] > 0 => moved[0] <= settings.MaxTestBytes
      <4>1. ASSUME Route = "test", moved[0] > 0
            PROVE  moved[0] <= settings.MaxTestBytes
        <5>1. plan = RepeatedBytes
          BY <2>3, <4>1 DEF TransferInv, PlanFollowsRequest, UploadPlan
        <5>2. plan = TestUploadBytes
          BY <5>1, <4>1, <2>1 DEF RepeatedBytes
        <5>3. TestUploadBytes <= settings.MaxTestBytes
          BY <4>1, <2>1, SetupTypes, NumBytesBounds DEF TestUploadBytes
        <5>4. settings.MaxTestBytes \in Int /\ moved[0] \in Int
          BY <2>1, SetupTypes DEF Int64
        <5> QED
          BY <5>2, <5>3, <5>4, <2>1
      <4> QED
        BY <4>1
    <3> QED
      BY <3>4, <3>5, <3>6
  <2> QED
    BY <2>2, <2>3 DEF LimitsHold
<1> QED
  BY <1>1, TransferInvariantHolds, PTL

\* An upload answered 200 has arrived in full and is reported in full.
THEOREM AcceptedArrived == Spec => []AcceptedInFull
<1>1. TransferInv => AcceptedInFull
  <2> SUFFICES ASSUME TransferInv, Accepted, ~Overflows,
                      Route = "proxy" /\ request.length = Chunked =>
                         settings.maxTestBytes <= settings.MaxTestBytes
               PROVE  moved[Sink] = UploadPlan /\ reported = UploadPlan
    BY DEF AcceptedInFull
  <2>1. /\ answer = "200" /\ reported = UploadReport
        /\ plan = UploadPlan /\ announced = UploadAnnounced
        /\ moved[Sink] <= UploadLimit
        /\ \/ moved[Sink] >= Cap(Sink)
           \/ Whole(moved[Sink])
           \/ Route = "proxy" /\ announced = Chunked /\ moved[2] >= Cap(1)
    BY DEF TransferInv, ReportStands, AnswerStands
  <2>2. Sink \in 1..2 /\ moved[Sink] \in Int /\ TypeOK
    BY DEF Sink, TransferInv, TypeOK
  <2>3. UploadLimit \in Int /\ Cap(Sink) = UploadLimit + 1
    BY <2>2, CapBounds DEF Overflows, Int64
  <2>4. ~(moved[Sink] >= Cap(Sink))
    BY <2>1, <2>2, <2>3
  <2>5. ~(Route = "proxy" /\ announced = Chunked /\ moved[2] >= Cap(1))
    <3> SUFFICES ASSUME Route = "proxy", announced = Chunked, moved[2] >= Cap(1)
                 PROVE  FALSE
      OBVIOUS
    <3>1. Sink = 2 /\ UploadLimit = settings.maxTestBytes
          /\ request.length = Chunked
      BY <2>1 DEF Sink, UploadLimit, UploadAnnounced
    <3>2. Cap(1) = settings.MaxTestBytes + 1 /\ settings.MaxTestBytes \in Int
          /\ settings.maxTestBytes \in Int
      BY <3>1, <2>2, CapBounds, SetupTypes DEF Overflows, Int64
    <3> QED
      BY <3>1, <3>2, <2>1, <2>2
  <2>6. Whole(moved[Sink])
    BY <2>1, <2>4, <2>5
  <2>7. moved[Sink] = UploadPlan
    BY <2>1, <2>6 DEF Whole
  <2>8. UploadReport = UploadPlan
    <3>1. ASSUME Route = "test"
          PROVE  TestUploadBytes = UploadPlan
      <4>1. /\ UploadAnnounced = IF TestUploadBytes > 0 THEN TestUploadBytes
                                                        ELSE Chunked
            /\ UploadAnnounced \in {Chunked, UploadPlan}
            /\ UploadPlan = IF ChunkSize = 0 THEN 0 ELSE TestUploadBytes
        BY <2>1, <2>6, <3>1 DEF Whole, UploadAnnounced, UploadPlan, RepeatedBytes
      <4>2. TestUploadBytes \in Int /\ Chunked \notin Int
        BY <2>2, <3>1, UploadBounds DEF Int64
      <4>3. CASE TestUploadBytes > 0
        BY <4>1, <4>2, <4>3
      <4>4. CASE ~(TestUploadBytes > 0)
        <5>1. ChunkSize = TestUploadBytes \/ ChunkSize = 0 \/ TestUploadBytes = 0
          BY <4>2, <4>4, <2>2, SetupTypes DEF ChunkSize
        <5>2. UploadPlan \in Nat /\ (ChunkSize = 0 => TestUploadBytes >= 0)
          BY <2>1, <2>2, <4>2, SetupTypes DEF ChunkSize, TypeOK
        <5> QED
          BY <5>1, <5>2, <4>1, <4>2, <4>4
      <4> QED
        BY <4>3, <4>4
    <3> QED
      BY <3>1, <2>7 DEF UploadReport
  <2> QED
    BY <2>1, <2>7, <2>8
<1> QED
  BY <1>1, TransferInvariantHolds, PTL

\* A download taken for complete has all its bytes.
THEOREM DownloadsAreWhole == Spec => []CompleteDownloadIsWhole
  BY TransferInvariantHolds, PTL DEF TransferInv

\* No test panics as long as the settings are sane.
THEOREM NoPanic == Spec => []SaneSettingsNeverPanic
  BY TransferInvariantHolds, PTL DEF TransferInv

=============================================================================
