------------------------------- MODULE Transfer -------------------------------
(***************************************************************************)
(* One measurement and its bytes: /download and /upload of a node          *)
(* (cmd/node/server.go), the same of the centre itself (cmd/web/server.go),*)
(* a node's relayed by the centre (the proxies of cmd/web/nodes.go), and   *)
(* the speed test the centre runs against a node (cmd/web/nodeclient.go).  *)
(*                                                                         *)
(* Handlers of different requests share nothing but read-only settings, so *)
(* one measurement is enough.  What is uncertain is inside it: each hop    *)
(* hands bytes on at its own pace, may break at any point, and a server    *)
(* may answer an upload before its sender is done.  Byte counts are int64  *)
(* and wrap; MaxInt64 scales them down.                                    *)
(***************************************************************************)
EXTENDS Integers

CONSTANTS MaxInt64,     \* the largest int64
          Limits,       \* bound: the values of MAX_TEST_BYTES considered
          Defaults,     \* bound: DEFAULT_DOWNLOAD_BYTES, DEFAULT_UPLOAD_BYTES
          Chunks,       \* bound: STREAM_CHUNK_BYTES
          Counts,       \* bound: PING_COUNT, ping_count
          Room,         \* the most latencies that a slice can be made for
          Asked,        \* bound: the byte counts asked for
          Sizes,        \* bound: the lengths of the bodies browsers send
          Routes,       \* the routes considered
          NodeDefault,  \* the 10_000_000 of handleDownload
          Absent,       \* no bytes parameter
          Garbage,      \* one that is no int64
          Chunked,      \* no Content-Length
          NoBytes       \* nothing reported

Int64 == (-MaxInt64 - 1)..MaxInt64

ASSUME SizeAssumption == /\ MaxInt64 \in Nat \ {0} /\ NodeDefault \in 1..MaxInt64
                         /\ Room \in Nat
ASSUME RangeAssumption ==
    /\ Limits \subseteq Int64 /\ Defaults \subseteq Int64
    /\ Asked \subseteq Int64 /\ Counts \subseteq Int64
    /\ Sizes \subseteq 0..MaxInt64
    \* A negative STREAM_CHUNK_BYTES stops NewServer.
    /\ Chunks \subseteq 0..MaxInt64
    /\ Routes \subseteq {"node", "centre", "proxy", "test"}
ASSUME SentinelAssumption ==
    \A s \in {Absent, Garbage, Chunked, NoBytes} : s \notin Int

VARIABLES settings,     \* of the centre; maxTestBytes is the node's
          request,      \* what the browser or the administrator sends
          pc,           \* where the measurement is
          plan,         \* the bytes the source of the body will produce
          announced,    \* the Content-Length it announces
          moved,        \* moved[0]: bytes sent; moved[i]: bytes taken from link i
          link,         \* the connections, from the source of the body to its sink
          answer,       \* what the sink of an upload has answered
          outcome,      \* what the caller, or measure* of the centre, got
          reported      \* the bytes it says were transferred

setup == <<settings, request>>
flow == <<plan, announced, moved, link, answer>>
vars == <<setup, pc, flow, outcome, reported>>

SettingsOK ==
    settings \in [maxTestBytes : Limits, MaxTestBytes : Limits,
                  DefaultDownloadBytes : Defaults,
                  DefaultUploadBytes : Defaults,
                  StreamChunkBytes : Chunks, PingCount : Counts,
                  EnableCentralSpeedtest : BOOLEAN,
                  HasTimeout : BOOLEAN] \* NODE_CONNECT_TIMEOUT and
                                        \* NODE_REQUEST_TIMEOUT are positive

\* bytes is the query parameter, or download_bytes of a test (0: not given);
\* upload_bytes of a test is taken from it too.  size and length are the body
\* and Content-Length of an upload.
RequestOK ==
    /\ request \in [route : Routes, bytes : Asked \cup {Absent, Garbage},
                    size : Sizes, length : Sizes \cup {Chunked},
                    count : Counts]
    /\ request.length \in {request.size, Chunked}
    /\ request.route = "test" => request.bytes \in Asked

Route == request.route

-----------------------------------------------------------------------------
(* Sizes.                                                                  *)

\* n + 1 of int64.
Plus1(n) == IF n = MaxInt64 THEN -MaxInt64 - 1 ELSE n + 1

\* Seeded fault: an upper limit and nothing else.
ClampedAbove(n, max) == IF n > max THEN max ELSE n

\* Seeded fault: a lower limit and nothing else.
ClampedBelow(n, max) == IF n < 1 THEN 1 ELSE n

\* total of both handleDownload and handleDirectDownload.
Clamped(n, max) ==
    LET total == IF n > max THEN max ELSE n IN IF total < 1 THEN 1 ELSE total

\* The node takes any int64 as it is.
NodeTotal(bytes) ==
    Clamped(IF bytes \in Int64 THEN bytes ELSE NodeDefault,
            settings.maxTestBytes)

\* The centre takes positive ones only.
DirectTotal(bytes) ==
    Clamped(IF bytes \in Int64 /\ bytes \in Nat \ {0}
            THEN bytes ELSE settings.DefaultDownloadBytes,
            settings.MaxTestBytes)

\* The query the proxy makes of the browser's.
ProxiedBytes(bytes) ==
    IF bytes = Absent THEN settings.DefaultDownloadBytes ELSE bytes

\* Seeded fault: the default replaces a missing count only.
NumBytesAsGiven(bytes, default) ==
    LET n == IF bytes = 0 THEN default ELSE bytes
    IN  IF n > settings.MaxTestBytes THEN settings.MaxTestBytes ELSE n

\* Seeded fault: the limit is the node's business.
NumBytesUnlimited(bytes, default) == IF bytes <= 0 THEN default ELSE bytes

\* numBytes of measureDownload and measureUpload.
NumBytes(bytes, default) ==
    LET n == IF bytes <= 0 THEN default ELSE bytes
    IN  IF n > settings.MaxTestBytes THEN settings.MaxTestBytes ELSE n

DownloadTotal ==
    CASE Route = "node"   -> NodeTotal(request.bytes)
      [] Route = "centre" -> DirectTotal(request.bytes)
      [] Route = "proxy"  -> NodeTotal(ProxiedBytes(request.bytes))
      [] Route = "test"   -> NodeTotal(NumBytes(request.bytes,
                                          settings.DefaultDownloadBytes))

TestUploadBytes == NumBytes(request.bytes, settings.DefaultUploadBytes)

\* make([]byte, chunkSize), where chunkSize is at most numBytes.
ChunkSize == IF settings.StreamChunkBytes > TestUploadBytes
             THEN TestUploadBytes ELSE settings.StreamChunkBytes

\* What repeatReader yields: nothing from an empty chunk.
RepeatedBytes == IF ChunkSize = 0 THEN 0 ELSE TestUploadBytes

UploadPlan == IF Route = "test" THEN RepeatedBytes ELSE request.size

\* A ContentLength of 0 with a body is an unknown one.
UploadAnnounced ==
    IF Route = "test"
    THEN IF TestUploadBytes > 0 THEN TestUploadBytes ELSE Chunked
    ELSE request.length

\* The limit of the server an upload ends at.
UploadLimit == IF Route = "centre" THEN settings.MaxTestBytes
                                   ELSE settings.maxTestBytes

Sink == IF Route = "proxy" THEN 2 ELSE 1

-----------------------------------------------------------------------------
(* Readers.                                                                *)

\* Seeded fault: the reader stops at the limit, so that what is beyond it is
\* never noticed.
CapAtLimit(i) == IF i = Sink THEN UploadLimit ELSE settings.MaxTestBytes

\* The n of io.LimitReader(r.Body, n) at the end of link i.
Cap(i) == Plus1(IF i = Sink THEN UploadLimit ELSE settings.MaxTestBytes)

Uploading == pc = "uploading"

\* LimitReader reports the end of the stream.
CutOff(i) == Uploading /\ moved[i] >= Cap(i)

Drained(i) == moved[i] = moved[i - 1]

\* Seeded fault: the error of io.Copy is dropped.
EndedAnyhow(i) == CutOff(i) \/ (Drained(i) /\ link[i] # "open")

\* The reader of link i has come to the end of what it is to read.
AtEnd(i) == CutOff(i) \/ (Drained(i) /\ link[i] = "eof")

\* Seeded fault: a response without Content-Length just ends with its body.
LengthDropped(i) == TRUE

\* What went through link i agrees with its Content-Length, if any: net/http
\* fails a request, and breaks off a response, that does not.  The upload proxy
\* repeats the browser's, the download proxy the node's.
LengthHonoured(i) == announced \in {Chunked, moved[i - 1]}

\* The end of the body is passed on to link i.
Closed(i) == [link EXCEPT ![i] = IF LengthHonoured(i) THEN "eof" ELSE "broken"]

-----------------------------------------------------------------------------
(* Moving bytes.                                                           *)

Moving == pc \in {"downloading", "uploading"}

\* The source writes on: the loops of the download handlers, a browser, or
\* repeatReader.
Write ==
    /\ Moving /\ link[1] = "open"
    /\ moved[0] < plan
    /\ moved' = [moved EXCEPT ![0] = @ + 1]
    /\ UNCHANGED <<setup, pc, plan, announced, link, answer, outcome, reported>>

EndBody ==
    /\ Moving /\ link[1] = "open"
    /\ moved[0] = plan
    /\ link' = Closed(1)
    /\ UNCHANGED <<setup, pc, plan, announced, moved, answer, outcome, reported>>

\* The reader of link i, a proxy or the sink, takes some more.
Take(i) ==
    /\ Moving
    /\ ~CutOff(i) /\ ~Drained(i)
    /\ link[i] # "broken"
    /\ i < Sink => link[i + 1] = "open"
    /\ i = Sink => answer = "none"
    /\ moved' = [moved EXCEPT ![i] = @ + 1]
    /\ UNCHANGED <<setup, pc, plan, announced, link, answer, outcome, reported>>

\* The proxy has read to the end, or its reading fails.  The request of an
\* upload fails with it; the download proxy drops the error of io.Copy, and what
\* tells the browser is the Content-Length alone.
EndCopy ==
    /\ Moving /\ Route = "proxy" /\ link[2] = "open"
    /\ \/ /\ AtEnd(1) \/ (~Uploading /\ link[1] = "broken")
          /\ link' = Closed(2)
       \/ /\ Uploading /\ link[1] = "broken"
          /\ link' = [link EXCEPT ![2] = "broken"]
    /\ UNCHANGED <<setup, pc, plan, announced, moved, answer, outcome, reported>>

\* A connection is lost, whatever is still in it.
Break(i) ==
    /\ Moving /\ link[i] # "broken"
    /\ link' = [link EXCEPT ![i] = "broken"]
    /\ UNCHANGED <<setup, pc, plan, announced, moved, answer, outcome, reported>>

\* Seeded fault: the client that uploads has no timeout.
TimeoutOfDownloads ==
    /\ pc = "downloading" /\ settings.HasTimeout
    /\ \/ Route = "test" /\ Break(1)
       \/ Route = "proxy" /\ Break(1)

\* The Timeout of the centre's http.Client runs out: it covers the whole
\* exchange with the node, the bodies included.
Timeout ==
    /\ Moving /\ settings.HasTimeout
    /\ \/ Route = "test" /\ Break(1)
       \/ Route = "proxy" /\ Break(IF Uploading THEN 2 ELSE 1)

\* handleUpload and handleDirectUpload, when their io.Copy is over.
Respond ==
    /\ Uploading /\ answer = "none"
    /\ \/ /\ AtEnd(Sink)
          /\ answer' = IF moved[Sink] > UploadLimit THEN "413" ELSE "200"
       \/ ~CutOff(Sink) /\ link[Sink] = "broken" /\ answer' = "500"
    /\ UNCHANGED <<setup, pc, plan, announced, moved, link, outcome, reported>>

-----------------------------------------------------------------------------
(* Starting and ending.                                                    *)

Forbidden == Route = "centre" /\ ~settings.EnableCentralSpeedtest

Begin(total, length) ==
    /\ plan' = total
    /\ announced' = length
    /\ moved' = [i \in 0..2 |-> 0]
    /\ link' = [i \in 1..2 |-> "open"]
    /\ answer' = "none"
    /\ UNCHANGED <<setup, outcome, reported>>

EndAt(final, what) == pc' = final /\ outcome' = what

\* measurePing: every request is answered, or one fails, or the node's address is
\* not permitted any more.
Ping ==
    LET count == IF request.count <= 0 THEN settings.PingCount
                                       ELSE request.count IN
    /\ pc = "ping"
    /\ \/ count \in 1..Room /\ pc' = "download" /\ UNCHANGED outcome
       \/ EndAt("pinged", "failed")
       \* The make of a slice that is too large or negative, or latencies[0] of an
       \* empty one: net/http recovers the panic and drops the connection, but
       \* nothing recovers a make that exhausts the memory.
       \/ count \notin 1..Room /\ EndAt("pinged", "panic")
    /\ UNCHANGED <<setup, flow, reported>>

BeginDownload ==
    /\ pc = "download"
    /\ \/ /\ ~Forbidden
          /\ pc' = "downloading"
          /\ Begin(DownloadTotal, DownloadTotal)
       \/ /\ Forbidden
          /\ EndAt("downloaded", "403")
          /\ UNCHANGED <<setup, flow, reported>>

BeginUpload ==
    /\ pc = "upload"
    /\ \/ /\ ~Forbidden /\ (Route = "test" => ChunkSize >= 0)
          /\ pc' = "uploading"
          /\ Begin(UploadPlan, UploadAnnounced)
       \/ /\ Forbidden \/ (Route = "test" /\ ChunkSize < 0)
          /\ EndAt("uploaded", IF Forbidden THEN "403" ELSE "panic")
          /\ UNCHANGED <<setup, flow, reported>>

\* The receiver of a download sees its end, or that it was cut short.
EndDownload ==
    /\ pc = "downloading"
    /\ \/ /\ AtEnd(Sink)
          /\ reported' = moved[Sink]
          /\ \/ Route = "test" /\ pc' = "upload" /\ UNCHANGED outcome
             \/ Route # "test" /\ EndAt("downloaded", "200")
       \/ /\ link[Sink] = "broken"
          /\ EndAt("downloaded", "failed")
          /\ UNCHANGED reported
    /\ UNCHANGED <<setup, flow>>

\* What the sender reports of an upload that was accepted: measureUpload what
\* it meant to send, a browser what the server says it read.
UploadReport == IF Route = "test" THEN TestUploadBytes ELSE moved[Sink]

\* The answer reaches the sender, through the proxy as it is.
EndUpload ==
    /\ Uploading /\ answer # "none"
    /\ \A i \in 1..Sink : link[i] # "broken"
    /\ EndAt("uploaded", answer)
    /\ reported' = IF answer = "200" THEN UploadReport ELSE NoBytes
    /\ UNCHANGED <<setup, flow>>

\* client.Do of the centre, or the browser's fetch, fails: an answer that may
\* already be under way is not waited for.
FailUpload ==
    /\ Uploading
    /\ \/ Route = "proxy" /\ link[2] = "broken" /\ EndAt("uploaded", "502")
       \/ link[1] = "broken" /\ EndAt("uploaded", "failed")
    /\ reported' = NoBytes
    /\ UNCHANGED <<setup, flow>>

Least(S) == CHOOSE n \in S : \A m \in S : n <= m

\* What the measurement never looks at is fixed, to keep instances small.
OnlyWhatIsRead ==
    /\ Route # "centre" => settings.EnableCentralSpeedtest
    /\ Route \in {"node", "centre"} => settings.HasTimeout
    /\ Route # "test" =>
          /\ settings.DefaultUploadBytes = Least(Defaults)
          /\ settings.PingCount = Least(Counts)
          /\ request.count = Least(Counts)
    /\ pc # "upload" => request.size = Least(Sizes) /\ request.length = Chunked
    /\ pc = "upload" =>
          /\ request.bytes = Absent
          /\ settings.DefaultDownloadBytes = Least(Defaults)

Init ==
    /\ SettingsOK
    /\ RequestOK
    /\ pc \in IF Route = "test" THEN {"ping"} ELSE {"download", "upload"}
    /\ OnlyWhatIsRead
    /\ plan = 0
    /\ announced = 0
    /\ moved = [i \in 0..2 |-> 0]
    /\ link = [i \in 1..2 |-> "open"]
    /\ answer = "none"
    /\ outcome = "none"
    /\ reported = NoBytes

\* The steps of the centre while it tests a node.
TestStep ==
    /\ Route = "test"
    /\ \/ Ping \/ BeginDownload \/ EndDownload \/ BeginUpload
       \/ EndUpload \/ FailUpload

Next ==
    \/ Ping \/ BeginDownload \/ BeginUpload
    \/ Write \/ EndBody \/ EndCopy \/ Respond
    \/ \E i \in 1..Sink : Take(i) \/ Break(i)
    \/ Timeout
    \/ EndDownload \/ EndUpload \/ FailUpload

Spec == Init /\ [][Next]_vars

\* The centre goes on with a test, and lets a proxied upload fail, whenever it
\* can, and its timers fire.  Nodes and browsers may stop reading, writing or
\* answering for ever.
FairSpec ==
    /\ Spec
    /\ WF_vars(TestStep)
    /\ WF_vars(Timeout)
    /\ WF_vars(Route = "proxy" /\ FailUpload)

-----------------------------------------------------------------------------
(* Properties.                                                             *)

Final == {"pinged", "downloaded", "uploaded"}

\* Types; no reader is ahead of its writer, and no sender beyond its plan.
TypeOK ==
    /\ SettingsOK /\ RequestOK
    /\ pc \in {"ping", "download", "downloading", "upload", "uploading"} \cup Final
    /\ plan \in Nat
    /\ announced \in Nat \cup {Chunked}
    /\ moved \in [0..2 -> Nat]
    /\ link \in [1..2 -> {"open", "eof", "broken"}]
    /\ answer \in {"none", "200", "413", "500"}
    /\ outcome \in {"none", "200", "403", "413", "500", "502", "failed", "panic"}
    /\ reported \in Int64 \cup {NoBytes}
    /\ moved[2] <= moved[1] /\ moved[1] <= moved[0] /\ moved[0] <= plan

AtMost(n, limit) == n <= limit \/ n <= 1

\* README.md:13 of the repository: MAX_TEST_BYTES bounds what is transferred.
\* However the hops are paced or break, a server sends no more than its limit
\* (one byte if that is not positive) and reads no more than one byte beyond
\* it; a test stays within both limits, and the centre forwards no more of an
\* upload than one byte beyond its own.
LimitsHold ==
    /\ pc = "downloading" =>
          /\ AtMost(moved[0], IF Route = "centre" THEN settings.MaxTestBytes
                                                 ELSE settings.maxTestBytes)
          /\ Route = "test" => AtMost(moved[0], settings.MaxTestBytes)
    /\ Uploading =>
          /\ moved[Sink] > 0 => moved[Sink] <= UploadLimit + 1
          /\ Route = "proxy" /\ moved[1] > 0 =>
                moved[1] <= settings.MaxTestBytes + 1
          /\ Route = "test" /\ moved[0] > 0 =>
                moved[0] <= settings.MaxTestBytes

\* maxTestBytes + 1 wraps on the way of this upload.
Overflows == \/ UploadLimit = MaxInt64
             \/ Route = "proxy" /\ settings.MaxTestBytes = MaxInt64

Accepted == pc = "uploaded" /\ outcome = "200"

\* An upload that is answered 200 has reached its server in full and is reported
\* with its full size, however the hops were paced, cut or broken: neither a
\* limit met at one of two hops, nor a connection lost on the way, makes a part
\* of a body pass for all of it.  It takes that no limit on the way wraps, and,
\* for a body of unknown length, that the centre does not cut off what the node
\* would have refused (cmd/web/nodes.go:419).
AcceptedInFull ==
    /\ Accepted
    /\ ~Overflows
    /\ Route = "proxy" /\ request.length = Chunked =>
          settings.maxTestBytes <= settings.MaxTestBytes
    => moved[Sink] = UploadPlan /\ reported = UploadPlan

\* A download that its receiver takes for complete has all the bytes that were
\* announced, also when it came through the proxy, which ignores the errors of
\* its io.Copy (cmd/web/nodes.go:380).
CompleteDownloadIsWhole ==
    \/ pc = "downloaded" /\ outcome = "200"
    \/ Route = "test" /\ pc = "upload"
    => reported = plan /\ plan = DownloadTotal

\* No test panics in the centre, whatever sizes it asks for, as long as neither
\* the limit nor the default of an upload is negative, PING_COUNT is positive and
\* there is room for the latencies of as many pings as it, or the request, asks
\* for.  The makes of the latencies (cmd/web/nodeclient.go:78) and of the chunk
\* (:180) and latencies[0] (:101) are the places where it could.  Nothing bounds
\* the ping_count of a request (cmd/web/nodes.go:219-222).
SaneSettingsNeverPanic ==
    outcome = "panic" =>
        \/ settings.PingCount \notin 1..Room \/ request.count > Room
        \/ settings.MaxTestBytes < 0 \/ settings.DefaultUploadBytes < 0

\* As long as the timeouts are positive, a node that stops reading, writing or
\* answering holds up neither a test nor a proxied upload for ever.
HandlersEnd ==
    /\ settings.HasTimeout
    /\ Route = "test" \/ (Route = "proxy" /\ Uploading)
    ~> pc \in Final
=============================================================================
