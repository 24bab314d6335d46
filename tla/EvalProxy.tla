----------------------------- MODULE EvalProxy ------------------------------
(***************************************************************************)
(* The model proxy of an evaluation (kraai-eval/src/proxy): every model    *)
(* request of the agent under test goes through it, and its tokens are     *)
(* what the evaluation reports.  Clients disconnect, the upstream fails,   *)
(* and the proxy is stopped while requests are still running: it drains    *)
(* them for a while and aborts the rest.                                   *)
(*                                                                         *)
(* A response is a short sequence of chunks, each the token usage it       *)
(* carries (0: none).  Headers, fingerprints and bytes are left out.       *)
(***************************************************************************)
EXTENDS Naturals, Sequences, FiniteSets, FiniteSetsExt

CONSTANTS
    Conns,        \* the connections clients open
    MaxChunks,    \* bound: the chunks of a response
    MaxUsage,     \* bound: the usage a chunk reports
    MaxRequests,  \* max_requests of the proxy
    MaxFaults     \* bound: failed writes of the event log

VARIABLES
    phase,    \* "starting", "serving", "draining", "aborting", "closed", "reported"
    conn,     \* [Conns -> the connection and its record]
    count,    \* request_count
    started,  \* started_requests
    metrics,  \* the shared ProxyMetrics
    log,      \* proxy.events.jsonl
    report,   \* the accounting of the report
    faults    \* ghost

vars == <<phase, conn, count, started, metrics, log, report, faults>>

Responses == [1..MaxChunks -> 0..MaxUsage]

RequestKinds == {"malformed", "barred", "model", "models"}
NoConn == [pc |-> "none", kind |-> "none", status |-> "none", response |-> <<>>, read |-> 0,
           gone |-> FALSE, broken |-> FALSE, sends |-> 0]
NoReport == [of |-> "none", model |-> 0, samples |-> 0, input |-> 0, unrecorded |-> 0]
NoMetrics == [requests |-> 0, successful |-> 0, failed |-> 0, disconnects |-> 0, usage |-> 0,
              unrecorded |-> 0]

ProxyTypeOK ==
    /\ phase \in {"starting", "serving", "draining", "aborting", "closed", "reported"}
    /\ \A c \in Conns :
         /\ conn[c].pc \in {"none", "reading", "forward", "upstream", "relay", "done"}
         /\ conn[c].kind \in RequestKinds \cup {"none"}
         /\ conn[c].status \in {"none", "ok", "bad", "refused", "gateway"}
         /\ conn[c].read \in 0..Len(conn[c].response) /\ conn[c].sends \in 0..2
    /\ count \in 0..Cardinality(Conns) /\ started \in 0..Cardinality(Conns)
    /\ Len(log) <= Cardinality(Conns) /\ faults \in 0..MaxFaults

Init ==
    /\ phase = "starting" /\ conn = [c \in Conns |-> NoConn]
    /\ count = 0 /\ started = 0 /\ metrics = NoMetrics
    /\ log = <<>> /\ report = NoReport /\ faults = 0

-----------------------------------------------------------------------------
(* The usage of a response body: the last line that reports one. *)
Reporting(body) == {i \in 1..Len(body) : body[i] > 0}
UsageOf(body) == IF Reporting(body) = {} THEN 0 ELSE body[Max(Reporting(body))]

Received(k) == SubSeq(k.response, 1, k.read)

(* The record of a request, when it is finished or dropped: usage, then the counters. *)
Counted(k, failed) ==
    [metrics EXCEPT
        !.usage = @ + UsageOf(Received(k)),
        !.requests = @ + 1,
        !.successful = IF ~failed /\ k.status = "ok" THEN @ + 1 ELSE @,
        !.failed = IF ~failed /\ k.status = "ok" THEN @ ELSE @ + 1,
        !.disconnects = IF k.gone THEN @ + 1 ELSE @]

Event(c, k) == [conn |-> c, kind |-> k.kind, status |-> k.status, usage |-> UsageOf(Received(k))]

(* Finishing the record of c, whose state is then k.  The metrics are updated before the event is
   written, and the write may fail. *)
Finish(c, k, failed) ==
    /\ metrics' = Counted(k, failed)
    /\ conn' = [conn EXCEPT ![c] = [k EXCEPT !.pc = "done", !.broken = failed, !.gone = FALSE, !.sends = Min({1, @})]]
    /\ \/ log' = Append(log, Event(c, k)) /\ UNCHANGED faults
       \/ faults < MaxFaults /\ faults' = faults + 1 /\ UNCHANGED log
       \/ faults < MaxFaults /\ faults' = faults + 1 /\ log' = Append(log, [Event(c, k) EXCEPT !.kind = "torn"])

Running == {c \in Conns : conn[c].pc \notin {"none", "done"}}
Alive == phase \in {"serving", "draining"}

-----------------------------------------------------------------------------
(* The service: ready once it listens; stopped when its input closes. *)
Ready ==
    /\ phase = "starting" /\ phase' = "serving"
    /\ UNCHANGED <<conn, count, started, metrics, log, report, faults>>

Accept(c) ==
    /\ phase = "serving" /\ conn[c].pc = "none"
    /\ \E kind \in RequestKinds : conn' = [conn EXCEPT ![c] = [NoConn EXCEPT !.pc = "reading", !.kind = kind]]
    /\ UNCHANGED <<phase, count, started, metrics, log, report, faults>>

(* A request that cannot be read is answered and has no record. *)
ReadRequest(c) ==
    /\ Alive /\ conn[c].pc = "reading"
    /\ IF conn[c].kind = "malformed"
       THEN conn' = [conn EXCEPT ![c].pc = "done"] /\ UNCHANGED started
       ELSE conn' = [conn EXCEPT ![c].pc = "forward"] /\ started' = started + 1
    /\ UNCHANGED <<phase, count, metrics, log, report, faults>>

(* A "barred" request names another path, lacks the proxy's token, or is neither GET nor POST.
   Then comes the limit, which counts what it refuses. *)

Admitted == count < MaxRequests
Refused(c) == conn[c].kind = "barred" \/ ~Admitted

Forward(c) ==
    LET k == conn[c] IN
    /\ Alive /\ k.pc = "forward"
    /\ count' = IF k.kind = "barred" THEN count ELSE count + 1
    /\ IF Refused(c)
       THEN Finish(c, [k EXCEPT !.status = "refused"], FALSE)
       ELSE /\ conn' = [conn EXCEPT ![c].pc = "upstream", ![c].sends = 1]
            /\ UNCHANGED <<metrics, log, faults>>
    /\ UNCHANGED <<phase, started, report>>

(* The upstream's headers.  A subscription request that is refused is sent once more with a
   refreshed credential. *)
Resend(c) ==
    /\ Alive /\ conn[c].pc = "upstream" /\ conn[c].sends = 1
    /\ conn' = [conn EXCEPT ![c].sends = 2]
    /\ UNCHANGED <<phase, count, started, metrics, log, report, faults>>

UpstreamAnswers(c) ==
    /\ Alive /\ conn[c].pc = "upstream"
    /\ \E status \in {"ok", "bad"}, response \in Responses :
         conn' = [conn EXCEPT ![c].pc = "relay", ![c].status = status,
                              ![c].response = IF status = "ok" THEN response ELSE <<>>]
    /\ UNCHANGED <<phase, count, started, metrics, log, report, faults>>

UpstreamUnreachable(c) ==
    /\ Alive /\ conn[c].pc = "upstream"
    /\ Finish(c, [conn[c] EXCEPT !.status = "gateway"], TRUE)
    /\ UNCHANGED <<phase, count, started, report>>

(* The client closes its side; the proxy learns of it at its next write. *)
ClientLeaves(c) ==
    /\ conn[c].pc = "relay" /\ ~conn[c].gone
    /\ conn' = [conn EXCEPT ![c].gone = TRUE]
    /\ UNCHANGED <<phase, count, started, metrics, log, report, faults>>

(* The body is read to its end whether or not anyone takes it. *)
ReadsOnForClient(k) == k.read < Len(k.response) /\ ~k.gone

ReadsOn(k) == k.read < Len(k.response)
RelayChunk(c) ==
    /\ Alive /\ conn[c].pc = "relay" /\ ReadsOn(conn[c])
    /\ conn' = [conn EXCEPT ![c].read = @ + 1]
    /\ UNCHANGED <<phase, count, started, metrics, log, report, faults>>

RelayEnds(c) ==
    /\ Alive /\ conn[c].pc = "relay" /\ ~ReadsOn(conn[c])
    /\ Finish(c, conn[c], FALSE)
    /\ UNCHANGED <<phase, count, started, report>>

(* The upstream breaks off, the body is too long, or a write fails in another way. *)
RelayBreaks(c) ==
    /\ Alive /\ conn[c].pc = "relay"
    /\ Finish(c, conn[c], TRUE)
    /\ UNCHANGED <<phase, count, started, report>>

-----------------------------------------------------------------------------
Shutdown ==
    /\ phase = "serving" /\ phase' = "draining"
    /\ UNCHANGED <<conn, count, started, metrics, log, report, faults>>

DrainExpires ==
    /\ phase = "draining" /\ Running # {} /\ phase' = "aborting"
    /\ UNCHANGED <<conn, count, started, metrics, log, report, faults>>

(* An aborted task is dropped, and with it its record, which is finished as cancelled. *)
Drop(c) ==
    /\ phase = "aborting" /\ c \in Running
    /\ IF conn[c].pc = "reading"
       THEN conn' = [conn EXCEPT ![c].pc = "done"] /\ UNCHANGED <<metrics, log, faults>>
       ELSE Finish(c, conn[c], TRUE)
    /\ UNCHANGED <<phase, count, started, report>>

(* The server ends once no task is left, aborted or not. *)
DrainedAtAbort == phase = "aborting" \/ Running = {}

Drained == Running = {}
Close ==
    /\ phase \in {"draining", "aborting"} /\ Drained
    /\ metrics' = [metrics EXCEPT !.unrecorded = started - metrics.requests]
    /\ phase' = "closed"
    /\ UNCHANGED <<conn, count, started, log, report, faults>>

(* The accounting: one measurement per event of a model request that was answered, or that the
   upstream neither refused nor answered. *)
Measured(e) == e.kind = "model" /\ (e.status \in {"ok", "none"} \/ e.usage > 0)
Measurements == {i \in 1..Len(log) : Measured(log[i])}
Samples == {i \in Measurements : log[i].usage > 0}

(* Requests the log does not hold: those expected, less the events. *)
Expected == metrics.requests + metrics.unrecorded
UnrecordedNever(expected, events) == 0

Unrecorded(expected, events) == IF expected > events THEN expected - events ELSE 0
Account ==
    /\ phase = "closed" /\ phase' = "reported"
    /\ report' =
         IF \E i \in 1..Len(log) : log[i].kind = "torn" THEN [NoReport EXCEPT !.of = "error"]
         ELSE [of |-> "log", model |-> Cardinality(Measurements), samples |-> Cardinality(Samples),
               input |-> MapThenSumSet(LAMBDA i : log[i].usage, Samples),
               unrecorded |-> Unrecorded(Expected, Len(log))]
    /\ UNCHANGED <<conn, count, started, metrics, log, faults>>

Next ==
    \/ \E c \in Conns :
         \/ Accept(c) \/ ReadRequest(c) \/ Forward(c) \/ Resend(c) \/ UpstreamAnswers(c)
         \/ UpstreamUnreachable(c) \/ ClientLeaves(c) \/ RelayChunk(c) \/ RelayEnds(c)
         \/ RelayBreaks(c) \/ Drop(c)
    \/ Ready \/ Shutdown \/ DrainExpires \/ Close \/ Account

Spec == Init /\ [][Next]_vars

-----------------------------------------------------------------------------
(* The context of the requests is reported as complete only under this condition. *)
CompleteContext ==
    /\ report.of = "log" /\ report.model > 0 /\ report.samples = report.model
    /\ report.unrecorded = 0

Answered == {c \in Conns : conn[c].kind = "model" /\ conn[c].status = "ok"}
SpentBy(c) == UsageOf(conn[c].response)

(* When the report exists every request the proxy took is in it: as an event of its log, or
   counted among those not recorded; and the counters cover all of them. *)
EveryRequestRecorded ==
    /\ phase \in {"closed", "reported"} => metrics.requests = started /\ Running = {}
    /\ report.of = "log" => Len(log) + report.unrecorded = started

(* A client that went away does not hide what its request cost: a response the upstream completed
   is counted in full, unless the proxy itself had to break it off. *)
UsageComplete ==
    /\ \A c \in Answered : conn[c].pc = "done" /\ ~conn[c].broken =>
         conn[c].read = Len(conn[c].response)
    /\ phase \in {"closed", "reported"} =>
         metrics.usage = MapThenSumSet(LAMBDA c : UsageOf(Received(conn[c])), Conns)

(* A context reported as complete covers every request that the upstream answered, with all of
   its tokens, although events of the log were lost and requests were cut off. *)
ContextHonest ==
    CompleteContext =>
        /\ \A c \in Answered : \E i \in 1..Len(log) : log[i].conn = c /\ log[i].usage > 0
        /\ (\A c \in Answered : ~conn[c].broken) => report.input = MapThenSumSet(SpentBy, Answered)

=============================================================================
