------------------------------ MODULE RuntimeHost ------------------------------
(* The runtime's host and the handle its clients hold: start-up, the command loop, requests
   that wait for a response, provider configuration loaded at start, after a save and when the
   watcher sees the file change, and shutdown, which a client asks for or causes by dropping
   its last handle. The work of the sessions themselves is SessionActor's.

   A request is one of "session" (routed to a session's actor), "save" (save_settings) and
   "other" (answered by a task of its own). *)
EXTENDS Integers, Sequences, FiniteSets

CONSTANTS
    Callers,     \* concurrent calls of the handle
    Capacity,    \* bound of the command channel
    MaxVersions, \* bound on the versions of the configuration file
    MaxCalls     \* bound on the calls and the edits of the file

VARIABLES
    host,     \* [phase, startup, hosted, answer]: the host task or thread
    queue,    \* commands sent and not yet received
    call,     \* the call in progress at each caller
    stop,     \* the shared shutdown future
    dropped,  \* the last handle is gone
    tasks,    \* tasks that handle commands outside the loop
    conf,     \* [disk, valid, installed, lock, watching, notes, unseen]
    work,     \* [sessions, owned, mcp]: what a shutdown has to end; a lease is "held", or
              \* "stranded" when its release failed, until it runs out
    calls     \* calls and edits made so far

vars == <<host, queue, call, stop, dropped, tasks, conf, work, calls>>

Loaders == {"boot", "w1", "w2"}
TaskIds == Callers \union Loaders
HostPhases == {"starting", "failing", "loading", "serving", "stopping", "releasing", "leaving",
           "answering", "closing", "ended"}

Requests == {"session", "save", "other", "shutdown"}

NoCall == [pc |-> "none", kind |-> "none", outcome |-> "none", version |-> 0]
NoTask == [pc |-> "none", read |-> 0]

Init ==
    /\ host \in [phase : {"starting"}, startup : {"starting"}, hosted : {"thread", "task"},
                 answer : {"none"}, response : {FALSE}]
    /\ queue = <<>>
    /\ call = [c \in Callers |-> NoCall]
    /\ stop = [pc |-> "none", result |-> "none"]
    /\ dropped = FALSE
    /\ tasks = [t \in TaskIds |-> NoTask]
    /\ conf = [disk |-> 0, valid |-> TRUE, installed |-> 0, lock |-> "none",
               watching |-> FALSE, notes |-> 0, unseen |-> FALSE]
    /\ work = [sessions |-> FALSE, owned |-> "no", mcp |-> FALSE]
    /\ calls = 0

Open == host.phase \in {"starting", "loading", "serving", "stopping", "releasing", "leaving",
                        "answering"}   \* the command receiver exists

-----------------------------------------------------------------------------
(* Start-up: storage, providers, MCP servers; a failure before the loop closes the channel
   first and is reported afterwards. *)
Start ==
    /\ host.phase = "starting"
    /\ host' = [host EXCEPT !.phase = "loading"]
    /\ tasks' = [tasks EXCEPT !["boot"] = [pc |-> "lock", read |-> 0]]
    /\ work' = [work EXCEPT !.mcp = TRUE]
    /\ UNCHANGED <<queue, call, stop, dropped, conf, calls>>

(* What a dropped channel and dropped tasks mean to those who wait for a response. *)
ClosedUnnoticed(cs) == call
Closed(cs) == [c \in Callers |->
                 IF c \in cs /\ call[c].pc = "waiting" THEN [call[c] EXCEPT !.pc = "closed"]
                 ELSE call[c]]
Queued == {queue[i].from : i \in DOMAIN queue}

StartFails ==
    /\ host.phase = "starting"
    /\ host' = [host EXCEPT !.phase = "failing"]
    /\ call' = Closed(Queued)
    /\ queue' = <<>>
    /\ stop' = IF "stop" \in Queued THEN [stop EXCEPT !.result = "closed"] ELSE stop
    /\ UNCHANGED <<dropped, tasks, conf, work, calls>>

ReportFailure ==
    /\ host.phase = "failing"
    /\ host' = [host EXCEPT !.phase = "ended", !.startup = "failed"]
    /\ UNCHANGED <<queue, call, stop, dropped, tasks, conf, work, calls>>

(* The loop starts once the first load of the configuration ended, well or not. *)
Loaded(ok) == [host EXCEPT !.phase = "serving", !.startup = IF ok THEN "ready" ELSE "failed"]

-----------------------------------------------------------------------------
(* Loading the configuration, from start-up, a save or the watcher. *)
Ended(t, ok) ==
    /\ tasks' = [tasks EXCEPT ![t] = NoTask]
    /\ IF t \in Callers
       THEN /\ call' = [call EXCEPT ![t] =
                 IF @.pc = "waiting" THEN [@ EXCEPT !.pc = "done",
                                               !.outcome = IF ok THEN "ok" ELSE "error"]
                 ELSE @]
            /\ UNCHANGED host
       ELSE /\ host' = IF t = "boot" THEN Loaded(ok) ELSE host
            /\ UNCHANGED call

Running == host.phase # "ended" \/ host.hosted = "task"

Write(t) ==
    /\ tasks[t].pc = "write" /\ Running /\ conf.disk < MaxVersions
    /\ \E synced \in BOOLEAN :
       /\ conf' = [conf EXCEPT !.disk = @ + 1, !.valid = TRUE,
                               !.notes = IF conf.watching THEN @ + 1 ELSE @,
                               !.unseen = @ \/ (~ synced /\ ~ conf.watching)]
       /\ IF synced
         THEN /\ tasks' = [tasks EXCEPT ![t].pc = "lock"]
              /\ call' = [call EXCEPT ![t].version =
                            IF call[t].pc = "waiting" THEN conf.disk + 1 ELSE @]
              /\ UNCHANGED host
         ELSE Ended(t, FALSE)
    /\ UNCHANGED <<queue, stop, dropped, work, calls>>

WriteFails(t) ==
    /\ tasks[t].pc = "write" /\ Running
    /\ Ended(t, FALSE)
    /\ UNCHANGED <<queue, stop, dropped, conf, work, calls>>

LockFreeAlways(t) == TRUE
LockFree(t) == conf.lock = "none"

(* The reload lock is taken before the file is read. *)
Lock(t) ==
    /\ tasks[t].pc = "lock" /\ Running /\ LockFree(t)
    /\ conf' = [conf EXCEPT !.lock = t]
    /\ tasks' = [tasks EXCEPT ![t].pc = "read"]
    /\ UNCHANGED <<host, queue, call, stop, dropped, work, calls>>

Unlocked == IF conf.lock = "none" THEN conf ELSE [conf EXCEPT !.lock = "none"]

Read(t) ==
    /\ tasks[t].pc = "read" /\ Running
    /\ IF conf.valid
       THEN /\ tasks' = [tasks EXCEPT ![t] = [pc |-> "install", read |-> conf.disk]]
            /\ UNCHANGED <<host, call, conf>>
       ELSE /\ Ended(t, FALSE)
            /\ conf' = Unlocked
    /\ UNCHANGED <<queue, stop, dropped, work, calls>>

(* set_providers, the model lists, the event. Listing a provider's models may fail after the
   providers are installed. *)
Install(t) ==
    /\ tasks[t].pc = "install" /\ Running
    /\ conf' = [Unlocked EXCEPT !.installed = tasks[t].read]
    /\ \E listed \in BOOLEAN : Ended(t, listed)
    /\ UNCHANGED <<queue, stop, dropped, work, calls>>

(* The user edits the file; the edit may be invalid. A change made before the watcher is
   registered and after the first load read the file is seen by nobody. *)
BootRead == host.phase \notin {"starting", "failing"}
            /\ ~ tasks["boot"].pc \in {"lock", "read"}
EditFile ==
    /\ conf.disk < MaxVersions /\ host.phase \notin {"ended", "failing"} /\ calls < MaxCalls
    /\ calls' = calls + 1
    /\ \E ok \in BOOLEAN :
         conf' = [conf EXCEPT !.disk = @ + 1, !.valid = ok,
                              !.notes = IF conf.watching THEN @ + 1 ELSE @,
                              !.unseen = @ \/ (BootRead /\ ~ conf.watching)]
    /\ UNCHANGED <<host, queue, call, stop, dropped, tasks, work>>

WatcherReady ==
    /\ host.phase \in {"loading", "serving"} /\ ~ conf.watching
    /\ conf' = [conf EXCEPT !.watching = TRUE]
    /\ UNCHANGED <<host, queue, call, stop, dropped, tasks, work, calls>>

WatcherSends ==
    /\ conf.watching /\ conf.notes > 0 /\ Open /\ Len(queue) < Capacity
    /\ queue' = Append(queue, [kind |-> "load", from |-> "watcher"])
    /\ conf' = [conf EXCEPT !.notes = @ - 1]
    /\ UNCHANGED <<host, call, stop, dropped, tasks, work, calls>>

-----------------------------------------------------------------------------
(* RuntimeHandle::request. *)
Call(c, kind) ==
    /\ call[c].pc \in {"none", "done"} /\ ~ dropped /\ calls < MaxCalls
    /\ calls' = calls + 1
    /\ call' = [call EXCEPT ![c] = [NoCall EXCEPT
                  !.pc = IF kind = "shutdown" THEN "shared" ELSE "sending", !.kind = kind]]
    /\ stop' = IF kind = "shutdown" /\ stop.pc = "none" THEN [stop EXCEPT !.pc = "send"] ELSE stop
    /\ UNCHANGED <<host, queue, dropped, tasks, conf, work>>

SendCommand(c) ==
    /\ call[c].pc = "sending"
    /\ IF Open
       THEN /\ Len(queue) < Capacity
            /\ tasks[c].pc = "none" /\ c \notin Queued   \* an abandoned call of it is over
            /\ queue' = Append(queue, [kind |-> call[c].kind, from |-> c])
            /\ call' = [call EXCEPT ![c].pc = "waiting"]
       ELSE /\ call' = [call EXCEPT ![c].pc = "closed"]
            /\ UNCHANGED queue
    /\ UNCHANGED <<host, stop, dropped, tasks, conf, work, calls>>

(* transport_error: the start-up's own error, when there is one. *)
KnownUnwaited(c) == TRUE
Known(c) == host.startup # "starting"

TransportError(c) ==
    /\ call[c].pc = "closed" /\ Known(c)
    /\ call' = [call EXCEPT ![c].pc = "done",
                  ![c].outcome = IF host.startup = "failed" THEN "failed" ELSE "gone"]
    /\ UNCHANGED <<host, queue, stop, dropped, tasks, conf, work, calls>>

(* A client drops the future of a call; the command it sent stays in the queue. *)
Abandon(c) ==
    /\ call[c].pc \in {"sending", "waiting", "closed", "shared"}
    /\ call' = [call EXCEPT ![c] = NoCall]
    /\ UNCHANGED <<host, queue, stop, dropped, tasks, conf, work, calls>>

(* A finished call needs its handle no more. *)
DropHandles ==
    /\ ~ dropped /\ \A c \in Callers : call[c].pc \in {"none", "done"}
    /\ dropped' = TRUE
    /\ UNCHANGED <<host, queue, call, stop, tasks, conf, work, calls>>

-----------------------------------------------------------------------------
(* RuntimeLifecycle::shutdown: one future for every caller, driven by those who wait for it:
   send the command, wait for its answer, join the thread or task. *)
Driven == \E c \in Callers : call[c].pc = "shared"

StopSend ==
    /\ stop.pc = "send" /\ Driven
    /\ IF Open
       THEN /\ Len(queue) < Capacity
            /\ queue' = Append(queue, [kind |-> "shutdown", from |-> "stop"])
            /\ stop' = [stop EXCEPT !.pc = "await"]
       ELSE /\ stop' = [pc |-> "join", result |-> "ok"]
            /\ UNCHANGED queue
    /\ UNCHANGED <<host, call, dropped, tasks, conf, work, calls>>

StopAnswered ==
    /\ stop.pc = "await" /\ Driven /\ stop.result # "none"
    /\ stop' = [stop EXCEPT !.pc = "join"]
    /\ UNCHANGED <<host, queue, call, dropped, tasks, conf, work, calls>>

JoinedAtOnce == TRUE
Joined == host.phase = "ended"

StopJoin ==
    /\ stop.pc = "join" /\ Driven /\ Joined
    /\ stop' = [stop EXCEPT !.pc = "done"]
    /\ UNCHANGED <<host, queue, call, dropped, tasks, conf, work, calls>>

StopReturns(c) ==
    /\ call[c].pc = "shared" /\ stop.pc = "done"
    /\ call' = [call EXCEPT ![c].pc = "done",
                  ![c].outcome = IF stop.result = "ok" THEN "ok" ELSE "gone"]
    /\ UNCHANGED <<host, queue, stop, dropped, tasks, conf, work, calls>>

-----------------------------------------------------------------------------
(* The command loop. *)
Receive ==
    /\ host.phase = "serving" /\ queue # <<>>
    /\ LET m == Head(queue) IN
       /\ queue' = Tail(queue)
       /\ \/ /\ m.kind = "shutdown"
             /\ host' = [host EXCEPT !.phase = "stopping", !.response = TRUE]
             /\ UNCHANGED <<tasks, work>>
          \/ /\ m.kind \in {"save", "other"}
             /\ tasks' = [tasks EXCEPT ![m.from].pc =
                            IF m.kind = "save" THEN "write" ELSE "answer"]
             /\ UNCHANGED <<host, work>>
          \/ /\ m.kind = "load"
             /\ \E t \in {"w1", "w2"} :
                  /\ tasks[t].pc = "none"
                  /\ tasks' = [tasks EXCEPT ![t].pc = "lock"]
             /\ UNCHANGED <<host, work>>
          \/ /\ m.kind = "session"
             /\ tasks' = [tasks EXCEPT ![m.from].pc = "actor"]
             /\ work' = [work EXCEPT !.sessions = TRUE, !.owned = "held"]
             /\ UNCHANGED host
    /\ UNCHANGED <<call, stop, dropped, conf, calls>>

(* A task answers its request. *)
Answer(c) ==
    /\ tasks[c].pc = "answer" /\ Running
    /\ tasks' = [tasks EXCEPT ![c] = NoTask]
    /\ call' = [call EXCEPT ![c] =
         IF @.pc = "waiting" THEN [@ EXCEPT !.pc = "done", !.outcome = "ok"] ELSE @]
    /\ UNCHANGED <<host, queue, stop, dropped, conf, work, calls>>

(* load_session: a failed first look at the session is reported as a service error only, and
   the caller's response is dropped. *)
LeavesUnanswered(c) ==
    /\ tasks[c].pc = "answer" /\ Running
    /\ tasks' = [tasks EXCEPT ![c] = NoTask]
    /\ call' = Closed({c})
    /\ UNCHANGED <<host, queue, stop, dropped, conf, work, calls>>

(* The session's actor answers, and its turn may go on; stopping makes it do both. *)
ActorAnswers(c) ==
    /\ tasks[c].pc = "actor" /\ host.phase \in {"serving", "stopping"}
    /\ tasks' = [tasks EXCEPT ![c] = NoTask]
    /\ call' = [call EXCEPT ![c] =
         IF @.pc = "waiting" THEN [@ EXCEPT !.pc = "done", !.outcome = "ok"] ELSE @]
    /\ UNCHANGED <<host, queue, stop, dropped, conf, work, calls>>

TurnEnds ==
    /\ work.sessions /\ host.phase \in {"serving", "stopping"}
    /\ ~ \E c \in Callers : tasks[c].pc = "actor"
    /\ work' = [work EXCEPT !.sessions = FALSE]
    /\ UNCHANGED <<host, queue, call, stop, dropped, tasks, conf, calls>>

(* RuntimeLifecycle's drop. *)
SeesDrop ==
    /\ host.phase = "serving" /\ dropped
    /\ host' = [host EXCEPT !.phase = "stopping"]
    /\ UNCHANGED <<queue, call, stop, dropped, tasks, conf, work, calls>>

(* stop_active_work, release of the leases still held, the MCP servers, the answer. The release
   of a lease may fail, which is reported as an error of its session and changes nothing else. *)
StopWork ==
    /\ host.phase = "stopping" /\ ~ work.sessions
    /\ ~ \E c \in Callers : tasks[c].pc = "actor"
    /\ host' = [host EXCEPT !.phase = "releasing"]
    /\ UNCHANGED <<queue, call, stop, dropped, tasks, conf, work, calls>>

Release ==
    /\ host.phase = "releasing"
    /\ host' = [host EXCEPT !.phase = "leaving"]
    /\ \E left \in IF work.owned = "held" THEN {"no", "stranded"} ELSE {work.owned} :
         work' = [work EXCEPT !.owned = left]
    /\ UNCHANGED <<queue, call, stop, dropped, tasks, conf, calls>>

LeaveMcp ==
    /\ host.phase = "leaving"
    /\ host' = [host EXCEPT !.phase = "answering"]
    /\ work' = [work EXCEPT !.mcp = FALSE]
    /\ UNCHANGED <<queue, call, stop, dropped, tasks, conf, calls>>

(* The answer is sent and the receiver dropped with what is left in it. *)
AnswerStop ==
    /\ host.phase = "answering"
    /\ host' = [host EXCEPT !.phase = "closing"]
    /\ stop' = IF host.response THEN [stop EXCEPT !.result = "ok"]
               ELSE IF "stop" \in Queued THEN [stop EXCEPT !.result = "closed"] ELSE stop
    /\ call' = Closed(Queued)
    /\ queue' = <<>>
    /\ UNCHANGED <<dropped, tasks, conf, work, calls>>

(* The background tasks are aborted; a thread of its own takes every task with it. *)
Finish ==
    /\ host.phase = "closing"
    /\ host' = [host EXCEPT !.phase = "ended"]
    /\ conf' = [conf EXCEPT !.watching = FALSE, !.notes = 0,
                            !.lock = IF host.hosted = "thread" THEN "none" ELSE @]
    /\ IF host.hosted = "thread"
       THEN /\ call' = Closed({c \in Callers : tasks[c].pc # "none"})
            /\ tasks' = [t \in TaskIds |-> NoTask]
       ELSE UNCHANGED <<call, tasks>>
    /\ UNCHANGED <<queue, stop, dropped, work, calls>>

-----------------------------------------------------------------------------
(* What the program does by itself. *)
Progress ==
    \/ Start \/ StartFails \/ ReportFailure \/ WatcherReady \/ WatcherSends
    \/ \E t \in TaskIds : Lock(t) \/ Read(t) \/ Install(t)
    \/ \E c \in Callers : WriteFails(c) \/ Write(c) \/ SendCommand(c) \/ TransportError(c)
                            \/ StopReturns(c) \/ Answer(c) \/ LeavesUnanswered(c)
                            \/ ActorAnswers(c)
    \/ StopSend \/ StopAnswered \/ StopJoin \/ Receive \/ TurnEnds \/ SeesDrop
    \/ StopWork \/ Release \/ LeaveMcp \/ AnswerStop \/ Finish

Next ==
    \/ Progress
    \/ \E c \in Callers : \/ \E kind \in Requests : Call(c, kind)
                          \/ Abandon(c)
    \/ DropHandles \/ EditFile

Spec == Init /\ [][Next]_vars

-----------------------------------------------------------------------------
HostTypeOK ==
    /\ host.phase \in HostPhases /\ host.startup \in {"starting", "ready", "failed"}
    /\ Len(queue) <= Capacity
    /\ \A c \in Callers :
         /\ call[c].pc \in {"none", "sending", "waiting", "closed", "shared", "done"}
         /\ call[c].outcome \in {"none", "ok", "error", "failed", "gone"}
    /\ stop.pc \in {"none", "send", "await", "join", "done"}
    /\ \A t \in TaskIds : tasks[t].pc \in {"none", "write", "lock", "read", "install",
                                             "answer", "actor"}
    /\ conf.disk \in 0..MaxVersions /\ conf.installed \in 0..MaxVersions
    /\ conf.lock \in TaskIds \union {"none"}
    /\ work \in [sessions : BOOLEAN, owned : {"no", "held", "stranded"}, mcp : BOOLEAN]

(* Whatever order requests, abandoned calls, start-up failures, dropped handles and shutdowns
   come in, the program never stops with a caller still waiting or, its handles gone, with the
   host still running. *)
CallersReturn ==
    ~ ENABLED Progress =>
        /\ \A c \in Callers : call[c].pc \in {"none", "done"}
        /\ dropped => host.phase = "ended"

(* When shutdown returns success the host has ended: no turn runs, no lease is held that it did
   not try to release (one whose release failed is left to run out), no MCP server is connected,
   and on a thread of its own no task is left. *)
ShutdownComplete ==
    \A c \in Callers : call[c].kind = "shutdown" /\ call[c].outcome = "ok" =>
        /\ host.phase = "ended" /\ ~ work.sessions /\ work.owned # "held" /\ ~ work.mcp
        /\ host.hosted = "thread" => \A t \in TaskIds : tasks[t].pc = "none"

(* A client of a runtime that never started learns why. *)
StartupErrorReported ==
    \A c \in Callers : call[c].outcome = "gone" /\ call[c].kind # "shutdown" =>
        host.startup = "ready"

(* A save that succeeded is installed, and at rest the installed configuration is the newest
   valid one on disk, although saves, edits and the watcher's reloads overlap. *)
ConfigurationInstalled ==
    /\ \A c \in Callers : call[c].kind = "save" /\ call[c].outcome = "ok" =>
         conf.installed >= call[c].version
    /\ ~ ENABLED Progress /\ host.phase = "serving" /\ conf.valid /\ ~ conf.unseen =>
         conf.installed = conf.disk
=============================================================================
