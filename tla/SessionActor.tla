---------------------------- MODULE SessionActor ----------------------------
(***************************************************************************)
(* One session in one process: its entry in the registry of actors, the    *)
(* actor with its mailbox, the preparation, stream and script tasks that   *)
(* report back to it, and the stored queue of user messages.               *)
(*                                                                         *)
(* A request is a number, in the order of arrival; a user message has the  *)
(* number of the request that sends it.  A handler runs as one step except *)
(* where it waits for tasks or claims the lease, which a task may do at    *)
(* the same time.  What a turn writes into the history beyond its user     *)
(* messages is the subject of StreamDeltas and ScriptTurn; a lease lost to *)
(* another process that of TurnLease.                                      *)
(***************************************************************************)
EXTENDS Integers, FiniteSets, SequencesExt

CONSTANTS
    Kinds,          \* the requests clients make
    MaxRequests,    \* bound: requests made
    MaxScripts,     \* bound: script calls the model makes
    MaxFaults       \* bound: database operations that fail

ASSUME SessionActorAssumption ==
    /\ Kinds \subseteq {"send", "cancelStream", "cancelTurn", "approve", "deny", "delete"}
    /\ {MaxRequests, MaxScripts, MaxFaults} \subseteq Nat

Requests == 1..MaxRequests

VARIABLES
    phase,      \* registry: no actor, a running one, or one on its way out
    closed,     \* registry: the runtime stops, no actor may start
    mailbox,    \* messages of the actor, in order
    st,         \* TurnState
    gen,        \* next_generation
    wait,       \* what the running handler is waiting for
    deferred,   \* requests put off until the preparation is over
    stopping,   \* the actor was told to stop
    tasks,      \* preparation, stream and script tasks that have not ended
    active,     \* is_turn_active
    live,       \* streaming_messages holds the session's response
    leased,     \* this process has the session's lease
    queue,      \* queued_messages: sequence number and request of each entry
    history,    \* user messages in the history
    deleted,    \* the session row is gone
    asked,      \* kind of each request
    answer,     \* what its responder was sent
    scripts,    \* script calls made
    faults,     \* database operations that failed
    discarded,  \* history: queued messages given up by a cancellation or a deletion
    failed,     \* history: a preparation failed
    refused,    \* history: a claim was refused because of this process's own lease
    renumbered  \* history: an entry got a number that a preparation is to consume

registry == <<phase, closed>>
actor == <<st, gen, wait, deferred, stopping>>
agent == <<active, live, leased>>
store == <<queue, history, deleted>>
clients == <<asked, answer>>
ghosts == <<discarded, failed, refused, renumbered>>
vars == <<registry, mailbox, actor, tasks, agent, store, clients, scripts, faults, ghosts>>

-----------------------------------------------------------------------------
(* TurnState, with the preparation's origin and the waiters of its         *)
(* cancellation or of the running script's.                                *)
Idle == [kind |-> "idle", gen |-> 0, origin |-> "none", req |-> 0,
         intercepted |-> FALSE, retried |-> FALSE, cancelled |-> FALSE, waiters |-> {}]
Job(kind, g) == [Idle EXCEPT !.kind = kind, !.gen = g]

NoWait == [for |-> "none", next |-> "none", req |-> 0, waiters |-> {}]
Claiming(next, r) == [NoWait EXCEPT !.for = "claim", !.next = next, !.req = r]
Joining(next, rs) == [NoWait EXCEPT !.for = "join", !.next = next, !.waiters = rs]

Message(tag, n, out) == [tag |-> tag, n |-> n, out |-> out]
Post(m) == mailbox' = Append(mailbox, m)

Task(kind, g) == [kind |-> kind, gen |-> g, step |-> "run", take |-> <<>>, through |-> -1,
                  newly |-> FALSE, told |-> FALSE]

(* Variant: a script that waits for approval counts as a child. *)
HasChildOrApproval == st.kind # "idle"

(* has_child *)
HasChild == st.kind \in {"preparing", "streaming", "running"}

(* The cancellation token of generation g is cancelled. *)
Told(g) == {IF t.gen = g THEN [t EXCEPT !.told = TRUE] ELSE t : t \in tasks}

(* StreamTasks counts preparations and streams; scripts are not tracked. *)
Tracked == {t \in tasks : t.kind # "script"}

Answered(rs, a) == [r \in Requests |-> IF r \in rs THEN a ELSE answer[r]]
Numbers(q) == [i \in DOMAIN q |-> q[i].seq]
Messages(q) == [i \in DOMAIN q |-> q[i].req]
Fault == faults < MaxFaults /\ faults' = faults + 1

MessageType == [tag : {"request", "stop", "prepared", "event", "streamEnded", "scriptEnded"},
                n : Nat,
                out : {"none", "ok", "error", "stopped", "text", "result", "prompt", "run"}]
JobType == [kind : {"idle", "preparing", "streaming", "approval", "running"}, gen : Nat,
            origin : {"none", "send", "continue", "queue"}, req : 0..MaxRequests,
            intercepted : BOOLEAN, retried : BOOLEAN, cancelled : BOOLEAN,
            waiters : SUBSET Requests]
WaitType == [for : {"none", "claim", "join"},
             next : {"none", "busy", "queue", "send", "cancel", "delete"},
             req : 0..MaxRequests, waiters : SUBSET Requests]
TaskType == [kind : {"prep", "stream", "script"}, gen : Nat,
             step : {"run", "claim", "commit", "failing"},
             take : Seq(Requests), through : Int, newly : BOOLEAN, told : BOOLEAN]
EntryType == [seq : Nat, req : Requests]

TypeOK ==
    /\ phase \in {"none", "running", "exiting"}
    /\ {closed, stopping, active, live, leased, deleted, failed, refused, renumbered}
          \subseteq BOOLEAN
    /\ mailbox \in Seq(MessageType)
    /\ st \in JobType /\ st.gen <= gen
    /\ gen \in Nat
    /\ wait \in WaitType
    /\ deferred \in Seq(Requests)
    /\ tasks \subseteq TaskType /\ \A t \in tasks : t.gen \in 1..gen
    /\ queue \in Seq(EntryType)
    /\ history \in Seq(Requests)
    /\ asked \in [Requests -> Kinds \cup {"none"}]
    /\ answer \in [Requests -> {"none", "started", "queued", "ok", "error"}]
    /\ scripts \in 0..MaxScripts
    /\ faults \in 0..MaxFaults
    /\ discarded \subseteq Requests

Init ==
    /\ phase = "none" /\ closed = FALSE
    /\ mailbox = <<>>
    /\ st = Idle /\ gen = 0 /\ wait = NoWait /\ deferred = <<>> /\ stopping = FALSE
    /\ tasks = {}
    /\ active = FALSE /\ live = FALSE /\ leased = FALSE
    /\ queue = <<>> /\ history = <<>> /\ deleted = FALSE
    /\ asked = [r \in Requests |-> "none"]
    /\ answer = [r \in Requests |-> "none"]
    /\ scripts = 0 /\ faults = 0
    /\ discarded = {} /\ failed = FALSE /\ refused = FALSE /\ renumbered = FALSE

-----------------------------------------------------------------------------
(* The registry. *)

(* SessionActors::send, spawning the actor when the session has none. *)
Ask ==
    \E r \in Requests, k \in Kinds :
        /\ asked[r] = "none" /\ \A s \in 1..r - 1 : asked[s] # "none"
        /\ asked' = [asked EXCEPT ![r] = k]
        /\ IF closed
           THEN answer' = Answered({r}, "error") /\ UNCHANGED <<phase, mailbox, actor>>
           ELSE /\ Post(Message("request", r, "none"))
                /\ phase' = IF phase = "none" THEN "running" ELSE phase
                /\ IF phase = "none"
                   THEN st' = Idle /\ gen' = 0 /\ wait' = NoWait /\ deferred' = <<>> /\ stopping' = FALSE
                   ELSE UNCHANGED actor
                /\ UNCHANGED answer
        /\ UNCHANGED <<closed, tasks, agent, store, scripts, faults, ghosts>>

(* SessionActors::stop. *)
StopAll ==
    /\ ~closed
    /\ closed' = TRUE
    /\ IF phase = "none" THEN UNCHANGED mailbox ELSE Post(Message("stop", 0, "none"))
    /\ UNCHANGED <<phase, actor, tasks, agent, store, clients, scripts, faults, ghosts>>

(* The requests among the messages of a mailbox. *)
RequestsIn(ms) == {ms[i].n : i \in {j \in DOMAIN ms : ms[j].tag = "request"}}

(* Variant: what is left in the mailbox is dropped with it. *)
LeaveUndrained ==
    /\ phase = "exiting"
    /\ phase' = "none"
    /\ mailbox' = <<>>
    /\ UNCHANGED <<closed, actor, tasks, agent, store, clients, scripts, faults, ghosts>>

(* The end of run: the actor leaves the registry, after which nothing more *)
(* is sent to it, and rejects what its mailbox still holds.                *)
Leave ==
    /\ phase = "exiting"
    /\ phase' = "none"
    /\ answer' = Answered(RequestsIn(mailbox), "error")
    /\ mailbox' = <<>>
    /\ UNCHANGED <<closed, actor, tasks, agent, store, asked, scripts, faults, ghosts>>

-----------------------------------------------------------------------------
(* What handlers are made of. *)

(* RuntimeCore::finish_turn *)
FinishTurn == active' = FALSE /\ live' = FALSE /\ leased' = FALSE

Through(q) == IF q = <<>> THEN -1 ELSE Last(q).seq

(* begin_preparation: a bare continuation goes straight to                 *)
(* prepare_turn_stream, the others first see to the lease.                 *)
BeginPreparation(ts, origin, r, q, intercepted, retried) ==
    LET t == [Task("prep", gen + 1) EXCEPT
                !.step = IF origin = "continue" /\ q = <<>> THEN "commit" ELSE "run",
                !.take = IF origin = "send" THEN <<r>> ELSE Messages(q),
                !.through = Through(q)]
    IN  /\ gen' = gen + 1
        /\ tasks' = ts \cup {t}
        /\ st' = [Job("preparing", gen + 1) EXCEPT
                    !.origin = origin, !.req = IF origin = "send" THEN r ELSE 0,
                    !.intercepted = intercepted, !.retried = retried]

Rest(ts) == st' = Idle /\ tasks' = ts /\ UNCHANGED gen

(* drain of an actor that has become idle, with queue q. *)
Drain(ts, q) ==
    IF stopping \/ q = <<>> THEN Rest(ts) ELSE BeginPreparation(ts, "queue", 0, q, FALSE, FALSE)

(* Variant: the queue is forgotten at the end of the turn. *)
FinishOnly(ts, q) == FinishTurn /\ Rest(ts)

FinishAndDrain(ts, q) == FinishTurn /\ Drain(ts, q)

(* start_continuation: the queue, if any, is taken along.  A failing read  *)
(* leaves the actor idle.                                                  *)
StartContinuation(ts, retried) ==
    /\ live' = FALSE
    /\ \/ /\ BeginPreparation(ts, "continue", 0, queue, queue # <<>>, retried)
          /\ UNCHANGED <<active, leased, faults>>
       \/ /\ Fault
          /\ Rest(ts)
          /\ UNCHANGED <<active, leased>>

(* finalize_script_turn: the result is in the history. *)
FinalizeScript(ts) ==
    \/ active /\ ~stopping /\ StartContinuation(ts, FALSE)
    \/ ~(active /\ ~stopping) /\ FinishAndDrain(ts, queue) /\ UNCHANGED faults

(* start_prepared_script *)
StartScript ==
    /\ gen' = gen + 1
    /\ tasks' = tasks \cup {Task("script", gen + 1)}
    /\ st' = Job("running", gen + 1)

(* cancel_stream_job: once the cancellation is stored, the task is told    *)
(* and waited for; a failing save leaves the stream as it is.  The         *)
(* responders in `before' were served by the same handler.                 *)
CancelStreamJob(ts, job, rs, before) ==
    \/ /\ live' = FALSE
       /\ st' = Idle
       /\ tasks' = {IF t.gen = job.gen THEN [t EXCEPT !.told = TRUE] ELSE t : t \in ts}
       /\ wait' = Joining("cancel", rs)
       /\ answer' = before
       /\ UNCHANGED <<active, leased, faults>>
    \/ /\ Fault
       /\ st' = job
       /\ tasks' = ts
       /\ answer' = [r \in Requests |-> IF r \in rs THEN "error" ELSE before[r]]
       /\ UNCHANGED <<wait, agent>>

-----------------------------------------------------------------------------
(* The actor's loop.  Put-off requests are handled, and a stopping actor   *)
(* without a child leaves, before the next message is received.            *)
Awake == phase = "running" /\ wait.for = "none"
PutOffDue == deferred # <<>> /\ st.kind # "preparing"
Leaving == stopping /\ ~HasChild
Ready == Awake /\ ~PutOffDue /\ ~Leaving /\ mailbox # <<>>

Received(tag) == Ready /\ Head(mailbox).tag = tag /\ mailbox' = Tail(mailbox)
Asked(r, kinds) == Received("request") /\ r = Head(mailbox).n /\ asked[r] \in kinds

Exit ==
    /\ Awake /\ ~PutOffDue /\ Leaving
    /\ phase' = "exiting"
    /\ UNCHANGED <<closed, mailbox, actor, tasks, agent, store, clients, scripts, faults, ghosts>>

(* Variant: the largest number in use is given out again. *)
EnqueuedAtLast(r) == Append(queue, [seq |-> Through(queue), req |-> r])

(* enqueue_message: COALESCE(MAX(sequence) + 1, 0). *)
Enqueued(r) == Append(queue, [seq |-> Through(queue) + 1, req |-> r])

(* What send goes on with under the lease. *)
Granted(r, next) ==
    \/ /\ next = "send"
       /\ BeginPreparation(tasks, "send", r, <<>>, FALSE, FALSE)
       /\ UNCHANGED <<queue, answer, faults, renumbered>>
    \/ /\ next # "send"
       /\ queue' = Enqueued(r)
       /\ answer' = Answered({r}, "queued")
       /\ renumbered' = (renumbered \/ \E t \in tasks : Last(Enqueued(r)).seq <= t.through)
       /\ IF next = "queue" THEN Drain(tasks, Enqueued(r)) ELSE UNCHANGED <<st, gen, tasks>>
       /\ UNCHANGED faults
    \/ /\ next # "send"
       /\ Fault
       /\ answer' = Answered({r}, "error")
       /\ UNCHANGED <<st, gen, tasks, queue, renumbered>>

(* Variant: an idle session starts at once, whatever is in its queue. *)
SendKindAtOnce == IF st.kind # "idle" \/ active THEN "busy" ELSE "send"

(* SessionActor::send, up to ensure_lease. *)
SendKind == IF st.kind # "idle" \/ active THEN "busy" ELSE IF queue # <<>> THEN "queue" ELSE "send"

Send(r) ==
    /\ Asked(r, {"send"})
    /\ ~stopping /\ ~deleted
    /\ IF leased
       THEN Granted(r, SendKind) /\ UNCHANGED wait
       ELSE /\ wait' = Claiming(SendKind, r)
            /\ UNCHANGED <<st, gen, tasks, queue, answer, faults, renumbered>>
    /\ UNCHANGED <<registry, deferred, stopping, agent, history, deleted, asked, scripts, discarded,
                   failed, refused>>

(* A stopping actor, a submission that is not valid, a session that does   *)
(* not exist.                                                              *)
SendRejected(r) ==
    /\ Asked(r, {"send"})
    /\ answer' = Answered({r}, "error")
    /\ UNCHANGED <<registry, actor, tasks, agent, store, asked, scripts, faults, ghosts>>

(* claim_turn for the waiting send.  The session may meanwhile carry the   *)
(* lease that a preparation of this very process claimed.                  *)
SendClaim ==
    /\ phase = "running" /\ wait.for = "claim"
    /\ wait' = NoWait
    /\ leased' = TRUE
    /\ refused' = (refused \/ leased)
    /\ IF leased
       THEN /\ answer' = Answered({wait.req}, "error")
            /\ UNCHANGED <<st, gen, tasks, queue, faults, renumbered>>
       ELSE Granted(wait.req, wait.next)
    /\ UNCHANGED <<registry, mailbox, deferred, stopping, active, live, history, deleted, asked,
                   scripts, discarded, failed>>

-----------------------------------------------------------------------------
(* SessionActor::cancel. *)
Cancel(r) ==
    /\ Asked(r, {"cancelStream", "cancelTurn"})
    /\ LET clears == asked[r] = "cancelTurn" /\ leased
           kept == IF clears THEN <<>> ELSE queue
       IN  /\ queue' = kept
           /\ discarded' = IF clears THEN discarded \cup Range(Messages(queue)) ELSE discarded
           /\ \/ /\ st.kind = "approval"
                 /\ FinishAndDrain(tasks, kept)
                 /\ \/ answer' = Answered({r}, "ok") /\ UNCHANGED faults
                    \/ answer' = Answered({r}, "error") /\ Fault
                 /\ UNCHANGED wait
              \/ /\ st.kind = "running"
                 /\ tasks' = Told(st.gen)
                 /\ active' = FALSE
                 /\ st' = [st EXCEPT !.waiters = @ \cup {r}]
                 /\ UNCHANGED <<gen, wait, live, leased, answer, faults>>
              \/ /\ st.kind = "preparing"
                 /\ st' = [st EXCEPT !.cancelled = TRUE, !.waiters = @ \cup {r}]
                 /\ UNCHANGED <<gen, wait, tasks, agent, answer, faults>>
              \/ /\ st.kind = "streaming"
                 /\ CancelStreamJob(tasks, st, {r}, answer)
                 /\ UNCHANGED gen
              \/ /\ st.kind = "idle"
                 /\ IF active \/ (clears /\ queue # <<>>)
                    THEN FinishAndDrain(tasks, kept) ELSE UNCHANGED <<st, gen, tasks, agent>>
                 /\ answer' = Answered({r}, "ok")
                 /\ UNCHANGED <<wait, faults>>
    /\ UNCHANGED <<registry, deferred, stopping, history, deleted, asked, scripts, failed, refused,
                   renumbered>>

(* approve, of the script that waits for it. *)
Approve(r) ==
    /\ Asked(r, {"approve"})
    /\ IF st.kind = "approval" THEN StartScript ELSE UNCHANGED <<st, gen, tasks>>
    /\ answer' = Answered({r}, IF st.kind = "approval" THEN "ok" ELSE "error")
    /\ UNCHANGED <<registry, wait, deferred, stopping, agent, store, asked, scripts, faults, ghosts>>

(* deny: the result is recorded and the turn goes on (end_pending_script), *)
(* or recording it fails and fail_script_turn ends the turn.               *)
Deny(r) ==
    /\ Asked(r, {"deny"})
    /\ \/ /\ st.kind = "approval"
          /\ FinalizeScript(tasks)
          /\ answer' = Answered({r}, "ok")
       \/ /\ st.kind = "approval"
          /\ Fault
          /\ FinishAndDrain(tasks, queue)
          /\ answer' = Answered({r}, "error")
       \/ /\ st.kind # "approval"
          /\ answer' = Answered({r}, "error")
          /\ UNCHANGED <<st, gen, tasks, agent, faults>>
    /\ UNCHANGED <<registry, wait, deferred, stopping, store, asked, scripts, ghosts>>

(* SessionActor::delete, up to the wait for the session's tasks. *)
DeleteSession(r) ==
    \/ /\ st.kind \in {"running", "approval"}
       /\ answer' = Answered({r}, "error")
       /\ UNCHANGED <<st, tasks, wait>>
    \/ /\ st.kind \in {"streaming", "idle"}
       /\ st' = Idle
       /\ tasks' = Told(st.gen)
       /\ wait' = Joining("delete", {r})
       /\ UNCHANGED answer

Delete(r) ==
    /\ Asked(r, {"delete"})
    /\ IF st.kind = "preparing"
       THEN deferred' = Append(deferred, r) /\ UNCHANGED <<st, tasks, wait, answer>>
       ELSE DeleteSession(r) /\ UNCHANGED deferred
    /\ UNCHANGED <<registry, gen, stopping, agent, store, asked, scripts, faults, ghosts>>

DeletePutOff ==
    /\ Awake /\ PutOffDue
    /\ deferred' = Tail(deferred)
    /\ DeleteSession(Head(deferred))
    /\ UNCHANGED <<registry, mailbox, gen, stopping, agent, store, asked, scripts, faults, ghosts>>

(* stop: the children are told, and the actor leaves once they reported. *)
Stop ==
    /\ Received("stop")
    /\ stopping' = TRUE
    /\ tasks' = IF st.kind \in {"streaming", "running"} THEN Told(st.gen) ELSE tasks
    /\ UNCHANGED <<registry, st, gen, wait, deferred, agent, store, clients, scripts, faults, ghosts>>

-----------------------------------------------------------------------------
(* The wait for the session's tasks is over: wait_session. *)
Joined(next) == phase = "running" /\ wait.for = "join" /\ wait.next = next /\ Tracked = {} /\ wait' = NoWait

CancelJoined ==
    /\ Joined("cancel")
    /\ FinishAndDrain(tasks, queue)
    /\ answer' = Answered(wait.waiters, "ok")
    /\ UNCHANGED <<registry, mailbox, deferred, stopping, store, asked, scripts, faults, ghosts>>

(* delete_session succeeds and the actor exits, rejecting what it put off. *)
DeleteJoined ==
    /\ Joined("delete")
    /\ ~deleted
    /\ deleted' = TRUE
    /\ queue' = <<>>
    /\ discarded' = discarded \cup Range(Messages(queue))
    /\ FinishTurn
    /\ phase' = "exiting"
    /\ deferred' = <<>>
    /\ answer' = [r \in Requests |-> IF r \in wait.waiters THEN "ok"
                                     ELSE IF r \in Range(deferred) THEN "error" ELSE answer[r]]
    /\ UNCHANGED <<closed, mailbox, st, gen, stopping, tasks, history, asked, scripts, faults,
                   failed, refused, renumbered>>

(* delete_session fails, before or after it has dropped the session's      *)
(* runtime state.                                                          *)
DeleteFailed ==
    /\ Joined("delete")
    /\ IF deleted THEN UNCHANGED faults ELSE Fault
    /\ answer' = Answered(wait.waiters, "error")
    /\ \/ UNCHANGED <<active, live>>
       \/ active' = FALSE /\ live' = FALSE
    /\ UNCHANGED <<registry, mailbox, st, gen, deferred, stopping, tasks, leased, store, asked,
                   scripts, ghosts>>

-----------------------------------------------------------------------------
(* Reports of the tasks.  One whose generation is not that of the current  *)
(* job is ignored.                                                         *)
Reports == [prepared |-> "preparing", event |-> "streaming", streamEnded |-> "streaming",
            scriptEnded |-> "running"]

(* Variant: any report fits the current job of its kind. *)
CurrentOfKind(tag, n) == st.kind = Reports[tag]

Current(tag, n) == st.kind = Reports[tag] /\ st.gen = n

Reported(tag, out) ==
    Received(tag) /\ Current(tag, Head(mailbox).n) /\ Head(mailbox).out \in out

Stale ==
    /\ \E tag \in DOMAIN Reports : Received(tag) /\ ~Current(tag, Head(mailbox).n)
    /\ UNCHANGED <<registry, actor, tasks, agent, store, clients, scripts, faults, ghosts>>

(* The preparation's requester gets `a', those who cancelled it "ok". *)
PreparationAnswered(a) ==
    [r \in Requests |-> IF r = st.req THEN a ELSE IF r \in st.waiters THEN "ok" ELSE answer[r]]

(* prepared, with a request to stream: start_stream, and cancel it at once *)
(* if the preparation was cancelled.                                       *)
PreparedStarts ==
    /\ Reported("prepared", {"ok"})
    /\ ~stopping
    /\ gen' = gen + 1
    /\ LET ts == tasks \cup {Task("stream", gen + 1)}
           job == Job("streaming", gen + 1)
       IN  IF st.cancelled
           THEN CancelStreamJob(ts, job, st.waiters, Answered({st.req}, "started"))
           ELSE /\ tasks' = ts
                /\ st' = job
                /\ answer' = Answered({st.req}, "started")
                /\ UNCHANGED <<wait, agent, faults>>
    /\ UNCHANGED <<registry, deferred, stopping, store, asked, scripts, ghosts>>

PreparedStopping ==
    /\ Reported("prepared", {"ok"})
    /\ stopping
    /\ st' = Idle
    /\ answer' = PreparationAnswered("error")
    /\ UNCHANGED <<registry, gen, wait, deferred, stopping, tasks, agent, store, asked, scripts,
                   faults, ghosts>>

(* prepared, with an error. *)
Retries == st.origin = "continue" /\ st.intercepted /\ ~st.retried /\ ~st.cancelled /\ ~stopping

PreparedFailed ==
    /\ Reported("prepared", {"error"})
    /\ answer' = PreparationAnswered("error")
    /\ \/ Retries /\ StartContinuation(tasks, TRUE)
       \/ /\ ~Retries
          /\ FinishTurn
          /\ IF st.origin = "continue" /\ ~st.intercepted /\ ~st.cancelled
             THEN Drain(tasks, queue) ELSE Rest(tasks)
          /\ UNCHANGED faults
    /\ UNCHANGED <<registry, wait, deferred, stopping, store, asked, scripts, ghosts>>

(* stream_failed: abort_streaming_message, which leaves everything as it   *)
(* is when the database fails.                                             *)
StreamFailed(ts) ==
    \/ FinishAndDrain(ts, queue) /\ UNCHANGED faults
    \/ Fault /\ Rest(ts) /\ UNCHANGED agent

(* stream_event, when recording the event fails. *)
StreamEventFailed ==
    /\ Reported("event", {"error"})
    /\ StreamFailed(Told(st.gen))
    /\ UNCHANGED <<registry, wait, deferred, stopping, store, clients, scripts, ghosts>>

(* stream_ended and process_completed_stream_output. *)
StreamEnded ==
    /\ Reported("streamEnded", {"text", "result", "prompt", "run", "error", "stopped"})
    /\ LET out == Head(mailbox).out
       IN  \/ /\ stopping
              /\ Rest(tasks)
              /\ UNCHANGED <<agent, faults>>
           \/ /\ ~stopping /\ out = "text"
              /\ FinishAndDrain(tasks, queue)
              /\ UNCHANGED faults
           \/ ~stopping /\ out = "result" /\ FinalizeScript(tasks)
           \/ /\ ~stopping /\ out = "prompt"
              /\ st' = Job("approval", 0)
              /\ live' = FALSE
              /\ UNCHANGED <<gen, tasks, active, leased, faults>>
           \/ /\ ~stopping /\ out = "run"
              /\ StartScript
              /\ live' = FALSE
              /\ UNCHANGED <<active, leased, faults>>
           \/ ~stopping /\ out \in {"error", "stopped"} /\ StreamFailed(tasks)
    /\ UNCHANGED <<registry, wait, deferred, stopping, store, clients, scripts, ghosts>>

(* Variant: nobody is told that the cancelled script ended. *)
ScriptEndedSilent ==
    /\ Reported("scriptEnded", {"ok", "error"})
    /\ \/ Head(mailbox).out = "ok" /\ FinalizeScript(tasks)
       \/ Head(mailbox).out = "error" /\ FinishAndDrain(tasks, queue) /\ UNCHANGED faults
    /\ UNCHANGED <<registry, wait, deferred, stopping, store, clients, scripts, ghosts>>

(* script_ended *)
ScriptEnded ==
    /\ Reported("scriptEnded", {"ok", "error"})
    /\ \/ Head(mailbox).out = "ok" /\ FinalizeScript(tasks)
       \/ Head(mailbox).out = "error" /\ FinishAndDrain(tasks, queue) /\ UNCHANGED faults
    /\ answer' = Answered(st.waiters, "ok")
    /\ UNCHANGED <<registry, wait, deferred, stopping, store, asked, scripts, ghosts>>

-----------------------------------------------------------------------------
(* The tasks. *)
(* Variant: a task that fails ends without reporting. *)
ReportUnlessFailed(t, tag, out) ==
    /\ tasks' = tasks \ {t}
    /\ IF phase = "none" \/ out = "error" THEN UNCHANGED mailbox ELSE Post(Message(tag, t.gen, out))

(* A task sends its outcome to the mailbox it was given and ends. *)
Report(t, tag, out) ==
    /\ tasks' = tasks \ {t}
    /\ IF phase = "none" THEN UNCHANGED mailbox ELSE Post(Message(tag, t.gen, out))

Becomes(t, u) == tasks' = (tasks \ {t}) \cup {u}

(* prepare_users_stream asks owns_turn ... *)
PrepareOwns(t) ==
    /\ t.kind = "prep" /\ t.step = "run"
    /\ Becomes(t, [t EXCEPT !.step = IF leased THEN "commit" ELSE "claim"])
    /\ UNCHANGED <<registry, mailbox, actor, agent, store, clients, scripts, faults, ghosts>>

(* ... and claims the turn, which the actor may have done meanwhile. *)
PrepareClaim(t) ==
    /\ t.kind = "prep" /\ t.step = "claim"
    /\ leased' = TRUE
    /\ refused' = (refused \/ leased)
    /\ IF leased THEN Report(t, "prepared", "error")
       ELSE Becomes(t, [t EXCEPT !.step = "commit", !.newly = TRUE]) /\ UNCHANGED mailbox
    /\ UNCHANGED <<registry, actor, active, live, store, clients, scripts, faults, discarded,
                   failed, renumbered>>

(* Variant: the consumed entries stay in the queue. *)
ConsumedNone(through) == queue

(* consume_queued_messages: the entries up to `through', which come first. *)
Consumed(through) ==
    SubSeq(queue, 1 + Cardinality({i \in DOMAIN queue : queue[i].seq <= through}), Len(queue))

(* Variant: an error after the transaction fails the preparation. *)
PrepareCommitThenFail(t) ==
    /\ t.kind = "prep" /\ t.step = "commit"
    /\ active' = TRUE
    /\ live' = TRUE
    /\ history' = history \o t.take
    /\ queue' = Consumed(t.through)
    /\ \E out \in {"ok", "error"} : Report(t, "prepared", out)
    /\ UNCHANGED <<registry, actor, leased, deleted, clients, scripts, faults, ghosts>>

(* prepare_turn_stream: user messages, response and queue in one           *)
(* transaction.                                                            *)
PrepareCommit(t) ==
    /\ t.kind = "prep" /\ t.step = "commit"
    /\ active' = TRUE
    /\ live' = TRUE
    /\ history' = history \o t.take
    /\ queue' = Consumed(t.through)
    /\ Report(t, "prepared", "ok")
    /\ UNCHANGED <<registry, actor, leased, deleted, clients, scripts, faults, ghosts>>

(* The preparation fails at any point before that; a lease it claimed      *)
(* itself is released.                                                     *)
PrepareFail(t) ==
    /\ t.kind = "prep"
    /\ failed' = TRUE
    /\ leased' = (leased /\ ~(t.newly /\ ~active /\ ~live))
    /\ Report(t, "prepared", "error")
    /\ UNCHANGED <<registry, actor, active, live, store, clients, scripts, faults, discarded,
                   refused, renumbered>>

(* The reader ends: told to, out of events, with a script call, or failing. *)
StreamEnd(t) ==
    /\ t.kind = "stream"
    /\ \/ /\ t.told
          /\ Report(t, "streamEnded", "stopped")
          /\ UNCHANGED scripts
       \/ /\ ~t.told
          /\ \E out \in {"text", "error"} : Report(t, "streamEnded", out)
          /\ UNCHANGED scripts
       \/ /\ ~t.told
          /\ scripts < MaxScripts
          /\ scripts' = scripts + 1
          /\ \E out \in {"result", "prompt", "run"} : Report(t, "streamEnded", out)
    /\ UNCHANGED <<registry, actor, agent, store, clients, faults, ghosts>>

(* An event of the stream that the database will not take. *)
StreamEvent(t) ==
    /\ t.kind = "stream" /\ t.step = "run" /\ ~t.told
    /\ Fault
    /\ Becomes(t, [t EXCEPT !.step = "failing"])
    /\ Post(Message("event", t.gen, "error"))
    /\ UNCHANGED <<registry, actor, agent, store, clients, scripts, ghosts>>

ScriptEnd(t) ==
    /\ t.kind = "script"
    /\ \E out \in {"ok", "error"} : Report(t, "scriptEnded", out)
    /\ UNCHANGED <<registry, actor, agent, store, clients, scripts, faults, ghosts>>

-----------------------------------------------------------------------------
Handler ==
    \/ \E r \in Requests :
          \/ Send(r) \/ SendRejected(r)
          \/ Cancel(r) \/ Approve(r) \/ Deny(r) \/ Delete(r)
    \/ SendClaim \/ CancelJoined \/ DeleteJoined \/ DeleteFailed \/ DeletePutOff
    \/ Stop \/ Exit \/ Leave
    \/ PreparedStarts \/ PreparedStopping \/ PreparedFailed
    \/ StreamEventFailed \/ StreamEnded \/ ScriptEnded \/ Stale

TaskStep ==
    \E t \in tasks :
        \/ PrepareOwns(t) \/ PrepareClaim(t) \/ PrepareCommit(t) \/ PrepareFail(t)
        \/ StreamEnd(t) \/ StreamEvent(t) \/ ScriptEnd(t)

(* Everything is asked and stopped, and no message or task is left. *)
Over ==
    /\ closed /\ mailbox = <<>> /\ tasks = {}
    /\ \A r \in Requests : asked[r] # "none"
    /\ UNCHANGED vars

Next == Ask \/ StopAll \/ Handler \/ TaskStep \/ Over

Spec == Init /\ [][Next]_vars

(* Actor and tasks are scheduled; a stream or a script does not run        *)
(* forever.                                                                *)
FairSpec == Spec /\ WF_vars(Handler) /\ WF_vars(TaskStep)

-----------------------------------------------------------------------------
(* Where the responder of request r is: in the mailbox, put off, with the  *)
(* running handler, or with the job that will answer it.                   *)
Held(r) ==
    \/ r \in RequestsIn(mailbox) \cup Range(deferred)
    \/ r = wait.req \/ r \in wait.waiters
    \/ r = st.req \/ r \in st.waiters

(* No responder is dropped: a request that has no answer yet is somewhere  *)
(* it will be answered from, whatever was cancelled, deleted or stopped in *)
(* between (SessionMessage::reject, the waiters of CancelRequest and       *)
(* ScriptJob, the deferred requests).                                      *)
NoRequestDropped ==
    \A r \in Requests : asked[r] # "none" /\ answer[r] = "none" => phase # "none" /\ Held(r)

(* The actor never waits for a task that will not report: a job has        *)
(* exactly one task, running or with its report in the mailbox.            *)
JobWillReport ==
    phase = "running" /\ HasChild =>
        Cardinality({t \in tasks : t.gen = st.gen})
          + Cardinality({i \in DOMAIN mailbox :
                mailbox[i].tag \in DOMAIN Reports \ {"event"} /\ mailbox[i].n = st.gen}) = 1

(* No work runs behind the actor's back: a stream or script that was not   *)
(* told to end is the actor's current job, and a stream in the actor's     *)
(* state is the one the agent holds, in an active turn under the lease.    *)
NoStrayWork ==
    phase = "running" =>
        /\ \A t \in tasks : t.kind # "prep" /\ ~t.told => t.gen = st.gen
        /\ st.kind = "streaming" => live /\ active /\ leased

Copies(r) == Cardinality({i \in DOMAIN history : history[i] = r})
InQueue(r) == Cardinality({i \in DOMAIN queue : queue[i].req = r})

(* A message answered "queued" is in the queue, or in the history, or was  *)
(* discarded with the queue; never in none of them and never twice.        *)
QueuedKept ==
    \A r \in Requests : answer[r] = "queued" =>
        /\ Copies(r) + InQueue(r) <= 1
        /\ r \notin discarded => Copies(r) + InQueue(r) = 1

(* The same as long as no number of the queue is used again while a        *)
(* preparation is about to consume it.                                     *)
QueuedKeptUnlessRenumbered == ~renumbered => QueuedKept

(* A message answered "started" is in the history once, and one that was   *)
(* refused is not, unless the runtime stopped while it was prepared.       *)
StartedIsRecorded ==
    \A r \in Requests :
        /\ answer[r] = "started" => Copies(r) = 1
        /\ answer[r] = "error" /\ Copies(r) > 0 => stopping

(* Messages enter the history in the order in which they were sent. *)
FirstComeFirstServed ==
    \A i, j \in DOMAIN history : i < j => history[i] < history[j]

(* An actor with nothing to do has no turn and no lease, and no message    *)
(* waits, unless the database failed or a preparation did.                 *)
AtRest ==
    /\ phase = "running" /\ wait.for = "none" /\ mailbox = <<>> /\ tasks = {} /\ ~stopping
    /\ st.kind = "idle"

RestMeansDone ==
    AtRest /\ faults = 0 => /\ ~active /\ ~live /\ ~leased
                            /\ queue = <<>> \/ failed \/ refused

(* What the queue promises when no database operation fails: a queued      *)
(* message is kept until it is in the history or given up by the user,     *)
(* messages are served in the order they were sent, and an actor that      *)
(* rests has nothing left to do.                                           *)
QueueServed == QueuedKeptUnlessRenumbered /\ FirstComeFirstServed /\ RestMeansDone

(* What the actor promises also when one fails: no responder is dropped,   *)
(* every job reports once, nothing runs behind the actor's back, and what  *)
(* was answered as started is in the history.                              *)
ActorSound ==
    TypeOK /\ NoRequestDropped /\ JobWillReport /\ NoStrayWork /\ StartedIsRecorded

(* Every request is answered: again and again there is no client waiting,  *)
(* whatever was cancelled, deleted, stopped or failed, and although a      *)
(* cancellation may have to wait for a preparation or a script.            *)
RequestsAnswered == []<>(\A r \in Requests : asked[r] # "none" => answer[r] # "none")

(* SessionActors::stop returns: the actor's children report and the actor  *)
(* leaves the registry.                                                    *)
StopCompletes == closed ~> phase = "none"

=============================================================================
