----------------------------- MODULE ScriptTurn -----------------------------
(***************************************************************************)
(* Responses that call scripts: how the session actors of several          *)
(* processes run them, record them, deliver their results into the shared  *)
(* history, and how the next owner of the session finishes what a stopped  *)
(* or displaced process left behind.                                       *)
(*                                                                         *)
(* A response is a number, in the order of creation; only its first script *)
(* call runs.  The lease is what TurnOwnership promises: every transaction *)
(* is refused unless CanWrite.  One action is one transaction together     *)
(* with the in-memory steps around it; a crash, a takeover and the other   *)
(* tasks of the process come between any two of them.                      *)
(***************************************************************************)
EXTENDS Integers, FiniteSets, SequencesExt

CONSTANTS
    Runtimes,       \* processes that open the same database
    NoOne,          \* the session carries no lease
    Outcomes,       \* how a script that ran may end
    MaxCalls,       \* bound: script calls in one response
    MaxResponses,   \* bound: responses started
    MaxUsers,       \* bound: user messages accepted
    MaxCrashes      \* bound: processes that end without releasing their lease

ASSUME ScriptTurnAssumption ==
    /\ NoOne \notin Runtimes
    /\ Outcomes \subseteq {"Completed", "TimedOut", "RuntimeError", "FailedToStart",
                           "SandboxUnavailable", "HostUnavailable", "Cancelled"}
    /\ MaxCalls \in Nat \ {0}
    /\ {MaxResponses, MaxUsers, MaxCrashes} \subseteq Nat

Responses == 1..MaxResponses

VARIABLES
    owner,      \* the process whose lease the session row carries
    expired,    \* that lease is past its deadline
    token,      \* the process remembers a lease token for the session
    turn,       \* per process: its session actor and the task it started
    rec,        \* per process: recover_session_executions under way
    history,    \* the messages from the root to the tip
    calls,      \* script calls of each response, once its content is saved
    records,    \* execution record of each response
    queued,     \* user messages waiting in the session's queue
    made,       \* responses started
    users,      \* user messages accepted
    crashes,    \* processes that ended without releasing
    started,    \* history: how often each response's script was started
    overtaken   \* history: a claim was not followed by recovery, or found work of its own

lease == <<owner, expired, token>>
durable == <<history, calls, records, queued>>
vars == <<lease, turn, rec, durable, made, users, crashes, started, overtaken>>

-----------------------------------------------------------------------------
(* Messages.  A result names the call it answers (response and position)   *)
(* and the response whose result message it is or was derived from.        *)
User == [kind |-> "user", of |-> 0, call |-> 0, via |-> 0, how |-> "Complete"]
Response(m, status) == [kind |-> "response", of |-> m, call |-> 0, via |-> 0, how |-> status]
Result(m, c, via, how) == [kind |-> "result", of |-> m, call |-> c, via |-> via, how |-> how]

IsResponse(h, i, m) == h[i].kind = "response" /\ h[i].of = m
IsResult(h, i, m, c) == h[i].kind = "result" /\ h[i].of = m /\ h[i].call = c

(* reachable_message_ids: the source message is in the history. *)
Reachable(m) == \E i \in DOMAIN history : IsResponse(history, i, m)

(* The record's result message is stored, and so linked. *)
Linked(m) == \E i \in DOMAIN history : IsResult(history, i, m, 1) /\ history[i].via = m

(* The message a run of results ending at position p follows; 0: none. *)
ParentOfResults(h, p) == Max({0} \cup {i \in 1..p - 1 : h[i].kind # "result"})

(* Variant: only the call that ran is answered. *)
AnswerSkippedCallsNever(h, p) == h

(* The members of a finite set of numbers, in order. *)
Ordered(S) ==
    CHOOSE s \in [1..Cardinality(S) -> S] : \A i, j \in 1..Cardinality(S) : i < j => s[i] < s[j]

(* The calls of the response at position a that answer_skipped_calls finds *)
(* unanswered when the result at position p is linked.                     *)
Skipped(h, a, p) ==
    {c \in 1..calls[h[a].of] :
        /\ ~IsResult(h, p, h[a].of, c)
        /\ \A i \in DOMAIN h : h[i] # Result(h[a].of, c, h[p].via, "Cancelled")}

(* answer_skipped_calls for the result at position p: every other call of  *)
(* the response found by walking back over results gets a Cancelled one.   *)
AnswerSkippedCalls(h, p) ==
    LET a == ParentOfResults(h, p)
        skipped == Skipped(h, a, p)
    IN  IF a = 0 \/ h[a].kind # "response" THEN h
        ELSE h \o [n \in 1..Cardinality(skipped) |->
                      Result(h[a].of, Ordered(skipped)[n], h[p].via, "Cancelled")]

(* Variant: the interrupted response stays. *)
RecoverInterruptedStreamNever(h) == h

(* recover_interrupted_stream on a session this process owns and has no    *)
(* stream for: a streaming tip is rolled back; a response that a result    *)
(* already follows is completed, and its other calls are answered.         *)
RecoverInterruptedStream(h) ==
    LET n == Len(h)
        a == ParentOfResults(h, n)
    IN  IF h = <<>> THEN h
        ELSE IF h[n].kind = "response" /\ h[n].how = "Streaming" THEN Front(h)
        ELSE IF h[n].kind = "result" /\ a > 0 /\ IsResponse(h, a, h[a + 1].of)
        THEN AnswerSkippedCalls([h EXCEPT ![a].how = "Complete"], a + 1)
        ELSE h

-----------------------------------------------------------------------------
(* Execution records. *)
NoRecord == [phase |-> "none", status |-> "none"]
Phases == {"none", "Prepared", "AwaitingApproval", "Running", "Finished"}
Statuses == {"none", "Denied", "InvalidScript", "HostUnavailable", "FailedToStart",
             "RuntimeError", "SandboxUnavailable", "Cancelled", "Completed", "TimedOut"}

(* Variant: a finished record accepts another outcome. *)
CompletionAllowedAnytime(phase, status) == phase # "none"

(* require_completion_transition *)
CompletionAllowed(phase, status) ==
    \/ status \in {"Denied", "InvalidScript"} /\ phase \in {"Prepared", "AwaitingApproval"}
    \/ /\ status \in {"FailedToStart", "HostUnavailable", "SandboxUnavailable", "RuntimeError"}
       /\ phase \in {"Prepared", "AwaitingApproval", "Running"}
    \/ status = "Cancelled" /\ phase \in {"AwaitingApproval", "Running"}
    \/ status \in {"Completed", "TimedOut"} /\ phase = "Running"

(* interrupted_execution_outcome *)
InterruptedOutcome(phase) ==
    CASE phase = "Prepared" -> "FailedToStart"
      [] phase = "AwaitingApproval" -> "Cancelled"
      [] OTHER -> "RuntimeError"

(* Variant: the status is written where the phase belongs. *)
FinishedAsPhase(m, status) == [records EXCEPT ![m].phase = status]

(* The record after ExecutionStore::finish. *)
Finished(m, status) == [records EXCEPT ![m] = [phase |-> "Finished", status |-> status]]

-----------------------------------------------------------------------------
(* The lease. *)
Owns(r) == token[r] /\ owner = r
CanWrite(r) == IF token[r] THEN owner = r ELSE owner = NoOne
Claimable == owner = NoOne \/ expired

Claim(r) ==
    /\ owner' = r
    /\ expired' = FALSE
    /\ token' = [token EXCEPT ![r] = TRUE]

Release(r) ==
    /\ owner' = IF Owns(r) THEN NoOne ELSE owner
    /\ expired' = (expired /\ ~Owns(r))
    /\ token' = [token EXCEPT ![r] = FALSE]

(* The actor: stage of its turn, the response in hand, who asked for the   *)
(* preparation, whether streaming_messages holds the response, whether the *)
(* agent has an active turn, whether the script was told to stop, and how  *)
(* many queue entries the preparation has read.                            *)
Idle == [stage |-> "idle", resp |-> 0, origin |-> "none", live |-> FALSE,
         active |-> FALSE, stop |-> FALSE, take |-> 0]
Down == [Idle EXCEPT !.stage = "down"]
Preparing(from, entries) ==
    [Idle EXCEPT !.stage = "preparing", !.origin = from, !.take = entries]

NoRecovery == [next |-> "none", todo |-> {}, at |-> "look", seen |-> [m \in Responses |-> "none"]]

At(r, stages) == turn[r].stage \in stages /\ rec[r].next = "none"
Resp(r) == turn[r].resp
To(r, stage) == turn' = [turn EXCEPT ![r].stage = stage]

(* drain, run on an actor that has become idle. *)
Drained == IF queued > 0 THEN Preparing("queue", queued) ELSE Idle

(* finish_turn, and drain where the handler goes on to it. *)
FinishTurn(r) == Release(r) /\ turn' = [turn EXCEPT ![r] = Idle]
FinishAndDrain(r) == Release(r) /\ turn' = [turn EXCEPT ![r] = Drained]

(* The first step of recover_session_executions: list the records. *)
Listed(next) ==
    [next |-> next, todo |-> {m \in Responses : records[m].phase # "none"}, at |-> "look",
     seen |-> [m \in Responses |-> records[m].phase]]

Stages == {"down", "idle", "preparing", "streaming", "cancelling", "completed", "created",
           "approval", "starting", "running", "ended", "broken", "finished", "delivered"}
Turns == [stage : Stages, resp : 0..MaxResponses,
          origin : {"none", "send", "queue", "continue", "intercept", "retry"},
          live : BOOLEAN, active : BOOLEAN, stop : BOOLEAN, take : 0..MaxUsers]
Recoveries == [next : {"none", "send", "busy", "queue", "continue", "intercept", "retry", "sweep"},
               todo : SUBSET Responses, at : {"look", "append", "skip"}, seen : [Responses -> Phases]]
Items == [kind : {"user", "response", "result"}, of : 0..MaxResponses, call : 0..MaxCalls,
          via : 0..MaxResponses, how : Statuses \cup {"Streaming", "Complete"}]

TypeOK ==
    /\ owner \in Runtimes \cup {NoOne} /\ expired \in BOOLEAN /\ token \in [Runtimes -> BOOLEAN]
    /\ turn \in [Runtimes -> Turns]
    /\ rec \in [Runtimes -> Recoveries]
    /\ history \in Seq(Items)
    /\ calls \in [Responses -> 0..MaxCalls]
    /\ records \in [Responses -> [phase : Phases, status : Statuses]]
    /\ queued \in 0..MaxUsers /\ made \in 0..MaxResponses
    /\ users \in 0..MaxUsers /\ crashes \in 0..MaxCrashes
    /\ started \in [Responses -> Nat]
    /\ overtaken \in BOOLEAN

Init ==
    /\ owner = NoOne
    /\ expired = FALSE
    /\ token = [r \in Runtimes |-> FALSE]
    /\ turn = [r \in Runtimes |-> Idle]
    /\ rec = [r \in Runtimes |-> NoRecovery]
    /\ history = <<>>
    /\ calls = [m \in Responses |-> 0]
    /\ records = [m \in Responses |-> NoRecord]
    /\ queued = 0
    /\ made = 0
    /\ users = 0
    /\ crashes = 0
    /\ started = [m \in Responses |-> 0]
    /\ overtaken = FALSE

-----------------------------------------------------------------------------
(* What a handler does once it has the lease: enqueue the message of a     *)
(* busy session, or start a preparation.                                   *)
Granted(r, next) ==
    LET entries == IF next \in {"busy", "queue"} THEN queued + 1 ELSE queued
        refused == entries > queued /\ ~CanWrite(r)
    IN  /\ queued' = IF refused THEN queued ELSE entries
        /\ turn' = IF next = "busy" \/ refused THEN turn
                   ELSE [turn EXCEPT ![r] =
                           [Preparing(next, IF next = "send" THEN 0 ELSE entries)
                              EXCEPT !.active = turn[r].active]]

(* ensure_lease: nothing to do for an owner; otherwise claim the session   *)
(* and recover its executions before going on.                             *)
EnsureLease(r, next, waiting) ==
    \/ /\ Owns(r)
       /\ Granted(r, next)
       /\ UNCHANGED <<lease, rec, overtaken>>
    \/ /\ ~Owns(r)
       /\ Claimable
       /\ Claim(r)
       /\ rec' = [rec EXCEPT ![r] = Listed(next)]
       /\ turn' = [turn EXCEPT ![r] = waiting]
       /\ overtaken' = (overtaken \/ waiting.stage # "idle")
       /\ UNCHANGED queued

(* SessionActor::send. *)
Send(r) ==
    /\ At(r, {"idle", "preparing", "streaming", "approval", "starting", "running", "ended", "broken"})
    /\ users < MaxUsers
    /\ users' = users + 1
    /\ EnsureLease(r, IF turn[r].stage # "idle" \/ turn[r].active THEN "busy"
                      ELSE IF queued > 0 THEN "queue" ELSE "send", turn[r])
    /\ UNCHANGED <<history, calls, records, made, crashes, started>>

-----------------------------------------------------------------------------
(* recover_session_executions, one record after the other. *)
Due(r) == Min(rec[r].todo)
Recovering(r, at) == rec[r].next # "none" /\ rec[r].todo # {} /\ rec[r].at = at

RecoverNext(r) == rec' = [rec EXCEPT ![r].todo = @ \ {Due(r)}, ![r].at = "look"]
RecoverTo(r, at) == rec' = [rec EXCEPT ![r].at = at]

(* A write of the recovery is refused: the lease is given up, and with it  *)
(* the request that needed it.                                             *)
RecoverFail(r) ==
    /\ Release(r)
    /\ rec' = [rec EXCEPT ![r] = NoRecovery]
    /\ turn' = [turn EXCEPT ![r].live = FALSE, ![r].active = @ /\ Owns(r)]
    /\ UNCHANGED <<durable, made, users, crashes, started, overtaken>>

(* A record whose source left the history is skipped; one whose result is  *)
(* stored only needs its skipped calls answered; an unfinished one is      *)
(* finished as interrupted, judged by the phase read when listing.         *)
RecoverRecord(r) ==
    /\ Recovering(r, "look")
    /\ LET m == Due(r)
           status == InterruptedOutcome(rec[r].seen[m])
           kept == UNCHANGED <<lease, turn, durable, made, users, crashes, started, overtaken>>
       IN  \/ ~Reachable(m) /\ RecoverNext(r) /\ kept
           \/ Reachable(m) /\ Linked(m) /\ RecoverTo(r, "skip") /\ kept
           \/ /\ Reachable(m) /\ ~Linked(m) /\ rec[r].seen[m] = "Finished"
              /\ RecoverTo(r, "append") /\ kept
           \/ /\ Reachable(m) /\ ~Linked(m) /\ rec[r].seen[m] # "Finished"
              /\ IF CanWrite(r) /\ CompletionAllowed(records[m].phase, status)
                 THEN /\ records' = Finished(m, status)
                      /\ RecoverTo(r, "append")
                      /\ UNCHANGED <<lease, turn, history, calls, queued, made, users, crashes,
                                     started, overtaken>>
                 ELSE RecoverFail(r)

(* Variant: the message id is not looked up. *)
AppendResultAlways(m) == Append(history, Result(m, 1, m, records[m].status))

(* append_message_idempotent of the record's result message. *)
AppendResult(m) ==
    IF Linked(m) THEN history ELSE Append(history, Result(m, 1, m, records[m].status))

RecoverResult(r) ==
    /\ Recovering(r, "append")
    /\ LET after == AppendResult(Due(r))
       IN  IF CanWrite(r) \/ after = history
           THEN /\ history' = after
                /\ RecoverTo(r, "skip")
                /\ UNCHANGED <<lease, turn, calls, records, queued, made, users, crashes, started,
                               overtaken>>
           ELSE RecoverFail(r)

ResultAt(m) == CHOOSE i \in DOMAIN history : IsResult(history, i, m, 1) /\ history[i].via = m

RecoverSkipped(r) ==
    /\ Recovering(r, "skip")
    /\ LET after == AnswerSkippedCalls(history, ResultAt(Due(r)))
       IN  IF CanWrite(r) \/ after = history
           THEN /\ history' = after
                /\ RecoverNext(r)
                /\ UNCHANGED <<lease, turn, calls, records, queued, made, users, crashes, started,
                               overtaken>>
           ELSE RecoverFail(r)

(* All records are settled: the handler that asked for the lease goes on. *)
RecoverDone(r) ==
    /\ rec[r].next \notin {"none", "sweep"}
    /\ rec[r].todo = {}
    /\ rec' = [rec EXCEPT ![r] = NoRecovery]
    /\ Granted(r, rec[r].next)
    /\ UNCHANGED <<lease, history, calls, records, made, users, crashes, started, overtaken>>

(* The end of sweep_expired_leases: roll back the interrupted stream if    *)
(* the lease is still there, and release it.                               *)
SweepDone(r) ==
    /\ rec[r].next = "sweep"
    /\ rec[r].todo = {}
    /\ rec' = [rec EXCEPT ![r] = NoRecovery]
    /\ history' = IF Owns(r) THEN RecoverInterruptedStream(history) ELSE history
    /\ FinishTurn(r)
    /\ UNCHANGED <<calls, records, queued, made, users, crashes, started, overtaken>>

-----------------------------------------------------------------------------
(* The preparation task: prepare_users_stream claims an unowned session    *)
(* without recovering its executions, prepare_turn_stream rolls back an    *)
(* interrupted stream, and append_messages links the user messages and the *)
(* streaming response in one transaction that also consumes the queue.     *)
ClaimsItself(r) == turn[r].origin # "continue" /\ ~Owns(r)
Undelivered == \E m \in Responses : records[m].phase # "none" /\ Reachable(m) /\ ~Linked(m)

Prepare(r) ==
    /\ turn[r].stage = "preparing"
    /\ made < MaxResponses
    /\ IF ClaimsItself(r) THEN Claimable /\ Claim(r) ELSE CanWrite(r) /\ UNCHANGED lease
    /\ LET base == IF ClaimsItself(r) \/ Owns(r) THEN RecoverInterruptedStream(history) ELSE history
           sent == IF turn[r].origin = "send" THEN 1 ELSE turn[r].take
       IN  history' = base \o [i \in 1..sent |-> User] \o <<Response(made + 1, "Streaming")>>
    /\ queued' = IF turn[r].take > queued THEN 0 ELSE queued - turn[r].take
    /\ made' = made + 1
    /\ turn' = [turn EXCEPT ![r] = [Idle EXCEPT !.stage = "streaming", !.resp = made + 1,
                                               !.live = TRUE, !.active = TRUE]]
    /\ overtaken' = (overtaken \/ (ClaimsItself(r) /\ Undelivered))
    /\ UNCHANGED <<rec, calls, records, users, crashes, started>>

(* The preparation fails, refused or for a reason of its own.  A           *)
(* continuation that had taken the queue along is tried once more.         *)
PrepareFail(r) ==
    /\ At(r, {"preparing"})
    /\ \/ /\ turn[r].origin \in {"send", "queue", "retry"}
          /\ FinishTurn(r)
          /\ UNCHANGED <<rec, queued, overtaken>>
       \/ /\ turn[r].origin = "continue"
          /\ FinishAndDrain(r)
          /\ UNCHANGED <<rec, queued, overtaken>>
       \/ /\ turn[r].origin = "intercept"
          /\ EnsureLease(r, IF queued > 0 THEN "retry" ELSE "continue",
                         [Idle EXCEPT !.active = turn[r].active])
       \/ /\ turn[r].origin = "intercept"
          /\ ~Owns(r) /\ ~Claimable
          /\ turn' = [turn EXCEPT ![r] = [Idle EXCEPT !.active = turn[r].active]]
          /\ UNCHANGED <<lease, rec, queued, overtaken>>
    /\ UNCHANGED <<history, calls, records, made, users, crashes, started>>

-----------------------------------------------------------------------------
(* The end of a stream. *)
TipIs(m) == history # <<>> /\ IsResponse(history, Len(history), m)
SavedAs(m, status) ==
    [i \in DOMAIN history |-> IF IsResponse(history, i, m) THEN Response(m, status) ELSE history[i]]

(* The stream's state is still in memory and may be written. *)
StreamHeld(r) == At(r, {"streaming"}) /\ turn[r].live /\ CanWrite(r)

(* stream_completed for a response without calls ends the turn ... *)
CompleteText(r) ==
    /\ StreamHeld(r)
    /\ history' = SavedAs(Resp(r), "Complete")
    /\ FinishAndDrain(r)
    /\ UNCHANGED <<rec, calls, records, queued, made, users, crashes, started, overtaken>>

(* ... and with calls goes on to process_completed_stream_output. *)
CompleteCalls(r) ==
    /\ StreamHeld(r)
    /\ \E k \in 1..MaxCalls : calls' = [calls EXCEPT ![Resp(r)] = k]
    /\ history' = SavedAs(Resp(r), "Complete")
    /\ turn' = [turn EXCEPT ![r].stage = "completed", ![r].live = FALSE]
    /\ UNCHANGED <<lease, rec, records, queued, made, users, crashes, started, overtaken>>

(* stream_failed: abort_streaming_message rolls the response back. *)
StreamFail(r) ==
    /\ StreamHeld(r)
    /\ \/ /\ TipIs(Resp(r))
          /\ history' = Front(history)
          /\ FinishAndDrain(r)
       \/ /\ ~TipIs(Resp(r))
          /\ turn' = [turn EXCEPT ![r].stage = "idle", ![r].resp = 0]
          /\ UNCHANGED <<lease, history>>
    /\ UNCHANGED <<rec, calls, records, queued, made, users, crashes, started, overtaken>>

(* The stream ends, fails or is cancelled after the lease was lost, or     *)
(* after its state was discarded with the lease.                           *)
StreamLost(r) ==
    /\ At(r, {"streaming"})
    /\ \/ turn[r].live /\ ~CanWrite(r) /\ (FinishTurn(r) \/ FinishAndDrain(r))
       \/ ~turn[r].live /\ FinishTurn(r)
       \/ /\ ~turn[r].live
          /\ turn' = [turn EXCEPT ![r].stage = "idle", ![r].resp = 0]
          /\ UNCHANGED lease
    /\ UNCHANGED <<rec, durable, made, users, crashes, started, overtaken>>

(* cancel_streaming_message when nothing but reasoning, or only text, has  *)
(* arrived.                                                                *)
CancelStream(r) ==
    /\ StreamHeld(r)
    /\ \/ TipIs(Resp(r)) /\ history' = Front(history)
       \/ history' = SavedAs(Resp(r), "Complete")
    /\ FinishAndDrain(r)
    /\ UNCHANGED <<rec, calls, records, queued, made, users, crashes, started, overtaken>>

(* With calls it saves the response, links a result for the first call ... *)
CancelCalls(r) ==
    /\ StreamHeld(r)
    /\ \E k \in 1..MaxCalls : calls' = [calls EXCEPT ![Resp(r)] = k]
    /\ history' = Append(history, Result(Resp(r), 1, Resp(r), "Cancelled"))
    /\ To(r, "cancelling")
    /\ UNCHANGED <<lease, rec, records, queued, made, users, crashes, started, overtaken>>

(* ... answers the others, and completes the response. *)
CancelAnswer(r) ==
    /\ At(r, {"cancelling"})
    /\ IF CanWrite(r)
       THEN /\ history' = LET h == AnswerSkippedCalls(history, ResultAt(Resp(r)))
                          IN  [i \in DOMAIN h |-> IF IsResponse(h, i, Resp(r))
                                                  THEN Response(Resp(r), "Complete") ELSE h[i]]
            /\ FinishAndDrain(r)
       ELSE FinishTurn(r) /\ UNCHANGED history
    /\ UNCHANGED <<rec, calls, records, queued, made, users, crashes, started, overtaken>>

-----------------------------------------------------------------------------
(* Scripts.  A step of a handler that is refused, or fails, ends the turn  *)
(* (fail_script_turn) and leaves the record to the next owner.             *)
FailScriptTurn(r) ==
    /\ FinishAndDrain(r)
    /\ UNCHANGED <<rec, durable, made, users, crashes, started, overtaken>>

(* prepare_or_execute_script and finish_invalid_script up to the record. *)
CreateRecord(r) ==
    /\ At(r, {"completed"})
    /\ \/ /\ CanWrite(r)
          /\ records' = [records EXCEPT ![Resp(r)] = [phase |-> "Prepared", status |-> "none"]]
          /\ To(r, "created")
          /\ UNCHANGED <<lease, rec, history, calls, queued, made, users, crashes, started, overtaken>>
       \/ FailScriptTurn(r)

(* ExecutionStore::finish from a handler, then finalize_script_turn. *)
FinishPrepared(r, status) ==
    IF CanWrite(r) /\ CompletionAllowed(records[Resp(r)].phase, status)
    THEN /\ records' = Finished(Resp(r), status)
         /\ To(r, "finished")
         /\ UNCHANGED <<lease, rec, history, calls, queued, made, users, crashes, started, overtaken>>
    ELSE FailScriptTurn(r)

(* The response is malformed, or the profile denies what it asks for. *)
Refuse(r) ==
    /\ At(r, {"created"})
    /\ \E status \in {"Denied", "InvalidScript"} : FinishPrepared(r, status)

(* The profile asks the user. *)
Prompt(r) ==
    /\ At(r, {"created"})
    /\ IF CanWrite(r) /\ records[Resp(r)].phase = "Prepared"
       THEN /\ records' = [records EXCEPT ![Resp(r)].phase = "AwaitingApproval"]
            /\ To(r, "approval")
            /\ UNCHANGED <<lease, rec, history, calls, queued, made, users, crashes, started, overtaken>>
       ELSE FailScriptTurn(r)

(* start_prepared_script, allowed by the profile or approved by the user. *)
StartPrepared(r) ==
    /\ At(r, {"created", "approval"})
    /\ To(r, "starting")
    /\ UNCHANGED <<lease, rec, durable, made, users, crashes, started, overtaken>>

(* deny, and cancel while the user has not answered. *)
EndPending(r) ==
    /\ At(r, {"approval"})
    /\ \E status \in {"Denied", "Cancelled"} : FinishPrepared(r, status)

(* Variant: any record may be started again. *)
StartableAlways(m) == records[m].phase # "none"

(* The phases mark_running expects. *)
Startable(m) == records[m].phase \in {"Prepared", "AwaitingApproval"}

(* The script task: mark_running, then the script starts. *)
MarkRunning(r) ==
    /\ turn[r].stage = "starting"
    /\ IF CanWrite(r) /\ Startable(Resp(r))
       THEN /\ records' = [records EXCEPT ![Resp(r)].phase = "Running"]
            /\ started' = [started EXCEPT ![Resp(r)] = @ + 1]
            /\ To(r, "running")
       ELSE To(r, "broken") /\ UNCHANGED <<records, started>>
    /\ UNCHANGED <<lease, rec, history, calls, queued, made, users, crashes, overtaken>>

(* The script task records how the script ended, or that it had no host,   *)
(* or ends without having recorded anything: refused, or by a failure.     *)
FinishScript(r) ==
    /\ turn[r].stage \in {"starting", "running"}
    /\ \/ \E status \in Outcomes \cup {"HostUnavailable"} :
             /\ turn[r].stage = "starting" => status = "HostUnavailable"
             /\ status = "Cancelled" => turn[r].stop
             /\ CanWrite(r)
             /\ CompletionAllowed(records[Resp(r)].phase, status)
             /\ records' = Finished(Resp(r), status)
             /\ To(r, "ended")
       \/ To(r, "broken") /\ UNCHANGED records
    /\ UNCHANGED <<lease, rec, history, calls, queued, made, users, crashes, started, overtaken>>

(* script_ended with an error. *)
ScriptBroken(r) == At(r, {"broken"}) /\ FailScriptTurn(r)

(* finalize_script_turn: the result is linked ... *)
DeliverResult(r) ==
    /\ At(r, {"ended", "finished"})
    /\ \/ /\ CanWrite(r) \/ Linked(Resp(r))
          /\ history' = AppendResult(Resp(r))
          /\ To(r, "delivered")
          /\ UNCHANGED <<lease, rec, calls, records, queued, made, users, crashes, started, overtaken>>
       \/ FailScriptTurn(r)

(* ... the skipped calls are answered, and the turn ends or continues. *)
FinalizeScriptTurn(r) ==
    /\ At(r, {"delivered"})
    /\ LET after == AnswerSkippedCalls(history, ResultAt(Resp(r)))
           status == records[Resp(r)].status
           resting == [Idle EXCEPT !.active = turn[r].active]
       IN  IF ~CanWrite(r) /\ after # history
           THEN FailScriptTurn(r)
           ELSE /\ history' = after
                /\ \/ /\ status \in {"HostUnavailable", "Cancelled"} \/ ~turn[r].active
                      /\ FinishAndDrain(r)
                      /\ UNCHANGED <<rec, queued, overtaken>>
                   \/ /\ status \notin {"HostUnavailable", "Cancelled"} /\ turn[r].active
                      /\ EnsureLease(r, IF queued > 0 THEN "intercept" ELSE "continue", resting)
                   \/ /\ status \notin {"HostUnavailable", "Cancelled"} /\ turn[r].active
                      /\ ~Owns(r) /\ ~Claimable
                      /\ turn' = [turn EXCEPT ![r] = resting]
                      /\ UNCHANGED <<lease, rec, queued, overtaken>>
                /\ UNCHANGED <<calls, records, made, users, crashes, started>>

(* cancel of a running script, and of a turn that has nothing under way. *)
CancelTurn(r) ==
    /\ \/ /\ At(r, {"starting", "running", "ended", "broken"})
          /\ turn' = [turn EXCEPT ![r].stop = TRUE, ![r].active = FALSE]
          /\ UNCHANGED lease
       \/ /\ At(r, {"idle"})
          /\ turn[r].active
          /\ FinishAndDrain(r)
    /\ UNCHANGED <<rec, durable, made, users, crashes, started, overtaken>>

(* The first transaction of a cancel that discards the queue. *)
DiscardQueue(r) ==
    /\ At(r, {"idle", "preparing", "streaming", "approval", "starting", "running", "ended", "broken"})
    /\ Owns(r)
    /\ queued > 0
    /\ queued' = 0
    /\ IF turn[r].stage = "idle" THEN FinishTurn(r) ELSE UNCHANGED <<lease, turn>>
    /\ UNCHANGED <<rec, history, calls, records, made, users, crashes, started, overtaken>>

-----------------------------------------------------------------------------
(* Leases and processes. *)
Expire ==
    /\ owner # NoOne /\ ~expired
    /\ expired' = TRUE
    /\ UNCHANGED <<owner, token, turn, rec, durable, made, users, crashes, started, overtaken>>

Renew(r) ==
    /\ Owns(r) /\ expired
    /\ expired' = FALSE
    /\ UNCHANGED <<owner, token, turn, rec, durable, made, users, crashes, started, overtaken>>

Crash(r) ==
    /\ turn[r].stage # "down"
    /\ crashes < MaxCrashes
    /\ crashes' = crashes + 1
    /\ turn' = [turn EXCEPT ![r] = Down]
    /\ rec' = [rec EXCEPT ![r] = NoRecovery]
    /\ token' = [token EXCEPT ![r] = FALSE]
    /\ UNCHANGED <<owner, expired, durable, made, users, started, overtaken>>

(* serve after Shutdown: a stream and an unanswered approval are left as   *)
(* they are, and the lease is released.                                    *)
Shutdown(r) ==
    /\ At(r, {"idle", "streaming", "approval"})
    /\ crashes < MaxCrashes
    /\ crashes' = crashes + 1
    /\ Release(r)
    /\ turn' = [turn EXCEPT ![r] = Down]
    /\ UNCHANGED <<rec, durable, made, users, started, overtaken>>

(* serve starts with sweep_expired_leases. *)
Start(r) ==
    /\ turn[r].stage = "down"
    /\ turn' = [turn EXCEPT ![r] = Idle]
    /\ IF owner # NoOne /\ expired
       THEN Claim(r) /\ rec' = [rec EXCEPT ![r] = Listed("sweep")]
       ELSE UNCHANGED <<lease, rec>>
    /\ UNCHANGED <<durable, made, users, crashes, started, overtaken>>

Step(r) ==
    \/ Send(r) \/ Prepare(r) \/ PrepareFail(r)
    \/ RecoverRecord(r) \/ RecoverResult(r) \/ RecoverSkipped(r) \/ RecoverDone(r) \/ SweepDone(r)
    \/ CompleteText(r) \/ CompleteCalls(r) \/ StreamFail(r) \/ StreamLost(r)
    \/ CancelStream(r) \/ CancelCalls(r) \/ CancelAnswer(r) \/ CancelTurn(r) \/ DiscardQueue(r)
    \/ CreateRecord(r) \/ Refuse(r) \/ Prompt(r) \/ StartPrepared(r) \/ EndPending(r)
    \/ MarkRunning(r) \/ FinishScript(r) \/ ScriptBroken(r)
    \/ DeliverResult(r) \/ FinalizeScriptTurn(r)
    \/ Renew(r) \/ Crash(r) \/ Shutdown(r) \/ Start(r)

Next == Expire \/ \E r \in Runtimes : Step(r)

Spec == Init /\ [][Next]_vars

-----------------------------------------------------------------------------
(* A script never starts once its call has an answer in the history, nor   *)
(* twice: an approval given to a process that was displaced and claimed    *)
(* the session again does not run what recovery has already reported.      *)
StartedUnanswered ==
    [][\A m \in Responses : started'[m] > started[m] => started[m] = 0 /\ ~Linked(m)]_vars

(* The outcome the model reads is the one the execution record keeps, also *)
(* when the process that ran the script reports after another one has      *)
(* recovered it.                                                           *)
DeliveredAgrees ==
    \A m \in Responses : records[m].phase # "none" /\ Linked(m) =>
        /\ records[m].phase = "Finished"
        /\ history[ResultAt(m)].how = records[m].status

(* No call is answered twice, whoever delivers, recovers or skips. *)
OneAnswer ==
    ~overtaken =>
        \A i, j \in DOMAIN history :
            /\ history[i].kind = "result" /\ history[j].kind = "result"
            /\ history[i].of = history[j].of /\ history[i].call = history[j].call
            => i = j

(* The calls of the response at position i are answered right behind it,   *)
(* before any other message.                                               *)
AnsweredInPlace(i) ==
    \A n \in 1..calls[history[i].of] :
        i + n \in DOMAIN history => history[i + n].kind = "result" /\ history[i + n].of = history[i].of

(* answer_skipped_calls: "Providers require a result for every call." *)
CallsAnswered ==
    \A i \in DOMAIN history : history[i].kind = "response" => AnsweredInPlace(i)

(* What the code guarantees of that: every call that reached an execution  *)
(* record is answered before the next message, as long as no process went  *)
(* on under a lease it had lost, or claimed one without recovering.        *)
RecordedCallsAnswered ==
    ~overtaken =>
        \A i \in DOMAIN history :
            history[i].kind = "response" /\ records[history[i].of].phase # "none" => AnsweredInPlace(i)

(* A response that is still streaming is followed by nothing but the       *)
(* results of its own cancellation: recovery can always roll it back.      *)
StreamingAtTip ==
    ~overtaken =>
        \A i \in DOMAIN history : history[i].how = "Streaming" =>
            \A j \in i + 1..Len(history) : history[j].of = history[i].of

(* The answers of scripts: what is delivered is what was recorded, every   *)
(* recorded call is answered once and in its place, and a streaming        *)
(* response is the tip, through crashes, takeovers and recoveries.         *)
ScriptsAnswered == DeliveredAgrees /\ OneAnswer /\ RecordedCallsAnswered /\ StreamingAtTip

(* recover_interrupted_stream: "Keeping an incomplete assistant message in *)
(* the conversation would make the next request include a response the     *)
(* provider never finished".                                               *)
NothingUnfinishedKept ==
    \A i, j \in DOMAIN history :
        i < j /\ history[i].how = "Streaming" => history[j].kind = "result"
=============================================================================
