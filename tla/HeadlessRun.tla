---------------------------- MODULE HeadlessRun ----------------------------
(***************************************************************************)
(* The headless client: it sends one prompt, follows the session's events  *)
(* until the session stops running, writes what the model says, and        *)
(* reports metrics and a failure, if any.  The events come through a       *)
(* broadcast channel that drops the oldest when the client falls behind;   *)
(* the runner then asks for a snapshot.  A script that needs an approval   *)
(* is cancelled, since nobody can answer.                                  *)
(*                                                                         *)
(* The session is its actor seen from outside: each handler publishes its  *)
(* events and then, if it changed, the session's state; the event hub      *)
(* keeps the turn's timer along the way.  A piece is one part of a         *)
(* response's text or a script call.                                       *)
(***************************************************************************)
EXTENDS Naturals, Sequences

CONSTANTS
    Capacity,   \* events the channel keeps for a slow receiver
    MaxReplies, \* bound: responses of the turn
    MaxPieces,  \* bound: pieces of one response's attempt
    MaxFaults,  \* bound: restarts, errors
    MaxTime     \* bound: the clock

VARIABLES
    activity,  \* the actor's TurnState: Idle, Preparing, Streaming, Waiting, Script
    history,   \* per response: its pieces, whether it completed
    channel,   \* the runner's receiver: retained events, whether some were lost
    timer,     \* TurnTimer
    now,       \* the clock
    runner,    \* the runner: step, output, completed responses, failure
    faults,    \* ghost: bounded faults so far
    worked,    \* ghost: time the turn really worked, without its waits
    said       \* ghost: everything the responses said, attempts that broke included

vars == <<activity, history, channel, timer, now, runner, faults, worked, said>>

----------------------------------------------------------------------------
\* The turn's timer: since is <<>> or <<t>>, last is <<>> or <<duration>>.

NoTimer == [active |-> FALSE, since |-> <<>>, acc |-> 0, last |-> <<>>]

(* Mutant: resuming starts over. *)
ResumedAnew(t, at) == [active |-> TRUE, since |-> <<at>>, acc |-> 0, last |-> <<>>]

(* TurnTimer::resume, and start when the timer is off. *)
Resumed(t, at) ==
    IF ~t.active THEN [active |-> TRUE, since |-> <<at>>, acc |-> 0, last |-> <<>>]
    ELSE IF t.since = <<>> THEN [t EXCEPT !.since = <<at>>] ELSE t

(* TurnTimer::pause. *)
Paused(t, at) ==
    IF t.since = <<>> THEN t
    ELSE [t EXCEPT !.since = <<>>, !.acc = @ + (at - t.since[1])]

(* TurnTimer::finish. *)
Finished(t, at) ==
    LET p == Paused(t, at)
    IN [p EXCEPT !.acc = 0, !.active = FALSE,
                 !.last = IF p.active THEN <<p.acc>> ELSE @]

(* RuntimeEventSender::send: what an event does to the timer. *)
TimerAfter(t, kind) ==
    CASE kind = "StreamStart" -> Resumed(t, now)
      [] kind = "ScriptApprovalRequested" -> Paused(t, now)
      [] OTHER -> t

----------------------------------------------------------------------------
\* The channel and the actor's handlers.

Event(kind) == [kind |-> kind, reply |-> 0, piece |-> 0]
ReplyEvent(kind, r, p) == [kind |-> kind, reply |-> r, piece |-> p]

(* A broadcast receiver keeps the last Capacity events. *)
Sent(c, evs) ==
    LET all == c.events \o evs
        lost == IF Len(all) > Capacity THEN Len(all) - Capacity ELSE 0
    IN [events |-> SubSeq(all, lost + 1, Len(all)), lagged |-> c.lagged \/ lost > 0]

StateEvent(before, after) ==
    IF before = after THEN <<>>
    ELSE <<Event(IF after = "Idle" THEN "Stopped" ELSE "StateChanged")>>

(* Mutant: the new state is published before the handler's events. *)
HandlerEventsStateFirst(before, after, evs) == StateEvent(before, after) \o evs

(* The actor's run loop: publish_state after the message's events. *)
HandlerEvents(before, after, evs) == evs \o StateEvent(before, after)

Handled(after, evs) ==
    /\ activity' = after
    /\ channel' = Sent(channel, HandlerEvents(activity, after, evs))

(* finish_turn ends the timer with the turn. *)
TimerOf(after, t) == IF after = "Idle" THEN Finished(t, now) ELSE t

Init ==
    /\ activity = "Preparing"
    /\ history = <<>>
    /\ channel = [events |-> <<Event("StateChanged")>>, lagged |-> FALSE]
    /\ timer = NoTimer /\ now = 0
    /\ runner = [step |-> "follow", shown |-> <<>>, completed |-> {}, failure |-> "none"]
    /\ faults = 0 /\ worked = 0 /\ said = <<>>

Tip == Len(history)
Fault == faults < MaxFaults /\ faults' = faults + 1

(* The preparation is over: the next response starts streaming. *)
PrepareDone ==
    /\ activity = "Preparing" /\ Tip < MaxReplies
    /\ history' = Append(history, [pieces |-> 0, complete |-> FALSE, result |-> FALSE])
    /\ Handled("Streaming", <<ReplyEvent("StreamStart", Tip + 1, 0)>>)
    /\ timer' = TimerAfter(timer, "StreamStart")
    /\ UNCHANGED <<now, runner, faults, worked, said>>

(* It failed: SessionError or ContinuationFailed, and the turn is over. *)
PrepareFails ==
    /\ activity = "Preparing" /\ (Tip = MaxReplies \/ faults < MaxFaults)
    /\ faults' = IF Tip = MaxReplies THEN faults ELSE faults + 1
    /\ Handled("Idle", <<Event("ContinuationFailed")>>)
    /\ timer' = TimerOf("Idle", timer)
    /\ UNCHANGED <<history, now, runner, worked, said>>

(* A piece of the response: ItemStarted or ItemDelta. *)
StreamPiece ==
    /\ activity = "Streaming" /\ history[Tip].pieces < MaxPieces
    /\ LET e == ReplyEvent("Item", Tip, history[Tip].pieces + 1)
       IN /\ history' = [history EXCEPT ![Tip].pieces = @ + 1]
          /\ said' = Append(said, e)
          /\ Handled("Streaming", <<e>>)
    /\ UNCHANGED <<timer, now, runner, faults, worked>>

(* The provider stream broke and is reissued: the response starts over. *)
StreamRestarted ==
    /\ activity = "Streaming" /\ Fault
    /\ LET e == ReplyEvent("StreamRestarted", Tip, 0)
       IN /\ history' = [history EXCEPT ![Tip].pieces = 0]
          /\ said' = Append(said, e)
          /\ Handled("Streaming", <<e>>)
    /\ UNCHANGED <<timer, now, runner, worked>>

(* The stream failed for good: its response is removed. *)
StreamFails ==
    /\ activity = "Streaming" /\ Fault
    /\ history' = SubSeq(history, 1, Tip - 1)
    /\ Handled("Idle", <<ReplyEvent("StreamError", Tip, 0)>>)
    /\ timer' = TimerOf("Idle", timer)
    /\ UNCHANGED <<now, runner, worked, said>>

(* The response completed: with nothing to run, with a script the profile  *)
(* allows, or with one the user would have to approve.                     *)
StreamDone(after) ==
    /\ activity = "Streaming"
    /\ history' = [history EXCEPT ![Tip].complete = TRUE]
    /\ LET asks == after = "Waiting"
           evs == <<ReplyEvent("StreamComplete", Tip, 0)>>
                  \o (IF asks THEN <<Event("ScriptApprovalRequested")>> ELSE <<>>)
       IN /\ Handled(after, evs)
          /\ timer' = TimerOf(after, IF asks THEN TimerAfter(timer, "ScriptApprovalRequested")
                                     ELSE timer)
    /\ UNCHANGED <<now, runner, faults, worked, said>>

(* The script ended: the turn goes on, or stops when the host is missing. *)
ScriptEnds ==
    /\ activity = "Script"
    /\ history' = [history EXCEPT ![Tip].result = TRUE]
    /\ Handled("Preparing", <<Event("ScriptResultReady")>>)
    /\ UNCHANGED <<timer, now, runner, faults, worked, said>>

ScriptHostMissing ==
    /\ activity = "Script" /\ Fault
    /\ history' = [history EXCEPT ![Tip].result = TRUE]
    /\ Handled("Idle", <<Event("ScriptResultReady"), Event("ContinuationFailed")>>)
    /\ timer' = TimerOf("Idle", timer)
    /\ UNCHANGED <<now, runner, worked, said>>

(* An error from outside the actor: of the runtime itself, which reaches   *)
(* every session, or of the session's lease or its timer.                  *)
OutsideError(kind) ==
    /\ Fault /\ activity # "Idle"
    /\ channel' = Sent(channel, <<Event(kind)>>)
    /\ UNCHANGED <<activity, history, timer, now, runner, worked, said>>

Tick ==
    /\ now < MaxTime /\ now' = now + 1
    /\ activity # "Idle"
    /\ worked' = IF timer.active /\ activity # "Waiting" THEN worked + 1 ELSE worked
    /\ UNCHANGED <<activity, history, channel, timer, runner, faults, said>>

----------------------------------------------------------------------------
\* The runner.

FirstFailure(f) == IF runner.failure = "none" THEN f ELSE runner.failure

(* Transcript: the pieces written so far, and the notice of a restart. *)
Written(shown, e) == Append(shown, e)

(* What the run loop does with one event. *)
AfterEvent(e) ==
    CASE e.kind \in {"Item", "StreamRestarted"} ->
            [runner EXCEPT !.shown = Written(@, e)]
      [] e.kind = "StreamComplete" ->
            [runner EXCEPT !.completed = @ \cup {e.reply}]
      [] e.kind = "ScriptApprovalRequested" ->
            [runner EXCEPT !.step = "cancel", !.failure = FirstFailure("approval")]
      [] e.kind \in {"StreamError", "ContinuationFailed", "SessionError"} ->
            [runner EXCEPT !.failure = FirstFailure("error")]
      [] e.kind = "ServiceError" ->
            [runner EXCEPT !.step = "metrics", !.failure = FirstFailure("service")]
      [] e.kind = "Stopped" -> [runner EXCEPT !.step = "metrics"]
      [] OTHER -> runner

Receive ==
    /\ runner.step = "follow" /\ ~channel.lagged /\ channel.events # <<>>
    /\ runner' = AfterEvent(Head(channel.events))
    /\ channel' = [channel EXCEPT !.events = Tail(@)]
    /\ UNCHANGED <<activity, history, timer, now, faults, worked, said>>

(* Lagged: the run is incomplete, and a snapshot is asked for. *)
Lagged ==
    /\ runner.step = "follow" /\ channel.lagged
    /\ runner' = [runner EXCEPT !.step = "snapshot", !.failure = FirstFailure("missed")]
    /\ channel' = [channel EXCEPT !.lagged = FALSE]
    /\ UNCHANGED <<activity, history, timer, now, faults, worked, said>>

(* Mutant: the snapshot's pending script is left alone. *)
AfterSnapshotRunning(active) == IF active THEN "follow" ELSE "metrics"

(* What the snapshot says to do. *)
AfterSnapshot(active) ==
    CASE ~active -> "metrics"
      [] active /\ activity = "Waiting" -> "cancel"
      [] OTHER -> "follow"

(* The snapshot's is_running is is_turn_active, which the first            *)
(* preparation only sets on its way.                                       *)
Snapshot ==
    /\ runner.step = "snapshot"
    /\ \E active \in IF activity = "Preparing" /\ Tip = 0 THEN BOOLEAN
                      ELSE {activity # "Idle"} :
           runner' = [runner EXCEPT !.step = AfterSnapshot(active)]
    /\ UNCHANGED <<activity, history, channel, timer, now, faults, worked, said>>

(* cancel_turn: only an approval brings the runner here, and nobody else   *)
(* ends the wait, so the session is still waiting or already cancelled.    *)
CancelTurn ==
    /\ runner.step = "cancel"
    /\ runner' = [runner EXCEPT !.step = "follow"]
    /\ IF activity # "Waiting" THEN UNCHANGED <<activity, history, channel, timer>>
       ELSE /\ Handled("Idle", <<Event("ScriptResultReady")>>)
            /\ history' = [history EXCEPT ![Tip].result = TRUE]
            /\ timer' = TimerOf("Idle", timer)
    /\ UNCHANGED <<now, faults, worked, said>>

(* collect_metrics: turns counted from the events, scripts from history. *)
CollectMetrics ==
    /\ runner.step = "metrics"
    /\ runner' = [runner EXCEPT !.step = "done"]
    /\ UNCHANGED <<activity, history, channel, timer, now, faults, worked, said>>

Next ==
    \/ PrepareDone \/ PrepareFails \/ StreamPiece \/ StreamRestarted \/ StreamFails
    \/ \E after \in {"Idle", "Script", "Waiting"} : StreamDone(after)
    \/ ScriptEnds \/ ScriptHostMissing \/ Tick
    \/ \E kind \in {"ServiceError", "SessionError"} : OutsideError(kind)
    \/ Receive \/ Lagged \/ Snapshot \/ CancelTurn \/ CollectMetrics

Spec == Init /\ [][Next]_vars

----------------------------------------------------------------------------
\* Properties.

(* Every variable holds what its comment says. *)
HeadlessTypeOK ==
    /\ activity \in {"Idle", "Preparing", "Streaming", "Waiting", "Script"}
    /\ Tip <= MaxReplies /\ Len(channel.events) <= Capacity
    /\ runner.step = "cancel" => activity \in {"Waiting", "Idle"}
    /\ timer.active \in BOOLEAN /\ timer.acc \in 0..MaxTime
    /\ runner.step \in {"follow", "snapshot", "cancel", "metrics", "done"}
    /\ now \in 0..MaxTime /\ faults \in 0..MaxFaults

(* A run that reports no failure has ended with the turn, shown everything *)
(* every response said, in order and once, and counted every response that *)
(* completed (runner.rs, and the run loop's order of publishing).          *)
NoSilentLoss ==
    (runner.step = "done" /\ runner.failure = "none") =>
        /\ activity = "Idle"
        /\ runner.shown = said
        /\ runner.completed = {r \in 1..Tip : history[r].complete}

(* A runner that waits for an event always has one coming: the session is  *)
(* still at work, and not on an approval nobody will give (runner.rs:86).  *)
NeverStranded ==
    (runner.step = "follow" /\ ~channel.lagged /\ channel.events = <<>>) =>
        activity \in {"Preparing", "Streaming", "Script"}

(* The time a turn is reported to have taken is the time it worked: from   *)
(* its first response to its end, without the wait for an approval         *)
(* (timing.rs, handle/events.rs).                                          *)
TimerCountsWork ==
    activity = "Idle" => timer.last \in {<<>>, <<worked>>}
=============================================================================
