------------------------------ MODULE ClientView ------------------------------
(***************************************************************************)
(* A terminal's view of one session that runs in its own process: the      *)
(* event hub numbers every event, a bounded broadcast channel may lose     *)
(* some, and the terminal joins snapshots it asked for with the events it  *)
(* received, by number.  The session actor publishes during its handlers   *)
(* and takes snapshots between them; a preparation task and the auxiliary  *)
(* usage tasks publish beside it.                                          *)
(***************************************************************************)
EXTENDS Naturals, Sequences

CONSTANTS
    Msgs,          \* message ids, numbers in the order they are created
    Cap,           \* capacity of the broadcast channel
    MaxChunks,     \* pieces of streamed text, over the whole run
    MaxUsage,      \* usage events of auxiliary tasks
    MaxAsks        \* snapshot requests the terminal may have unanswered

VARIABLES
    live,      \* the session in the process: messages, activity, turn timer
    stage,     \* what the session's tasks are doing
    chunks,    \* pieces of text streamed so far
    usages,    \* usage events published
    hub,       \* event sequence number, channel contents, whether the receiver lagged
    asks,      \* snapshot requests waiting for the request bridge
    replies,   \* snapshots on their way back
    view,      \* the terminal's copy of the session
    cursor,    \* numbers of the last event and of the last snapshot taken
    missed     \* ghost: whether events were ever lost, whether the last one was a straggler

viewVars == <<live, stage, chunks, usages, hub, asks, replies, view, cursor, missed>>

Absent == [status |-> "absent", text |-> << >>]
EmptySession == [msgs |-> [m \in Msgs |-> Absent], activity |-> "Idle", timer |-> "off"]

Init ==
    /\ live = EmptySession /\ view = EmptySession
    /\ stage = [at |-> "rest", msg |-> 0]
    /\ chunks = 0 /\ usages = 0
    /\ hub = [seq |-> 0, ring |-> << >>, lagged |-> FALSE]
    /\ asks = 0 /\ replies = << >>
    /\ cursor = [event |-> 0, snapshot |-> 0]
    /\ missed = [lag |-> FALSE, late |-> FALSE]

-----------------------------------------------------------------------------
(* The hub. *)

\* A full channel drops its oldest event and the receiver will be told so.
Publish(h, e) ==
    LET full == Len(h.ring) = Cap
        kept == IF full THEN Tail(h.ring) ELSE h.ring
    IN [seq |-> h.seq + 1, lagged |-> h.lagged \/ full,
        ring |-> Append(kept, [number |-> h.seq + 1, event |-> e])]

Timing(t) == [kind |-> "TurnTimingChanged", timer |-> t]
ResumedTimer(t) == "running"
PausedTimer(t) == IF t = "running" THEN "paused" ELSE t

\* A stream start resumes the timer and an approval request pauses it; a timer that changed is
\* published first.
Send(h, timer, e) ==
    LET next == CASE e.kind = "StreamStart" -> ResumedTimer(timer)
                  [] e.kind = "ScriptApprovalRequested" -> PausedTimer(timer)
                  [] OTHER -> timer
        timed == IF next # timer THEN Publish(h, Timing(next)) ELSE h
    IN [hub |-> Publish(timed, e), timer |-> next]

\* finish_timer and resume_timer always publish.
UpdateTimer(h, t) == Publish(h, Timing(t))

Upserted(m, body) == [kind |-> "MessageUpserted", msg |-> m, body |-> body]
Note(k) == [kind |-> k]
State(a) == [kind |-> "SessionStateChanged", activity |-> a]

-----------------------------------------------------------------------------
(* The session: one handler of the actor per action. *)

SetBody(m, body) == [live.msgs EXCEPT ![m] = body]
Fresh(m) == live.msgs[m] = Absent /\ \A n \in Msgs : n < m => live.msgs[n] # Absent

\* A preparation task commits the new message ...
PrepareCommit ==
    /\ stage.at = "rest" /\ live.activity = "Idle"
    /\ \E m \in Msgs :
          /\ Fresh(m)
          /\ live' = [live EXCEPT !.msgs = SetBody(m, [status |-> "streaming", text |-> << >>])]
          /\ stage' = [at |-> "committed", msg |-> m]
    /\ missed' = [missed EXCEPT !.late = FALSE]
    /\ UNCHANGED <<chunks, usages, hub, asks, replies, view, cursor>>

\* ... and tells the history observer afterwards.
PrepareNotify ==
    /\ stage.at = "committed"
    /\ stage' = [stage EXCEPT !.at = "prepared"]
    /\ hub' = Publish(hub, Upserted(stage.msg, live.msgs[stage.msg]))
    /\ UNCHANGED <<live, chunks, usages, asks, replies, view, cursor, missed>>

StartStream ==
    /\ stage.at = "prepared"
    /\ stage' = [stage EXCEPT !.at = "streaming"]
    /\ LET sent == Send(hub, live.timer, Note("StreamStart"))
       IN /\ live' = [live EXCEPT !.activity = "Streaming", !.timer = sent.timer]
          /\ hub' = Publish(sent.hub, State("Streaming"))
    /\ UNCHANGED <<chunks, usages, asks, replies, view, cursor, missed>>

\* The first piece starts an item, the others extend it.
StreamText ==
    /\ stage.at = "streaming" /\ chunks < MaxChunks
    /\ chunks' = chunks + 1
    /\ LET m == stage.msg
           old == live.msgs[m].text
       IN /\ live' = [live EXCEPT !.msgs = SetBody(m, [@[m] EXCEPT !.text = Append(old, chunks + 1)])]
          /\ hub' = Publish(hub, [kind |-> IF old = << >> THEN "ItemStarted" ELSE "ItemDelta",
                                  msg |-> m, text |-> chunks + 1])
    /\ UNCHANGED <<stage, usages, asks, replies, view, cursor, missed>>

RestartStream ==
    /\ stage.at = "streaming" /\ live.msgs[stage.msg].text # << >>
    /\ live' = [live EXCEPT !.msgs = SetBody(stage.msg, [status |-> "streaming", text |-> << >>])]
    /\ hub' = Publish(hub, [kind |-> "StreamRestarted", msg |-> stage.msg])
    /\ UNCHANGED <<stage, chunks, usages, asks, replies, view, cursor, missed>>

CompletedBody == [live.msgs[stage.msg] EXCEPT !.status = "complete"]
HubCompleted == Publish(Publish(hub, Upserted(stage.msg, CompletedBody)), Note("StreamComplete"))

\* A response without a script ends the turn: the timer is finished before TurnCompleted, and the
\* changed activity is published last.
CompleteTurn ==
    /\ stage.at = "streaming"
    /\ stage' = [stage EXCEPT !.at = "rest"]
    /\ live' = [msgs |-> SetBody(stage.msg, CompletedBody), activity |-> "Idle", timer |-> "off"]
    /\ hub' = Publish(Publish(UpdateTimer(HubCompleted, "off"), Note("TurnCompleted")), State("Idle"))
    /\ UNCHANGED <<chunks, usages, asks, replies, view, cursor, missed>>

\* A response with a script that needs approval.
CompleteWithCall ==
    /\ stage.at = "streaming"
    /\ stage' = [stage EXCEPT !.at = "approval"]
    /\ LET sent == Send(HubCompleted, live.timer, Note("ScriptApprovalRequested"))
       IN /\ live' = [msgs |-> SetBody(stage.msg, CompletedBody), activity |-> "AwaitingApproval",
                      timer |-> sent.timer]
          /\ hub' = Publish(sent.hub, State("AwaitingApproval"))
    /\ UNCHANGED <<chunks, usages, asks, replies, view, cursor, missed>>

\* The decision resumes the timer; the result is in and the turn goes on with a preparation.
DecideScript ==
    /\ stage.at = "approval"
    /\ stage' = [stage EXCEPT !.at = "rest"]
    /\ live' = [live EXCEPT !.activity = "Idle", !.timer = "running"]
    /\ hub' = Publish(Publish(UpdateTimer(hub, "running"), Note("ScriptResultReady")), State("Idle"))
    /\ UNCHANGED <<chunks, usages, asks, replies, view, cursor, missed>>

\* A cancelled response without text is removed, one with text is kept as it is.
CancelStream ==
    /\ stage.at = "streaming"
    /\ stage' = [stage EXCEPT !.at = "rest"]
    /\ LET m == stage.msg
           kept == live.msgs[m].text # << >>
           told == IF kept THEN Upserted(m, CompletedBody)
                           ELSE [kind |-> "MessagesRemoved", msg |-> m]
       IN /\ live' = [msgs |-> SetBody(m, IF kept THEN CompletedBody
                                           ELSE [status |-> "removed", text |-> << >>]),
                      activity |-> "Idle", timer |-> "off"]
          /\ hub' = Publish(Publish(UpdateTimer(Publish(hub, told), "off"), Note("StreamCancelled")),
                            State("Idle"))
    /\ UNCHANGED <<chunks, usages, asks, replies, view, cursor, missed>>

\* An auxiliary request (a title, cache warming) reports its cost whenever it ends.
AuxiliaryUsage ==
    /\ usages < MaxUsage
    /\ usages' = usages + 1
    /\ hub' = Publish(hub, Note("RequestUsageUpdated"))
    /\ missed' = [missed EXCEPT !.late = (stage.at = "rest")]
    /\ UNCHANGED <<live, stage, chunks, asks, replies, view, cursor>>

-----------------------------------------------------------------------------
(* The two bridges. *)

\* The event bridge reports a loss first and then what is left in the channel; its own queue to
\* the terminal is unbounded and in order, so the two act as one.
ForwardRuntimeEvent(h) ==
    IF h.lagged THEN [number |-> 0, event |-> Note("Lagged")] ELSE Head(h.ring)
ForwardedHub(h) ==
    IF h.lagged THEN [h EXCEPT !.lagged = FALSE] ELSE [h EXCEPT !.ring = Tail(@)]

\* The actor captures messages, activity, timer and the event number together, behind the
\* session's barrier.
CaptureSnapshot ==
    /\ asks > 0
    /\ asks' = asks - 1
    /\ replies' = Append(replies, [number |-> hub.seq, session |-> live])
    /\ UNCHANGED <<live, stage, chunks, usages, hub, view, cursor, missed>>

-----------------------------------------------------------------------------
(* The terminal. *)

Streamable(m) == view.msgs[m].status = "streaming"

\* What an event does to the view when no snapshot covers it.
StreamedContent(e) ==
    LET body == view.msgs[e.msg]
    IN CASE e.kind = "ItemStarted" /\ Streamable(e.msg) ->
              [view EXCEPT !.msgs[e.msg].text = << e.text >>]
         [] e.kind = "ItemDelta" /\ Streamable(e.msg) /\ body.text # << >> ->
              [view EXCEPT !.msgs[e.msg].text = Append(@, e.text)]
         [] e.kind = "StreamRestarted" /\ Streamable(e.msg) ->
              [view EXCEPT !.msgs[e.msg].text = << >>]
         [] OTHER -> view

Applied(e) ==
    CASE e.kind \in {"ItemStarted", "ItemDelta", "StreamRestarted"} -> StreamedContent(e)
      [] e.kind = "MessageUpserted" -> [view EXCEPT !.msgs[e.msg] = e.body]
      [] e.kind = "MessagesRemoved" ->
            [view EXCEPT !.msgs[e.msg] = [status |-> "removed", text |-> << >>]]
      [] e.kind = "SessionStateChanged" -> [view EXCEPT !.activity = e.activity]
      [] e.kind = "TurnTimingChanged" -> [view EXCEPT !.timer = e.timer]
      [] e.kind = "StreamStart" -> [view EXCEPT !.activity = "Streaming"]
      [] e.kind = "ScriptApprovalRequested" -> [view EXCEPT !.activity = "AwaitingApproval"]
      [] e.kind \in {"StreamComplete", "StreamCancelled", "ScriptResultReady"} ->
            [view EXCEPT !.activity = "Idle"]
      [] OTHER -> view

\* An event the cache cannot take asks for a snapshot.
CacheRefuses(e) ==
    \/ e.kind = "ItemStarted" /\ ~Streamable(e.msg)
    \/ e.kind = "ItemDelta" /\ (~Streamable(e.msg) \/ view.msgs[e.msg].text = << >>)

\* What the handler asks of the runtime; an event that a snapshot covers still asks when the
\* stream completed.
AsksSync(e, covered) ==
    \/ e.kind = "StreamComplete"
    \/ ~covered /\ (e.kind \in {"TurnCompleted", "StreamCancelled"} \/ CacheRefuses(e))

CoveredEarly(n) == n < cursor.snapshot
Covered(n) == n <= cursor.snapshot

HandleEvent ==
    /\ hub.ring # << >>
    /\ hub' = ForwardedHub(hub)
    /\ LET item == ForwardRuntimeEvent(hub)
           covered == Covered(item.number)
           lagged == item.event.kind = "Lagged"
           sync == lagged \/ AsksSync(item.event, covered)
       IN /\ asks' = IF sync THEN asks + 1 ELSE asks
          /\ asks' + Len(replies) <= MaxAsks
          /\ cursor' = IF lagged THEN cursor ELSE [cursor EXCEPT !.event = item.number]
          /\ view' = IF lagged \/ covered THEN view ELSE Applied(item.event)
          /\ missed' = IF lagged THEN [missed EXCEPT !.lag = TRUE] ELSE missed
    /\ UNCHANGED <<live, stage, chunks, usages, replies>>

InstallableAny(reply) == TRUE
Installable(reply) == reply.number >= cursor.event

\* A snapshot older than an event that was already handled is dropped.
HandleSnapshot ==
    /\ replies # << >>
    /\ replies' = Tail(replies)
    /\ IF Installable(Head(replies))
       THEN /\ view' = Head(replies).session
            /\ cursor' = [cursor EXCEPT !.snapshot = Head(replies).number]
       ELSE UNCHANGED <<view, cursor>>
    /\ UNCHANGED <<live, stage, chunks, usages, hub, asks, missed>>

\* A command of the user asks for a snapshot at any time.
UserSync ==
    /\ asks + Len(replies) < MaxAsks
    /\ asks' = asks + 1
    /\ UNCHANGED <<live, stage, chunks, usages, hub, replies, view, cursor, missed>>

Next ==
    \/ PrepareCommit \/ PrepareNotify \/ StartStream \/ StreamText \/ RestartStream
    \/ CompleteTurn \/ CompleteWithCall \/ DecideScript \/ CancelStream \/ AuxiliaryUsage
    \/ CaptureSnapshot \/ HandleEvent \/ HandleSnapshot \/ UserSync

Spec == Init /\ [][Next]_viewVars

-----------------------------------------------------------------------------
Sessions == [msgs : [Msgs -> [status : {"absent", "streaming", "complete", "removed"},
                              text : Seq(1..MaxChunks)]],
             activity : {"Idle", "Streaming", "AwaitingApproval"},
             timer : {"off", "running", "paused"}]

TypeOK ==
    /\ live \in Sessions /\ view \in Sessions
    /\ stage.at \in {"rest", "committed", "prepared", "streaming", "approval"}
    /\ Len(hub.ring) <= Cap /\ asks \in 0..MaxAsks
    /\ cursor.event <= hub.seq /\ cursor.snapshot <= hub.seq

Drained == hub.ring = << >> /\ asks = 0 /\ replies = << >>

(* Once nothing is on its way, the terminal shows the session as it is: always if no event was   *)
(* ever lost, and after a loss as soon as the turn has ended, unless the last event was the      *)
(* straggling usage report of an auxiliary request (it makes the terminal drop the snapshot it   *)
(* was waiting for, and nothing asks for another).                                               *)
SettledViewAgrees ==
    Drained /\ stage.at \in {"rest", "streaming", "approval"}
            /\ (missed.lag => stage.at = "rest" /\ live.timer = "off" /\ ~missed.late)
       => view = live

(* Streamed text is never shown twice or out of order, however snapshots and events interleave: *)
(* pieces are numbered as they are produced.                                                     *)
TextInOrder ==
    \A m \in Msgs : \A i, j \in 1..Len(view.msgs[m].text) :
        i < j => view.msgs[m].text[i] < view.msgs[m].text[j]
=============================================================================
