------------------------------ MODULE AcpPrompt ------------------------------
(***************************************************************************)
(* The ACP agent's handling of prompts of one session.  A prompt takes the *)
(* session's turn lock, submits its message and then follows the runtime's *)
(* events until the turn ends; a receiver that lagged is brought up to     *)
(* date from a snapshot, whose event number tells which later events it    *)
(* already contains.  The client sees text, retry notices, one tool call   *)
(* and its result.                                                         *)
(***************************************************************************)
EXTENDS Naturals, Sequences

CONSTANTS
    Cap,           \* capacity of the broadcast channel
    MaxChunks,     \* pieces of text over the whole run
    MaxRestarts,   \* reissued provider requests
    MaxPrompts,    \* prompts the client makes
    MaxUpdates     \* HistoryUpdated events of the session observer

VARIABLES
    live,     \* the session in the runtime: where its turn is, its text, its script call
    spent,    \* pieces, restarts, prompts and observer events so far
    hub,      \* number of the last event, the receiver's ring, whether it lagged
    prompt,   \* the prompt handler: where it is, its token, how it will answer
    out,      \* Output: bytes sent, calls announced and open, events covered
    client,   \* what the client was sent: text and notices, calls, results, the last answer
    ghost     \* whether a snapshot was joined to text of an earlier attempt

acpVars == <<live, spent, hub, prompt, out, client, ghost>>

NoOutput == [sent |-> 0, announced |-> FALSE, open |-> FALSE, covered |-> 0]
NoClient == [shown |-> << >>, calls |-> 0, results |-> 0]

Init ==
    /\ live = [at |-> "done", text |-> << >>, call |-> "none"]
    /\ spent = [chunks |-> 0, restarts |-> 0, prompts |-> 0, updates |-> 0]
    /\ hub = [seq |-> 0, ring |-> << >>, lagged |-> FALSE]
    /\ prompt = [at |-> "idle", cancelled |-> FALSE, reason |-> "none"]
    /\ out = NoOutput /\ client = NoClient
    /\ ghost = FALSE

Running == live.at # "done"

-----------------------------------------------------------------------------
(* The session's turn, as far as its events go. *)

Publish(h, e) ==
    LET full == Len(h.ring) = Cap
        kept == IF full THEN Tail(h.ring) ELSE h.ring
    IN [seq |-> h.seq + 1, lagged |-> h.lagged \/ full,
        ring |-> Append(kept, [number |-> h.seq + 1, event |-> e])]

Event(k) == [kind |-> k]
Spend(what) == spent' = [spent EXCEPT ![what] = @ + 1]

\* A text item starts or grows.
StreamText ==
    /\ live.at = "streaming" /\ live.call = "none" /\ spent.chunks < MaxChunks
    /\ Spend("chunks")
    /\ live' = [live EXCEPT !.text = Append(@, spent.chunks + 1)]
    /\ hub' = Publish(hub, [kind |-> "Text", piece |-> spent.chunks + 1])
    /\ UNCHANGED <<prompt, out, client, ghost>>

\* The provider's stream broke and the request is sent again: its items are dropped.
StreamRestart ==
    /\ live.at = "streaming" /\ live.call = "none" /\ spent.restarts < MaxRestarts
    /\ Spend("restarts")
    /\ live' = [live EXCEPT !.text = << >>]
    /\ hub' = Publish(hub, Event("StreamRestarted"))
    /\ UNCHANGED <<prompt, out, client, ghost>>

\* The response ends in a script call, which runs at once or waits for an approval.
StreamCall ==
    /\ live.at = "streaming" /\ live.call = "none"
    /\ \E at \in {"pending", "running"} :
          /\ live' = [live EXCEPT !.at = at, !.call = "made"]
          /\ hub' = Publish(Publish(hub, Event("ScriptPrepared")),
                            Event(IF at = "pending" THEN "ScriptApprovalRequested"
                                                    ELSE "ScriptStarted"))
    /\ UNCHANGED <<spent, prompt, out, client, ghost>>

\* The script ends; its result is stored and the response goes on.
ScriptEnd ==
    /\ live.at = "running"
    /\ live' = [live EXCEPT !.at = "streaming", !.call = "answered"]
    /\ hub' = Publish(hub, Event("ScriptResultReady"))
    /\ UNCHANGED <<spent, prompt, out, client, ghost>>

TurnEnd ==
    /\ live.at = "streaming"
    /\ live' = [live EXCEPT !.at = "done"]
    /\ \E k \in {"TurnCompleted", "StreamError"} : hub' = Publish(hub, Event(k))
    /\ UNCHANGED <<spent, prompt, out, client, ghost>>

\* The observer found a new revision before this runtime held the turn.
HistoryChanged ==
    /\ prompt.at # "idle" /\ spent.updates < MaxUpdates
    /\ Spend("updates")
    /\ hub' = Publish(hub, Event("HistoryUpdated"))
    /\ UNCHANGED <<live, prompt, out, client, ghost>>

-----------------------------------------------------------------------------
(* What the handler sends. *)

\* The client's copy and the handler's books travel together through one event or snapshot.
Books == [out |-> out, client |-> client]

SendText(b, pieces) ==
    [out |-> [b.out EXCEPT !.sent = @ + Len(pieces)],
     client |-> [b.client EXCEPT !.shown = @ \o pieces]]

Announce(b) ==
    IF b.out.announced THEN b
    ELSE [out |-> [b.out EXCEPT !.announced = TRUE, !.open = TRUE],
          client |-> [b.client EXCEPT !.calls = @ + 1]]

ResultAlways(b) ==
    [out |-> [b.out EXCEPT !.open = FALSE, !.announced = TRUE],
     client |-> [b.client EXCEPT !.results = @ + 1]]

\* A result is sent for a call that is open or was never announced.
Result(b) ==
    IF b.out.open \/ ~b.out.announced
    THEN [out |-> [b.out EXCEPT !.open = FALSE, !.announced = TRUE],
          client |-> [b.client EXCEPT !.results = @ + 1]]
    ELSE b

\* 0 stands for the notice that the response is being retried.
Restarted(b) ==
    [out |-> [b.out EXCEPT !.sent = 0], client |-> [b.client EXCEPT !.shown = Append(@, 0)]]

Shown(b, e) ==
    CASE e.kind = "Text" -> SendText(b, <<e.piece>>)
      [] e.kind = "StreamRestarted" -> Restarted(b)
      [] e.kind = "ScriptPrepared" -> Announce(b)
      [] e.kind = "ScriptResultReady" -> Result(b)
      [] OTHER -> b

UncoveredAlways(b, e) == TRUE

Uncovered(b, e) == e.number > b.out.covered

ResyncedFromStart(b) ==
    LET texted == SendText([b EXCEPT !.out.covered = hub.seq], live.text)
        called == IF live.call # "none" THEN Announce(texted) ELSE texted
    IN IF live.call = "answered" THEN Result(called) ELSE called

\* resync: the snapshot's number covers every event up to now, the text beyond what was sent is
\* sent, calls and results that were missed are made up for.
Resynced(b) ==
    LET rest == SubSeq(live.text, b.out.sent + 1, Len(live.text))
        texted == SendText([b EXCEPT !.out.covered = hub.seq], rest)
        called == IF live.call # "none" THEN Announce(texted) ELSE texted
    IN IF live.call = "answered" THEN Result(called) ELSE called

\* The text the handler counts as sent is not the text the snapshot starts with.
Splices(b) ==
    /\ b.out.sent > 0
    /\ \/ b.out.sent > Len(live.text)
       \/ SubSeq(live.text, 1, b.out.sent)
            # SubSeq(b.client.shown, Len(b.client.shown) - b.out.sent + 1, Len(b.client.shown))

Took(b) == out' = b.out /\ client' = b.client
Go(at, reason) == prompt' = [prompt EXCEPT !.at = at, !.reason = reason]

-----------------------------------------------------------------------------
(* The prompt handler. *)

\* begin_turn takes the session's lock with a fresh token; the handler subscribes before it
\* submits anything.  A prompt that finds the lock taken is refused.
BeginTurn ==
    /\ prompt.at = "idle" /\ spent.prompts < MaxPrompts
    /\ Spend("prompts")
    /\ prompt' = [at |-> "starting", cancelled |-> FALSE, reason |-> "none"]
    /\ hub' = [hub EXCEPT !.ring = << >>, !.lagged = FALSE]
    /\ out' = NoOutput /\ client' = NoClient /\ ghost' = FALSE
    /\ UNCHANGED live

\* session/cancel, or the connection closing, cancels the token of the prompt there is.
Cancel ==
    /\ prompt.at # "idle" /\ ~prompt.cancelled
    /\ prompt' = [prompt EXCEPT !.cancelled = TRUE]
    /\ UNCHANGED <<live, spent, hub, out, client, ghost>>

\* send_content answers once the new response is the session's tip.
Submit ==
    /\ prompt.at = "starting"
    /\ \/ /\ prompt.cancelled
          /\ Go("idle", "Cancelled")
          /\ UNCHANGED live
       \/ /\ ~prompt.cancelled
          /\ live' = [at |-> "streaming", text |-> << >>, call |-> "none"]
          /\ Go("driving", "none")
       \/ Go("idle", "error") /\ UNCHANGED live
    /\ UNCHANGED <<spent, hub, out, client, ghost>>

\* The token is looked at before the receiver, also while a permission is awaited.
DriveCancelled ==
    /\ prompt.at \in {"driving", "asking"} /\ prompt.cancelled
    /\ Go("closing", "Cancelled")
    /\ UNCHANGED <<live, spent, hub, out, client, ghost>>

Popped == hub' = [hub EXCEPT !.ring = Tail(@)]

\* catch_up: what a snapshot says of the turn decides how the handler goes on.
CatchUp ==
    /\ Took(IF live.at = "pending" THEN Announce(Resynced(Books)) ELSE Resynced(Books))
    /\ ghost' = (ghost \/ Splices(Books))
    /\ CASE live.at = "pending" -> Go("asking", "none")
         [] ~Running -> Go("closing", "EndTurn")
         [] OTHER -> Go("driving", "none")

DriveLagged ==
    /\ prompt.at = "driving" /\ ~prompt.cancelled /\ hub.lagged
    /\ CatchUp
    /\ hub' = [hub EXCEPT !.lagged = FALSE]
    /\ UNCHANGED <<live, spent>>

DriveEvent ==
    /\ prompt.at = "driving" /\ ~prompt.cancelled /\ ~hub.lagged /\ hub.ring # << >>
    /\ Popped
    /\ LET e == Head(hub.ring)
           kind == e.event.kind
       IN IF ~Uncovered(Books, e)
          THEN UNCHANGED <<prompt, out, client, ghost>>
          ELSE CASE kind = "HistoryUpdated" -> CatchUp
                 [] kind = "TurnCompleted" ->
                      Go("closing", "EndTurn") /\ UNCHANGED <<out, client, ghost>>
                 [] kind = "StreamError" ->
                      Go("closing", "error") /\ UNCHANGED <<out, client, ghost>>
                 [] kind = "ScriptApprovalRequested" ->
                      Go("asking", "none") /\ Took(Announce(Books)) /\ UNCHANGED ghost
                 [] OTHER ->
                      Took(Shown(Books, e.event)) /\ UNCHANGED <<prompt, ghost>>
    /\ UNCHANGED <<live, spent>>

\* An error of the session or of a service ends the loop, like a closed receiver or a snapshot that
\* cannot be read.
DriveInterrupted ==
    /\ prompt.at = "driving" /\ ~prompt.cancelled
    /\ Go("closing", "error")
    /\ UNCHANGED <<live, spent, hub, out, client, ghost>>

\* The client's answer: allow and deny reach the actor, which runs the script or stores a
\* refusal; cancelled cancels the token; anything else, or an answer for a script that is no
\* longer pending, fails the prompt.
Permission ==
    /\ prompt.at = "asking" /\ ~prompt.cancelled
    /\ \/ /\ live.at = "pending"
          /\ \/ /\ live' = [live EXCEPT !.at = "running"]
                /\ hub' = Publish(hub, Event("ScriptStarted"))
             \/ /\ live' = [live EXCEPT !.at = "streaming", !.call = "answered"]
                /\ hub' = Publish(hub, Event("ScriptResultReady"))
          /\ Go("driving", "none")
       \/ /\ prompt' = [prompt EXCEPT !.at = "closing", !.cancelled = TRUE, !.reason = "Cancelled"]
          /\ UNCHANGED <<live, hub>>
       \/ Go("closing", "error") /\ UNCHANGED <<live, hub>>
    /\ UNCHANGED <<spent, out, client, ghost>>

MustCancelOnError(p) == p.reason = "error"

\* Whether the runtime is told to cancel the turn when the handler leaves its loop.
MustCancel(p) == p.cancelled \/ p.reason = "error"

\* cancel_turn answers after the actor ended the turn: a script's result is stored, a response
\* is cancelled.
CancelTurn ==
    /\ prompt.at = "closing" /\ MustCancel(prompt)
    /\ live' = IF Running THEN [live EXCEPT !.at = "done", !.call = IF @ = "made" THEN "answered" ELSE @]
               ELSE live
    /\ hub' = CASE live.at \in {"pending", "running"} -> Publish(hub, Event("ScriptResultReady"))
                [] live.at = "streaming" -> Publish(hub, Event("StreamCancelled"))
                [] OTHER -> hub
    /\ Go("draining", prompt.reason)
    /\ UNCHANGED <<spent, out, client, ghost>>

Finish ==
    /\ prompt.at = "closing" /\ ~MustCancel(prompt)
    /\ Go("idle", prompt.reason)
    /\ UNCHANGED <<live, spent, hub, out, client, ghost>>

\* What the receiver still holds is shown; a lag ends the draining with a snapshot.
Drain ==
    /\ prompt.at = "draining"
    /\ \/ /\ hub.lagged
          /\ Took(Resynced(Books)) /\ ghost' = (ghost \/ Splices(Books))
          /\ Go("idle", prompt.reason)
          /\ UNCHANGED hub
       \/ /\ ~hub.lagged /\ hub.ring # << >>
          /\ Popped
          /\ Took(IF Uncovered(Books, Head(hub.ring)) THEN Shown(Books, Head(hub.ring).event) ELSE Books)
          /\ UNCHANGED <<prompt, ghost>>
       \/ /\ ~hub.lagged /\ hub.ring = << >>
          /\ Go("idle", prompt.reason)
          /\ UNCHANGED <<hub, out, client, ghost>>
    /\ UNCHANGED <<live, spent>>

Next ==
    \/ StreamText \/ StreamRestart \/ StreamCall \/ ScriptEnd \/ TurnEnd \/ HistoryChanged
    \/ BeginTurn \/ Cancel \/ Submit \/ DriveCancelled \/ DriveLagged \/ DriveEvent
    \/ DriveInterrupted
    \/ Permission \/ CancelTurn \/ Finish \/ Drain

Spec == Init /\ [][Next]_acpVars

-----------------------------------------------------------------------------
AcpTypeOK ==
    /\ live.at \in {"done", "streaming", "pending", "running"}
    /\ live.call \in {"none", "made", "answered"} /\ live.text \in Seq(1..MaxChunks)
    /\ prompt.at \in {"idle", "starting", "driving", "asking", "closing", "draining"}
    /\ prompt.reason \in {"none", "Cancelled", "EndTurn", "error"}
    /\ Len(hub.ring) <= Cap /\ out.covered <= hub.seq

\* What the client shows of the attempt it believes current.
Current(shown) ==
    LET notices == {i \in DOMAIN shown : shown[i] = 0}
    IN SubSeq(shown, (IF notices = {} THEN 0 ELSE CHOOSE i \in notices : \A j \in notices : j <= i) + 1,
              Len(shown))

Began == prompt.at \notin {"idle", "starting"}
Answered == prompt.at = "idle" /\ prompt.reason # "none"

(* Events that a snapshot already contains are not shown again and none is left out: the text
   the client was sent grows by one piece at a time, in order. *)
TextOnce ==
    ~ghost => \A i, j \in DOMAIN client.shown :
                  i < j /\ client.shown[i] # 0 /\ client.shown[j] # 0 => client.shown[i] < client.shown[j]

(* A prompt that is answered as ended or cancelled after it began has shown the whole text and
   the result of its call, however many events its receiver lost. *)
AnswerComplete ==
    Answered /\ ~ghost /\ prompt.reason = "EndTurn" =>
        Current(client.shown) = live.text /\ (live.call # "none" => client.results = 1)

(* One call, one result, and the result not before the call. *)
CallsPaired ==
    client.calls <= 1 /\ client.results <= client.calls

(* A prompt that was answered left no turn running and no call open. *)
NothingLeft ==
    Answered => ~Running /\ ~out.open
====
