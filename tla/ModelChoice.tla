----------------------------- MODULE ModelChoice -----------------------------
(***************************************************************************)
(* Saving the user's choice of model for one session.  The choice may come *)
(* while a turn runs, when the runtime refuses it: the terminal keeps the  *)
(* wish, tracks from events and snapshots whether the session is at rest,  *)
(* and saves it then, one attempt at a time.  A turn stores the model of   *)
(* the message it answers, and another process may store one too.          *)
(***************************************************************************)
EXTENDS Naturals, Sequences

CONSTANTS
    Models,        \* models to choose from
    NoModel,
    MaxChoices,    \* choices the user makes (bound)
    MaxSends,      \* messages the user sends (bound)
    MaxElsewhere,  \* changes by another process (bound)
    MaxLeaves      \* times the user leaves the session and returns (bound)

VARIABLES
    save,      \* SessionModelSave: desired, attempt in flight, last_saved_id, is_running, failed
    picker,    \* model on screen, model of the last snapshot, whether the session is shown
    active,    \* the terminal believes the session on screen busy
    posted,    \* messages sent and not answered
    calls,     \* requests on their way to the bridge
    answers,   \* responses on their way back
    events,    \* session events on their way to the terminal, with their numbers
    seen,      \* number of the last event the terminal took
    saver,     \* the bridge: save_id of the last successful save
    store,     \* the runtime: stored model, turn, event number
    spent,     \* how much of each bound is used
    choice     \* ghost: the user's last choice, NoModel once anything else decided

choiceVars == <<save, picker, active, posted, calls, answers, events, seen, saver, store, spent,
                choice>>

Init ==
    /\ save = [desired |-> NoModel, attempt |-> 0, selection |-> NoModel, lastSaved |-> 0,
               running |-> "unknown", failed |-> FALSE, nextId |-> 1]
    /\ picker = [model |-> NoModel, last |-> NoModel, shown |-> TRUE]
    /\ active = FALSE /\ posted = 0
    /\ calls = <<[kind |-> "snapshot"]>>
    /\ answers = << >> /\ events = << >> /\ seen = 0 /\ saver = 0
    /\ store = [model |-> NoModel, turn |-> "idle", answering |-> NoModel, origin |-> "call",
                queued |-> NoModel, seq |-> 0]
    /\ spent = [choices |-> 0, sends |-> 0, elsewhere |-> 0, leaves |-> 0]
    /\ choice = NoModel

AskSnapshot == [kind |-> "snapshot"]

-----------------------------------------------------------------------------
(* flush_session_model_save: returns the save record and the request to send, if any. *)

MayFlush(s, waiting, busy) ==
    /\ waiting = 0 /\ ~(picker.shown /\ busy)
    /\ s.attempt = 0 /\ ~s.failed /\ s.running = "no" /\ s.desired # NoModel

Flushed(s, waiting, busy) ==
    IF MayFlush(s, waiting, busy)
    THEN [s EXCEPT !.attempt = s.nextId, !.selection = s.desired, !.nextId = @ + 1]
    ELSE s

FlushCalls(s, waiting, busy) ==
    IF MayFlush(s, waiting, busy)
    THEN <<[kind |-> "save", id |-> s.nextId, model |-> s.desired]>>
    ELSE << >>

Flush(s, waiting, busy, after) ==
    /\ save' = Flushed(s, waiting, busy)
    /\ calls' = calls \o FlushCalls(s, waiting, busy) \o after

-----------------------------------------------------------------------------
(* The user. *)

\* save_model_selection
Choose(m) ==
    /\ picker.shown /\ m # picker.model /\ spent.choices < MaxChoices
    /\ spent' = [spent EXCEPT !.choices = @ + 1]
    /\ picker' = [picker EXCEPT !.model = m]
    /\ Flush([save EXCEPT !.desired = m, !.failed = FALSE], posted, active,
             IF save.running = "unknown" THEN <<AskSnapshot>> ELSE << >>)
    /\ choice' = m
    /\ UNCHANGED <<active, posted, answers, events, seen, saver, store>>

\* dispatch_send_message with mark_session_model_active
SendMessage ==
    /\ picker.shown /\ picker.model # NoModel /\ spent.sends < MaxSends
    /\ spent' = [spent EXCEPT !.sends = @ + 1]
    /\ calls' = Append(calls, [kind |-> "send", model |-> picker.model])
    /\ posted' = posted + 1 /\ active' = TRUE
    /\ save' = [save EXCEPT !.running = "yes"]
    /\ UNCHANGED <<picker, answers, events, seen, saver, store, choice>>

\* Another session is shown, and this one again: reset_session_state forgets the last snapshot's
\* model and restores a wish that is still open (restore_pending_session_model).
Leave ==
    /\ picker.shown /\ spent.leaves < MaxLeaves
    /\ picker' = [picker EXCEPT !.shown = FALSE]
    /\ spent' = [spent EXCEPT !.leaves = @ + 1]
    /\ UNCHANGED <<save, active, posted, calls, answers, events, seen, saver, store, choice>>

Return ==
    /\ ~picker.shown
    /\ picker' = [model |-> IF save.desired # NoModel THEN save.desired ELSE picker.model,
                  last |-> NoModel, shown |-> TRUE]
    /\ active' = FALSE /\ calls' = Append(calls, AskSnapshot)
    /\ UNCHANGED <<save, posted, answers, events, seen, saver, store, spent, choice>>

-----------------------------------------------------------------------------
(* The bridge and the runtime. *)

Call == Head(calls)
Blocked == store.turn = "preparing" /\ store.origin = "call"
Served(k) == calls # << >> /\ Call.kind = k /\ ~Blocked /\ calls' = Tail(calls)

\* set_session_model refuses while a turn is active, and may fail.  Nothing refuses it while a
\* queued message is being prepared, and the preparation then stores its own model over it.
ServeSave ==
    /\ Served("save")
    /\ \E result \in {"ok", "Conflict", "Unavailable", "InvalidInput"} :
        /\ result = "ok" => store.turn # "active"
        /\ result = "Conflict" <=> store.turn = "active"
        /\ store' = IF result = "ok" THEN [store EXCEPT !.model = Call.model] ELSE store
        /\ saver' = IF result = "ok" THEN Call.id ELSE saver
        /\ answers' = Append(answers, [kind |-> "save", id |-> Call.id, result |-> result])
        /\ choice' = IF result = "ok" /\ store.turn = "preparing" THEN NoModel ELSE choice
    /\ UNCHANGED <<save, picker, active, posted, events, seen, spent>>

\* A message that finds the session busy is queued, and answered at once; one that finds it at
\* rest starts a preparation, which answers it, and the bridge waits for that.
QueueSend ==
    /\ Served("send") /\ store.turn = "active" /\ store.queued = NoModel
    /\ store' = [store EXCEPT !.queued = Call.model]
    /\ answers' = Append(answers, [kind |-> "send", ok |-> TRUE])
    /\ UNCHANGED <<save, picker, active, posted, events, seen, saver, spent, choice>>

PrepareSend ==
    /\ calls # << >> /\ Call.kind = "send" /\ store.turn = "idle"
    /\ store' = [store EXCEPT !.turn = "preparing", !.origin = "call",
                             !.answering = Call.model]
    /\ UNCHANGED <<save, picker, active, posted, calls, answers, events, seen, saver, spent, choice>>

RefuseSend ==
    /\ Served("send") /\ store.turn \in {"idle", "active"}
    /\ answers' = Append(answers, [kind |-> "send", ok |-> FALSE])
    /\ UNCHANGED <<save, picker, active, posted, events, seen, saver, store, spent, choice>>

\* While a call waits for its preparation the bridge serves no other.
ServeSnapshot ==
    /\ Served("snapshot")
    /\ answers' = Append(answers, [kind |-> "snapshot", id |-> saver, model |-> store.model,
                                   running |-> store.turn # "idle", seq |-> store.seq])
    /\ UNCHANGED <<save, picker, active, posted, events, seen, saver, store, spent, choice>>

Emit(kind) == Append(events, [kind |-> kind, seq |-> store.seq + 1])

\* The preparation of a call ends with its answer.
AnswerCall(ok) ==
    IF store.origin = "call"
    THEN calls' = Tail(calls) /\ answers' = Append(answers, [kind |-> "send", ok |-> ok])
    ELSE UNCHANGED <<calls, answers>>

\* The preparation stores the message's model before the turn becomes active.
TurnCommitted ==
    /\ store.turn = "preparing"
    /\ store' = [store EXCEPT !.turn = "active", !.model = store.answering, !.seq = @ + 1]
    /\ events' = Emit("begun") /\ AnswerCall(TRUE)
    /\ UNCHANGED <<save, picker, active, posted, seen, saver, spent, choice>>

PreparationFailed ==
    /\ store.turn = "preparing"
    /\ store' = [store EXCEPT !.turn = "idle", !.answering = NoModel, !.queued = NoModel,
                              !.seq = @ + 1]
    /\ events' = Emit("ended") /\ AnswerCall(FALSE)
    /\ UNCHANGED <<save, picker, active, posted, seen, saver, spent, choice>>

\* The end of a turn; the next queued message is taken up in the same handler.
TurnEnded ==
    /\ store.turn = "active"
    /\ store' = IF store.queued = NoModel
                THEN [store EXCEPT !.turn = "idle", !.answering = NoModel, !.seq = @ + 1]
                ELSE [store EXCEPT !.turn = "preparing", !.origin = "queue", !.queued = NoModel,
                                   !.answering = store.queued, !.seq = @ + 1]
    /\ events' = Emit("ended")
    /\ UNCHANGED <<save, picker, active, posted, calls, answers, seen, saver, spent, choice>>

\* A process that holds no turn lease stores a choice of its own.
Elsewhere(m) ==
    /\ store.turn = "idle" /\ m # store.model /\ spent.elsewhere < MaxElsewhere
    /\ store' = [store EXCEPT !.model = m]
    /\ spent' = [spent EXCEPT !.elsewhere = @ + 1]
    /\ choice' = NoModel
    /\ UNCHANGED <<save, picker, active, posted, calls, answers, events, seen, saver>>

-----------------------------------------------------------------------------
(* The terminal's handlers. *)

\* mark_session_model_active, also when another session is on screen
TakeEvent ==
    /\ events # << >>
    /\ events' = Tail(events) /\ seen' = Head(events).seq
    /\ active' = (picker.shown /\ Head(events).kind = "begun")
    /\ save' = IF Head(events).kind = "begun" THEN [save EXCEPT !.running = "yes"] ELSE save
    /\ calls' = IF Head(events).kind = "ended" THEN Append(calls, AskSnapshot) ELSE calls
    /\ UNCHANGED <<picker, posted, answers, saver, store, spent, choice>>

Reply == Head(answers)
Answered(k) == answers # << >> /\ Reply.kind = k /\ answers' = Tail(answers)

HandleSend ==
    /\ Answered("send")
    /\ posted' = posted - 1
    /\ active' = (active /\ Reply.ok)
    /\ calls' = IF Reply.ok THEN calls ELSE Append(calls, AskSnapshot)
    /\ UNCHANGED <<save, picker, events, seen, saver, store, spent, choice>>

\* handle_session_model_save, for the attempt in flight
HandleSave ==
    /\ Answered("save") /\ Reply.id = save.attempt
    /\ LET landed == [save EXCEPT !.attempt = 0, !.selection = NoModel]
           same == save.desired = save.selection
       IN CASE Reply.result = "ok" ->
                 /\ Flush([landed EXCEPT !.lastSaved = Reply.id,
                                         !.desired = IF same THEN NoModel ELSE @],
                          posted, active, <<AskSnapshot>>)
                 /\ picker' = [picker EXCEPT !.last = IF picker.shown THEN save.selection ELSE @]
            [] Reply.result = "Conflict" ->
                 /\ save' = [landed EXCEPT !.running = "unknown"]
                 /\ calls' = Append(calls, AskSnapshot)
                 /\ UNCHANGED picker
            [] Reply.result = "Unavailable" ->
                 save' = [landed EXCEPT !.running = "unknown"] /\ UNCHANGED <<calls, picker>>
            [] Reply.result = "InvalidInput" /\ ~same ->
                 Flush(landed, posted, active, << >>) /\ UNCHANGED picker
            [] OTHER ->
                 save' = [landed EXCEPT !.failed = TRUE] /\ UNCHANGED <<calls, picker>>
    /\ UNCHANGED <<active, posted, events, seen, saver, store, spent, choice>>

\* Mutant: a snapshot's model is shown even while the user's own choice is being saved.
ObservedModelAlways(s) ==
    IF ~picker.shown \/ s.id < save.lastSaved \/ s.model = picker.last THEN picker
    ELSE [picker EXCEPT !.last = s.model, !.model = IF s.model # NoModel THEN s.model ELSE @]

\* observe_session_model_snapshot: the stored model is shown unless the user's own choice is open.
ObservedModel(s) ==
    IF ~picker.shown \/ s.id < save.lastSaved \/ s.model = picker.last THEN picker
    ELSE [picker EXCEPT !.last = s.model,
                        !.model = IF save.desired # NoModel \/ save.attempt # 0 \/ s.model = NoModel
                                  THEN @ ELSE s.model]

\* Mutant: a snapshot never makes the terminal retry the save.
SnapshotTakenQuietly(s) ==
    /\ save' = [save EXCEPT !.running = IF s.running THEN "yes" ELSE "no"]
    /\ UNCHANGED calls

\* A snapshot the terminal accepts says whether the session is busy, and is the moment to save.
SnapshotTaken(s) ==
    Flush([save EXCEPT !.running = IF s.running THEN "yes" ELSE "no"], posted,
          picker.shown /\ s.running, << >>)

HandleSnapshot ==
    /\ Answered("snapshot")
    /\ picker' = ObservedModel(Reply)
    /\ IF Reply.seq < seen THEN UNCHANGED <<save, calls, active>>
       ELSE /\ active' = (picker.shown /\ Reply.running)
            /\ SnapshotTaken(Reply)
    /\ UNCHANGED <<posted, events, seen, saver, store, spent, choice>>

Next ==
    \/ \E m \in Models : Choose(m) \/ Elsewhere(m)
    \/ SendMessage \/ Leave \/ Return
    \/ ServeSave \/ QueueSend \/ PrepareSend \/ RefuseSend \/ ServeSnapshot
    \/ TurnCommitted \/ PreparationFailed \/ TurnEnded
    \/ TakeEvent \/ HandleSend \/ HandleSave \/ HandleSnapshot

Spec == Init /\ [][Next]_choiceVars

-----------------------------------------------------------------------------
ChoiceTypeOK ==
    /\ {save.desired, save.selection, picker.model, picker.last, store.model, choice}
         \subseteq Models \cup {NoModel}
    /\ (save.attempt = 0) = (save.selection = NoModel)
    /\ save.running \in {"unknown", "yes", "no"}

Settled ==
    calls = << >> /\ answers = << >> /\ events = << >> /\ store.turn = "idle" /\ posted = 0

\* A choice the terminal still has to save is the one on screen: no snapshot, however it crosses
\* with events and answers, shows the user an older model in its place.
OpenChoiceShown ==
    picker.shown /\ save.desired # NoModel => picker.model = save.desired

\* Once all is quiet the user's last choice is stored and shown, or is still the terminal's wish
\* because saving it was refused or the runtime could not be reached; it is never forgotten nor
\* left waiting for nothing.
ChoiceSettles ==
    Settled /\ choice # NoModel =>
        /\ save.desired = NoModel => store.model = choice /\ (picker.shown => picker.model = choice)
        /\ save.desired # NoModel => /\ save.desired = choice
                                     /\ save.failed \/ save.running = "unknown"
=============================================================================
