----------------------------- MODULE Submission -----------------------------
(***************************************************************************)
(* A message on its way from the terminal's composer to a session: typed   *)
(* into the draft, held while its session is created, sent through the     *)
(* request bridge and answered, or put back where the user finds it again. *)
(* Requests are served one at a time and in order by the bridge; the user  *)
(* may load, leave and delete sessions meanwhile.                          *)
(***************************************************************************)
EXTENDS Naturals, FiniteSets, SequencesExt

CONSTANTS
    Texts,         \* the messages the user may type, once each
    MaxSessions,   \* sessions the runtime may create (bound)
    MaxNumbers,    \* creations and loads numbered (bound)
    MaxQueue       \* requests and responses on their way (bound)

VARIABLES
    draft,     \* the composer: messages recovered or typed, in order
    current,   \* session on screen, 0 for a chat without one
    submit,    \* pending_submit: the message waiting for its session, and the creation's number
    sent,      \* pending_messages: sent and not answered yet
    failed,    \* failed_messages: per session (0: none), messages to put back when it is shown
    load,      \* pending_session_load_id and the next creation and load numbers
    outbox,    \* requests on their way to the bridge
    inbox,     \* responses on their way to the terminal
    sessions,  \* the runtime's sessions: existing ones, how many were created
    accepted,  \* messages the runtime took, in order, with their session
    wire,      \* "up", or "down" once the bridge is gone
    unseen,    \* messages the user has not typed yet
    dropped    \* ghost: messages the user discarded

submissionVars == <<draft, current, submit, sent, failed, load, outbox, inbox, sessions,
                    accepted, wire, unseen, dropped>>

None == [creation |-> 0, text |-> {}]
Places == 0..MaxSessions

Init ==
    /\ draft = << >> /\ current = 0 /\ submit = None /\ sent = << >>
    /\ failed = [s \in Places |-> << >>]
    /\ load = [pending |-> 0, nextLoad |-> 1, nextCreation |-> 1]
    /\ outbox = << >> /\ inbox = << >>
    /\ sessions = [exist |-> {}, made |-> 0]
    /\ accepted = << >> /\ wire = "up" /\ unseen = Texts /\ dropped = {}

Room == Len(outbox) + Len(inbox) < MaxQueue

-----------------------------------------------------------------------------
(* The user. *)

\* Typing continues whatever the composer holds; the draft is one text, however many recovered
\* messages it joins.
TypeMessage(t) ==
    /\ t \in unseen
    /\ draft' = Append(draft, t) /\ unseen' = unseen \ {t}
    /\ UNCHANGED <<current, submit, sent, failed, load, outbox, inbox, sessions, accepted,
                   wire, dropped>>

\* submit_message: straight to the session on screen, else a session is created first.
SubmitToSession ==
    /\ draft # << >> /\ current # 0 /\ wire = "up" /\ Room
    /\ outbox' = Append(outbox, [kind |-> "SendMessage", session |-> current,
                                 text |-> ToSet(draft)])
    /\ sent' = Append(sent, [session |-> current, text |-> ToSet(draft)])
    /\ draft' = << >>
    /\ UNCHANGED <<current, submit, failed, load, inbox, sessions, accepted, wire, unseen, dropped>>

SubmitWithCreation ==
    /\ draft # << >> /\ current = 0 /\ submit = None /\ wire = "up" /\ Room
    /\ load.nextCreation <= MaxNumbers
    /\ outbox' = Append(outbox, [kind |-> "CreateSession", creation |-> load.nextCreation])
    /\ submit' = [creation |-> load.nextCreation, text |-> ToSet(draft)]
    /\ load' = [load EXCEPT !.nextCreation = @ + 1]
    /\ draft' = << >>
    /\ UNCHANGED <<current, sent, failed, inbox, sessions, accepted, wire, unseen, dropped>>

\* reset_chat_session: another session's draft is not carried over, and what failed to reach the
\* session now shown comes back.
Shown(s) ==
    /\ current' = s
    /\ draft' = (IF s # current THEN failed[s] ELSE failed[s] \o draft)
    /\ failed' = [failed EXCEPT ![s] = << >>]

\* start_new_chat also forgets the message whose session is still being created.
StartNewChat ==
    /\ wire = "up"
    /\ current' = 0
    /\ draft' = failed[0] /\ failed' = [failed EXCEPT ![0] = << >>]
    /\ submit' = None /\ load' = [load EXCEPT !.pending = 0]
    /\ dropped' = dropped \cup ToSet(draft) \cup submit.text
    /\ UNCHANGED <<sent, outbox, inbox, sessions, accepted, wire, unseen>>

LoadSession(s) ==
    /\ wire = "up" /\ Room /\ load.nextLoad <= MaxNumbers
    /\ outbox' = Append(outbox, [kind |-> "LoadSession", session |-> s, load |-> load.nextLoad])
    /\ load' = [load EXCEPT !.pending = load.nextLoad, !.nextLoad = @ + 1]
    /\ UNCHANGED <<draft, current, submit, sent, failed, inbox, sessions, accepted, wire,
                   unseen, dropped>>

DeleteSession(s) ==
    /\ wire = "up" /\ Room
    /\ outbox' = Append(outbox, [kind |-> "DeleteSession", session |-> s])
    /\ UNCHANGED <<draft, current, submit, sent, failed, load, inbox, sessions, accepted, wire,
                   unseen, dropped>>

-----------------------------------------------------------------------------
(* The bridge's worker: one request at a time, its answer queued behind the earlier ones.  Any *)
(* call may fail; a failed send left the message unqueued.                                     *)

Request == Head(outbox)
Answer(r) == outbox' = Tail(outbox) /\ inbox' = Append(inbox, r)

ServeCreate ==
    /\ outbox # << >> /\ Request.kind = "CreateSession"
    /\ \E ok \in BOOLEAN :
        /\ ok => sessions.made < MaxSessions
        /\ LET s == sessions.made + 1 IN
           /\ sessions' = IF ok THEN [exist |-> sessions.exist \cup {s}, made |-> s] ELSE sessions
           /\ Answer([kind |-> "CreateSession", creation |-> Request.creation, ok |-> ok,
                      session |-> IF ok THEN s ELSE 0])
    /\ UNCHANGED <<draft, current, submit, sent, failed, load, accepted, wire, unseen, dropped>>

ServeSend ==
    /\ outbox # << >> /\ Request.kind = "SendMessage"
    /\ \E ok \in BOOLEAN :
        /\ ok => Request.session \in sessions.exist
        /\ accepted' = IF ok THEN Append(accepted, Request.text) ELSE accepted
        /\ Answer([kind |-> "SendMessage", session |-> Request.session, ok |-> ok])
    /\ UNCHANGED <<draft, current, submit, sent, failed, load, sessions, wire, unseen, dropped>>

ServeLoad ==
    /\ outbox # << >> /\ Request.kind = "LoadSession"
    /\ \E ok \in BOOLEAN :
        /\ ok => Request.session \in sessions.exist
        /\ Answer([kind |-> "LoadSession", session |-> Request.session, load |-> Request.load,
                   ok |-> ok])
    /\ UNCHANGED <<draft, current, submit, sent, failed, load, sessions, accepted, wire, unseen,
                   dropped>>

ServeDelete ==
    /\ outbox # << >> /\ Request.kind = "DeleteSession"
    /\ \E ok \in BOOLEAN :
        /\ sessions' = [sessions EXCEPT !.exist = @ \ (IF ok THEN {Request.session} ELSE {})]
        /\ Answer([kind |-> "DeleteSession", session |-> Request.session, ok |-> ok])
    /\ UNCHANGED <<draft, current, submit, sent, failed, load, accepted, wire, unseen, dropped>>

-----------------------------------------------------------------------------
(* The terminal's response handlers. *)

Response == Head(inbox)
Took(k) == wire = "up" /\ inbox # << >> /\ Response.kind = k /\ inbox' = Tail(inbox)

\* Mutant: the recovered message replaces what the user typed meanwhile.
RecoveredOver(s, texts) ==
    IF current = s
    THEN draft' = texts /\ UNCHANGED failed
    ELSE failed' = [failed EXCEPT ![s] = @ \o texts] /\ UNCHANGED draft

\* recover_session_messages: into the draft, before what is typed, if that session is on screen.
Recovered(s, texts) ==
    IF current = s
    THEN draft' = texts \o draft /\ UNCHANGED failed
    ELSE failed' = [failed EXCEPT ![s] = @ \o texts] /\ UNCHANGED draft

\* Texts joined into one message cannot be told apart any more; any order stands for it.
AsDraft(text) == SetToSeq(text)

CreationOfThis == submit # None /\ submit.creation = Response.creation

\* The new session comes on screen whatever is shown by then, with the draft left as it is, and
\* the waiting message is sent to it.
HandleCreated ==
    /\ Took("CreateSession") /\ Response.ok
    /\ IF CreationOfThis
       THEN /\ current' = Response.session
            /\ outbox' = Append(outbox, [kind |-> "SendMessage", session |-> Response.session,
                                         text |-> submit.text])
            /\ sent' = Append(sent, [session |-> Response.session, text |-> submit.text])
            /\ submit' = None
       ELSE UNCHANGED <<current, outbox, sent, submit>>
    /\ UNCHANGED <<draft, failed, load, sessions, accepted, wire, unseen, dropped>>

HandleCreateFailed ==
    /\ Took("CreateSession") /\ ~Response.ok
    /\ IF CreationOfThis
       THEN Recovered(0, AsDraft(submit.text)) /\ submit' = None
       ELSE UNCHANGED <<draft, failed, submit>>
    /\ UNCHANGED <<current, sent, load, outbox, sessions, accepted, wire, unseen, dropped>>

\* Mutant: the newest unanswered message is taken for the answered one.
Newest(s) == SelectLastInSeq(sent, LAMBDA p : p.session = s)

\* The answer names only the session: it is for that session's oldest unanswered message.
Oldest(s) == SelectInSeq(sent, LAMBDA p : p.session = s)

HandleSent ==
    /\ Took("SendMessage")
    /\ LET i == Oldest(Response.session) IN
       IF i = 0 THEN UNCHANGED <<draft, failed, sent>>
       ELSE /\ sent' = RemoveAt(sent, i)
            /\ IF Response.ok THEN UNCHANGED <<draft, failed>>
               ELSE Recovered(Response.session, AsDraft(sent[i].text))
    /\ UNCHANGED <<current, submit, load, outbox, sessions, accepted, wire, unseen, dropped>>

\* Only the answer to the latest load counts.
HandleLoaded ==
    /\ Took("LoadSession")
    /\ IF load.pending # Response.load THEN UNCHANGED <<current, draft, failed, load, dropped>>
       ELSE /\ load' = [load EXCEPT !.pending = 0]
            /\ IF Response.ok
               THEN /\ Shown(Response.session)
                    /\ dropped' = dropped \cup (IF Response.session # current THEN ToSet(draft)
                                                                               ELSE {})
               ELSE UNCHANGED <<current, draft, failed, dropped>>
    /\ UNCHANGED <<submit, sent, outbox, sessions, accepted, wire, unseen>>

\* The failed messages of a deleted session go with it.
HandleDeleted ==
    /\ Took("DeleteSession")
    /\ IF ~Response.ok THEN UNCHANGED <<current, draft, failed, dropped>>
       ELSE LET s == Response.session IN
            IF current = s
            THEN /\ current' = 0 /\ draft' = failed[0]
                 /\ failed' = [failed EXCEPT ![s] = << >>, ![0] = << >>]
                 /\ dropped' = dropped \cup ToSet(failed[s]) \cup ToSet(draft)
            ELSE /\ failed' = [failed EXCEPT ![s] = << >>]
                 /\ dropped' = dropped \cup ToSet(failed[s])
                 /\ UNCHANGED <<current, draft>>
    /\ UNCHANGED <<submit, sent, load, outbox, sessions, accepted, wire, unseen>>

\* The bridge is gone: everything unanswered is put back, grouped by session and in order, and
\* the terminal ends.
Unanswered(s) ==
    FlattenSeq([i \in DOMAIN sent |-> IF sent[i].session = s THEN AsDraft(sent[i].text)
                                                              ELSE << >>])

Disconnect ==
    /\ wire = "up" /\ wire' = "down"
    /\ LET back == [s \in Places |-> Unanswered(s)
                                     \o (IF s = 0 THEN AsDraft(submit.text) ELSE << >>)]
       IN /\ draft' = back[current] \o draft
          /\ failed' = [s \in Places |-> IF s = current THEN failed[s] ELSE failed[s] \o back[s]]
    /\ sent' = << >> /\ submit' = None /\ load' = [load EXCEPT !.pending = 0]
    /\ outbox' = << >> /\ inbox' = << >>
    /\ UNCHANGED <<current, sessions, accepted, unseen, dropped>>

Next ==
    \/ \E t \in Texts : TypeMessage(t)
    \/ SubmitToSession \/ SubmitWithCreation \/ StartNewChat
    \/ \E s \in sessions.exist : LoadSession(s) \/ DeleteSession(s)
    \/ ServeCreate \/ ServeSend \/ ServeLoad \/ ServeDelete
    \/ HandleCreated \/ HandleCreateFailed \/ HandleSent \/ HandleLoaded \/ HandleDeleted
    \/ Disconnect

Spec == Init /\ [][Next]_submissionVars

-----------------------------------------------------------------------------
Drafted == ToSet(draft)
Failing == UNION {ToSet(failed[s]) : s \in Places}
Sending == UNION {sent[i].text : i \in DOMAIN sent}
Taken == UNION ToSet(accepted)

\* Every session's unanswered messages, as the bridge still has to serve or to answer them.
Underway(s) ==
    LET replies == SelectSeq(inbox, LAMBDA r : r.kind = "SendMessage" /\ r.session = s)
        calls == SelectSeq(outbox, LAMBDA r : r.kind = "SendMessage" /\ r.session = s)
    IN Len(replies) + Len(calls)

SubmissionTypeOK ==
    /\ Drafted \cup Failing \cup Sending \cup submit.text \cup unseen \subseteq Texts
    /\ current \in Places /\ wire \in {"up", "down"}
    /\ load.pending < load.nextLoad

\* No message the user typed is lost without the user having discarded it, whatever fails and
\* whichever session is shown when the answer comes: it is in the composer, waits for its
\* session, is on its way, was put aside for its session, or was taken by the runtime.
MessagesKept ==
    Texts = unseen \cup dropped \cup Drafted \cup Failing \cup Sending \cup submit.text \cup Taken

\* While the bridge serves, a message the runtime took is not offered to the user again (who
\* would send it twice), and one on its way is in no other place.
MessagesOnce ==
    wire = "up" =>
        /\ Taken \cap (Drafted \cup Failing \cup submit.text) = {}
        /\ (Drafted \cup Failing \cup submit.text) \cap Sending = {}
        /\ \A s \in Places : Underway(s) = Cardinality({i \in DOMAIN sent : sent[i].session = s})
=============================================================================
