----------------------------- MODULE McpSignIn ------------------------------
(***************************************************************************)
(* A sign-in to one MCP server from the terminal client.  The client asks  *)
(* through its request bridge, which answers in order; the runtime's auth  *)
(* numbers every status it publishes, and a forwarder brings them to the   *)
(* client as events, dropping some when it lags.  The client opens the     *)
(* browser when the sign-in it asked for waits for the user.  A connection *)
(* to the server that finds its authorization gone publishes as well,      *)
(* whatever the sign-in does.                                              *)
(***************************************************************************)
EXTENDS Naturals, Sequences

CONSTANTS
    MaxSignIns,     \* sign-ins the user asks for (bound)
    MaxStops,     \* cancellations and sign-outs the user asks for (bound)
    MaxRefusals,  \* connections that find their authorization gone (bound)
    MaxEvents     \* events waiting for the client (bound)

\* A broadcast channel has room for one event at least.
ASSUME EventsAssumption == MaxEvents \in Nat \ {0}

VARIABLES
    auth,        \* the status: sequence, state, and ghost: the sign-in it belongs to
    attempt,     \* Control.attempt: the sign-in under way, and whether its page was found
    refusals,    \* connections refused so far
    cut,         \* ghost: the last sign-in whose status a connection replaced before its page
    unsent,      \* statuses published that the forwarder has not passed on
    events,      \* events waiting for the client
    requests,    \* requests waiting in the bridge
    answers,     \* responses waiting for the client
    view,        \* the status the client shows
    intent,      \* BrowserIntent: the request and the sequence its answer had
    attempts,    \* next_mcp_login_request
    stops,       \* cancellations asked for
    opened,      \* ghost: the sign-ins the browser was opened for, in order
    missed       \* ghost: the client's event channel lagged

clientVars == <<view, intent, attempts, stops, opened, missed>>
signInVars == <<auth, attempt, refusals, cut, unsent, events, requests, answers, clientVars>>

NoIntent == [request |-> 0, sequence |-> 0]
NoAttempt == [login |-> 0, at |-> "none"]
Status(n, state, login) == [sequence |-> n, state |-> state, login |-> login]

SignInInit ==
    /\ auth = Status(0, "SignedOut", 0) /\ view = Status(0, "SignedOut", 0)
    /\ attempt = NoAttempt /\ refusals = 0 /\ cut = 0
    /\ unsent = {} /\ events = << >> /\ requests = << >> /\ answers = << >>
    /\ intent = NoIntent /\ attempts = 0 /\ stops = 0 /\ opened = << >> /\ missed = FALSE

-----------------------------------------------------------------------------
(* The user: App::handle_mcp_command. *)

Login ==
    /\ attempts < MaxSignIns /\ attempts' = attempts + 1
    /\ intent' = [request |-> attempts + 1, sequence |-> 0]
    /\ requests' = Append(requests, [do |-> "login", request |-> attempts + 1])
    /\ UNCHANGED <<auth, attempt, refusals, cut, unsent, events, answers, view, stops, opened,
                   missed>>

StopSignIn ==
    /\ stops < MaxStops /\ stops' = stops + 1 /\ intent' = NoIntent
    /\ requests' = Append(requests, [do |-> "stop"])
    /\ UNCHANGED <<auth, attempt, refusals, cut, unsent, events, answers, view, attempts, opened,
                   missed>>

-----------------------------------------------------------------------------
(* The runtime: Auth::publish, and the forwarder of its broadcast. *)

Publish(state, login) ==
    /\ auth' = Status(auth.sequence + 1, state, login)
    /\ unsent' = unsent \cup {auth'}

Unpublished == UNCHANGED <<auth, unsent>>
Answer(n, ok) == answers' = Append(answers, [request |-> n, ok |-> ok, status |-> auth'])

\* The bridge runs one request at a time.  A sign-in is answered with the Starting status, or
\* refused before anything was changed: no storage for credentials, or a shutdown.
TakeLogin(r) ==
    \/ /\ Publish("Starting", r.request) /\ Answer(r.request, TRUE)
       /\ attempt' = [login |-> r.request, at |-> "starting"]
    \/ Unpublished /\ Answer(r.request, FALSE) /\ UNCHANGED attempt

\* The attempt is over before the credentials are reset; a reset that fails publishes nothing, a
\* cancellation with no attempt under way has nothing to reset.
TakeStop ==
    /\ attempt' = NoAttempt
    /\ \/ Publish("SignedOut", 0) /\ Answer(0, TRUE)
       \/ Unpublished /\ Answer(0, FALSE)
       \/ attempt = NoAttempt /\ Unpublished /\ Answer(0, TRUE)

TakeRequest ==
    /\ requests # << >> /\ requests' = Tail(requests)
    /\ IF Head(requests).do = "login" THEN TakeLogin(Head(requests)) ELSE TakeStop
    /\ UNCHANGED <<refusals, cut, events, clientVars>>

\* The sign-in's own task: discovery, the browser's callback, or a failure.
Progress ==
    /\ \/ /\ attempt.at = "starting" /\ Publish("Pending", attempt.login)
          /\ attempt' = [attempt EXCEPT !.at = "pending"]
       \/ /\ attempt.at = "pending" /\ Publish("Authenticated", attempt.login)
          /\ attempt' = NoAttempt
       \/ attempt.at # "none" /\ Publish("Failed", attempt.login) /\ attempt' = NoAttempt
    /\ UNCHANGED <<refusals, cut, events, requests, answers, clientVars>>

\* Auth::client, which looks at no attempt; Auth::required does the same when the status is not
\* of a sign-in.
ConnectionRefused ==
    /\ refusals < MaxRefusals /\ refusals' = refusals + 1 /\ Publish("Failed", 0)
    /\ cut' = IF attempt.at = "starting" THEN attempt.login ELSE cut
    /\ UNCHANGED <<attempt, events, requests, answers, clientVars>>

\* A broadcast is made after the status lock is released.  The attempt's task and the requests
\* wait for each other; only the broadcast of a refused connection may cross another.
OfConnection(s) == s.login = 0 /\ s.state = "Failed"
InTurn(s) == \A u \in unsent :
    u.sequence < s.sequence => OfConnection(u) \/ OfConnection(s)

Forward(s) ==
    /\ s \in unsent /\ InTurn(s) /\ unsent' = unsent \ {s}
    /\ Len(events) < MaxEvents /\ events' = Append(events, s)
    /\ UNCHANGED <<auth, attempt, refusals, cut, requests, answers, clientVars>>

\* A lagging forwarder asks for the current status instead of what it lost.
ForwardLagged(s) ==
    /\ s \in unsent /\ InTurn(s) /\ unsent' = unsent \ {s} /\ s # auth
    /\ Len(events) < MaxEvents /\ events' = Append(events, auth)
    /\ UNCHANGED <<auth, attempt, refusals, cut, requests, answers, clientVars>>

\* The client's own channel lags; it reads sessions again, not sign-ins.
ClientLags ==
    /\ Len(events) = MaxEvents /\ unsent # {} /\ events' = Tail(events) /\ missed' = TRUE
    /\ UNCHANGED <<auth, attempt, refusals, cut, unsent, requests, answers, view, intent, attempts,
                   stops, opened>>

-----------------------------------------------------------------------------
(* The client: apply_mcp_auth_status_with and acknowledge_mcp_login. *)

Wanted(s, i) == i.sequence # 0 /\ s.sequence >= i.sequence

\* An older status is ignored; one that settles the wanted sign-in ends the wish, and a pending
\* one opens the browser.
ApplyStatus(s, i) ==
    IF view.sequence > s.sequence
    THEN intent' = i /\ UNCHANGED <<view, opened>>
    ELSE /\ view' = s
         /\ intent' = IF Wanted(s, i) /\ s.state # "Starting" THEN NoIntent ELSE i
         /\ opened' = IF Wanted(s, i) /\ s.state = "Pending" THEN Append(opened, s.login)
                      ELSE opened

\* Mutant: the answer's own status is applied, though a newer one has arrived before it.
AcknowledgedAlone(a, i) == a.status
\* The newer of the two, when the answer is to the request still wanted.
Acknowledged(a, i) ==
    IF i.request = a.request /\ view.sequence > a.status.sequence THEN view ELSE a.status

\* Mutant: any answer to a sign-in marks the one wanted now.
AnswersWishAny(a, i) == i.request # 0 /\ a.request # 0
AnswersWish(a, i) == i.request # 0 /\ a.request = i.request

\* A refused sign-in ends the wish it was asked for; any other refusal is only reported.
TakeAnswer ==
    /\ answers # << >> /\ answers' = Tail(answers)
    /\ LET a == Head(answers)
           i == IF AnswersWish(a, intent) THEN [intent EXCEPT !.sequence = a.status.sequence]
                ELSE intent
       IN IF a.ok
          THEN ApplyStatus(Acknowledged(a, i), i)
          ELSE /\ intent' = IF AnswersWish(a, intent) THEN NoIntent ELSE intent
               /\ UNCHANGED <<view, opened>>
    /\ UNCHANGED <<auth, attempt, refusals, cut, unsent, events, requests, attempts, stops, missed>>

TakeEvent ==
    /\ events # << >> /\ events' = Tail(events)
    /\ ApplyStatus(Head(events), intent)
    /\ UNCHANGED <<auth, attempt, refusals, cut, unsent, requests, answers, attempts, stops, missed>>

SignInNext ==
    \/ Login \/ StopSignIn \/ TakeRequest \/ Progress \/ ConnectionRefused
    \/ ClientLags \/ TakeAnswer \/ TakeEvent
    \/ \E s \in unsent : Forward(s) \/ ForwardLagged(s)

SignInSpec == SignInInit /\ [][SignInNext]_signInVars

-----------------------------------------------------------------------------
SignInTypeOK ==
    /\ auth.sequence >= view.sequence /\ intent.request \in 0..attempts
    /\ Len(events) <= MaxEvents /\ attempts <= MaxSignIns /\ stops <= MaxStops
    /\ refusals <= MaxRefusals /\ cut \in 0..attempts /\ attempt.login \in 0..attempts
    /\ (attempt.at = "none") = (attempt = NoAttempt)

Delivered == unsent = {} /\ events = << >> /\ requests = << >> /\ answers = << >>

\* The browser is opened once for a sign-in, never for one the user has replaced or stopped since;
\* and when everything has been delivered, whatever the order in which the answer and the events
\* came, the client shows the status the runtime has, and a sign-in that waits for the user had
\* its browser opened.  Not claimed of a sign-in that a refused connection of the same server cut
\* short: Auth::client publishes SignedOut with an error while it starts, the client takes that
\* for its end, and the page is then only shown as waiting.
BrowserOpenedOnce ==
    /\ \A i, j \in DOMAIN opened : i # j => opened[i] # opened[j]
    /\ Delivered /\ ~missed =>
          /\ view = auth
          /\ /\ auth.state = "Pending" /\ auth.login = attempts /\ cut # attempts
             /\ intent # NoIntent \/ stops = 0
             => \E i \in DOMAIN opened : opened[i] = attempts

\* What a step opens the browser for is the last sign-in the user asked for.
LatestOpened == opened' # opened => opened'[Len(opened')] = attempts
OpensTheLatest == [][LatestOpened]_signInVars

\* The two together, of every step: the browser opens for the last sign-in the user asked for and
\* no second time, and what was delivered is shown (App::apply_mcp_auth_status_with).
BrowserOpens == [][LatestOpened /\ BrowserOpenedOnce']_signInVars
=============================================================================
