--------------------------- MODULE ResponseReader ---------------------------
(***************************************************************************)
(* One model response: the reader task opens a request (with the HTTP      *)
(* layer's retries), forwards what the provider streams to the session     *)
(* actor's mailbox, reissues a request whose stream broke, compacts one    *)
(* that was too large, and drains the stream after the first script call.  *)
(* The actor applies the events later and may have cancelled meanwhile;    *)
(* the reader counts the attempts whose cost nobody reports.               *)
(***************************************************************************)
EXTENDS Naturals, Sequences

CONSTANTS
    MaxReissues,   \* MAX_STREAM_REISSUES
    MaxTries,      \* HttpRetryPolicy.max_attempts
    MaxPieces      \* pieces of text per attempt (bound)

VARIABLES
    reader,    \* where the reader is, requests issued, reissues, compaction left, first call
    http,      \* the open request: attempts made, attempts that may be charged for
    mailbox,   \* events on their way to the actor
    message,   \* the streaming message: text and calls with the attempt they came from
    usage,     \* the message's record: unpriced_attempts, reissued_attempts
    job,       \* the actor's side: "running", "cancelled", or how the response ended
    owned,     \* whether this process still owns the turn
    charged    \* ghost: attempts that may be charged for, and whether a count was made on an old base

readerVars == <<reader, http, mailbox, message, usage, job, owned, charged>>

NoCall == 0
Blank == [text |-> << >>, calls |-> << >>]

Init ==
    /\ reader = [at |-> "start", attempt |-> 0, reissues |-> 0, compaction |-> 1, call |-> NoCall,
                 pieces |-> 0]
    /\ http = [tries |-> 0, unpriced |-> 0]
    /\ mailbox = << >> /\ message = Blank
    /\ usage = [unpriced |-> 0, reissued |-> 0]
    /\ job = "running" /\ owned = TRUE
    /\ charged = [count |-> 0, exact |-> TRUE]

Ended(result) == [kind |-> "ended", result |-> result, call |-> reader.call]
Piece(k) == [kind |-> k, attempt |-> reader.attempt]
Restart == [kind |-> "restart"]

\* The reader's last word goes through the same mailbox.
Finish(result) ==
    /\ reader' = [reader EXCEPT !.at = "ended"]
    /\ mailbox' = Append(mailbox, Ended(result))

-----------------------------------------------------------------------------
(* drive *)

\* A request that is known not to fit is compacted before it is sent; the start is recorded.
DriveCompacting ==
    /\ reader.at = "start"
    /\ reader' = [reader EXCEPT !.at = "compacting", !.compaction = 0]
    /\ UNCHANGED <<http, mailbox, message, usage, job, owned, charged>>

DriveDirectly ==
    /\ reader.at = "start"
    /\ \/ reader' = [reader EXCEPT !.at = "opening", !.attempt = 1] /\ UNCHANGED mailbox
       \/ Finish("FailedToStart")
    /\ UNCHANGED <<http, message, usage, job, owned, charged>>

\* A compaction ends in a request to issue or in a failure.
Compact ==
    /\ reader.at \in {"compacting", "recompacting"}
    /\ \/ /\ reader' = [reader EXCEPT !.at = "opening", !.attempt = @ + 1]
          /\ UNCHANGED mailbox
       \/ Finish(IF reader.at = "compacting" THEN "FailedToStart" ELSE "FailedDuringStream")
    /\ http' = [tries |-> 0, unpriced |-> 0]
    /\ UNCHANGED <<message, usage, job, owned, charged>>

-----------------------------------------------------------------------------
(* send_with_retry: one HTTP attempt per step. *)

Outcomes == {"ok", "rateLimited", "conflict", "serverError", "timeout", "connect", "refused",
             "overflow"}
IsRetryable(o) == o \in {"rateLimited", "conflict", "serverError", "timeout", "connect"}
MayBeCharged(o) == o \in {"serverError", "timeout"}
Recording == http.unpriced > 0

\* before_attempt, in the reader's task: the count is set on top of the attempts the actor has
\* counted for broken streams, whether or not it has handled the last restart yet.
BeforeAttempt ==
    /\ reader.at = "opening"
    /\ reader' = [reader EXCEPT !.at = "sending"]
    /\ usage' = IF Recording THEN [usage EXCEPT !.unpriced = usage.reissued + http.unpriced]
                             ELSE usage
    /\ charged' = [charged EXCEPT !.exact = @ /\ (Recording => \A i \in DOMAIN mailbox :
                                                        mailbox[i] # Restart)]
    /\ http' = [http EXCEPT !.tries = @ + 1]
    /\ UNCHANGED <<mailbox, message, job, owned>>

\* The budget of a retry may be used up whatever the answer.
Retry(o) ==
    /\ reader.at = "sending" /\ IsRetryable(o) /\ http.tries < MaxTries
    /\ reader' = [reader EXCEPT !.at = "opening"]
    /\ http' = [http EXCEPT !.unpriced = @ + (IF MayBeCharged(o) THEN 1 ELSE 0)]
    /\ charged' = [charged EXCEPT !.count = @ + (IF MayBeCharged(o) THEN 1 ELSE 0)]
    /\ UNCHANGED <<mailbox, message, usage, job, owned>>

Opened ==
    /\ reader.at = "sending"
    /\ reader' = [reader EXCEPT !.at = "reading", !.call = NoCall, !.pieces = 0]
    /\ UNCHANGED <<http, mailbox, message, usage, job, owned, charged>>

\* A request that cannot be opened fails the response, except that one too large is compacted
\* once, by a process that still owns the turn.
OpenFails(o) ==
    /\ reader.at = "sending" /\ o # "ok"
    /\ IF o = "overflow" /\ reader.compaction = 1 /\ owned
       THEN /\ reader' = [reader EXCEPT !.at = "compacting", !.compaction = 0]
            /\ charged' = [charged EXCEPT !.exact = @ /\ ~Recording]
            /\ UNCHANGED mailbox
       ELSE Finish("FailedToStart") /\ UNCHANGED charged
    /\ UNCHANGED <<http, message, usage, job, owned>>

-----------------------------------------------------------------------------
(* read_response *)

Draining == reader.call # NoCall
Forward(e) == mailbox' = Append(mailbox, e)

\* Text and readable reasoning after the first call are dropped.
ReadText ==
    /\ reader.at = "reading" /\ reader.pieces < MaxPieces
    /\ reader' = [reader EXCEPT !.pieces = @ + 1]
    /\ IF Draining THEN UNCHANGED mailbox ELSE Forward(Piece("text"))
    /\ UNCHANGED <<http, message, usage, job, owned, charged>>

\* The first call is the response's boundary; later ones are kept but will not run.
ReadCall ==
    /\ reader.at = "reading" /\ reader.pieces < MaxPieces
    /\ reader' = [reader EXCEPT !.pieces = @ + 1, !.call = IF Draining THEN @ ELSE reader.attempt]
    /\ Forward(Piece("call"))
    /\ UNCHANGED <<http, message, usage, job, owned, charged>>

\* A tool that does not exist fails the response when it is called first, a compaction item
\* always.
ReadUnexpected ==
    /\ reader.at = "reading"
    /\ Finish("FailedUnexpected")
    /\ UNCHANGED <<http, message, usage, job, owned, charged>>

\* Usage after the call, the end of the stream or the drain's deadline complete the response.
ReadEnd ==
    /\ reader.at = "reading"
    /\ Finish("Completed")
    /\ UNCHANGED <<http, message, usage, job, owned, charged>>

Errors == {"interrupted", "overflow", "request"}
IsTransient(e) == e = "interrupted"

\* Mutant: a broken stream is reissued even after a complete call.
KeepsCallNever == FALSE
KeepsCall == Draining

\* Mutant: the partial response is not discarded when the request is issued again.
ReissuedOver ==
    /\ reader' = [reader EXCEPT !.at = "opening", !.attempt = @ + 1, !.reissues = @ + 1,
                                !.call = NoCall]
    /\ http' = [tries |-> 0, unpriced |-> 0]
    /\ charged' = [charged EXCEPT !.count = @ + 1]
    /\ UNCHANGED mailbox

\* Mutant: a reissue does not count towards the limit.
ReissuedFreely ==
    /\ reader' = [reader EXCEPT !.at = "opening", !.attempt = @ + 1, !.call = NoCall]
    /\ http' = [tries |-> 0, unpriced |-> 0]
    /\ charged' = [charged EXCEPT !.count = @ + 1]
    /\ Forward(Restart)

Reissued ==
    /\ reader' = [reader EXCEPT !.at = "opening", !.attempt = @ + 1, !.reissues = @ + 1,
                                !.call = NoCall]
    /\ http' = [tries |-> 0, unpriced |-> 0]
    /\ charged' = [charged EXCEPT !.count = @ + 1]
    /\ Forward(Restart)

\* A broken stream: a complete call still counts; a request too large is compacted once; a
\* transient failure is reissued, both only by a process that owns the turn.
ReadError(e) ==
    /\ reader.at = "reading"
    /\ CASE KeepsCall -> Finish("Completed") /\ UNCHANGED <<http, charged>>
         [] ~KeepsCall /\ e = "overflow" /\ reader.compaction = 1 /\ owned ->
              /\ reader' = [reader EXCEPT !.at = "recompacting", !.compaction = 0, !.call = NoCall]
              /\ Forward(Restart)
              /\ charged' = [charged EXCEPT !.count = @ + 1]
              /\ UNCHANGED http
         [] ~KeepsCall /\ IsTransient(e) /\ reader.reissues < MaxReissues /\ owned -> Reissued
         [] OTHER -> Finish("FailedDuringStream") /\ UNCHANGED <<http, charged>>
    /\ UNCHANGED <<message, usage, job, owned>>

LoseTurn ==
    /\ owned /\ owned' = FALSE
    /\ UNCHANGED <<reader, http, mailbox, message, usage, job, charged>>

-----------------------------------------------------------------------------
(* The actor. *)

\* Mutant: the broken attempt is not counted.
ResetUncounted == usage
\* reset_streaming_message
Reset == [unpriced |-> usage.unpriced + 1, reissued |-> usage.unpriced + 1]

Applied(e) ==
    CASE e.kind = "text" -> [message EXCEPT !.text = Append(@, e.attempt)]
      [] e.kind = "call" -> [message EXCEPT !.calls = Append(@, e.attempt)]
      [] OTHER -> Blank

\* Events of a job that was replaced or cancelled are ignored.
Apply ==
    /\ mailbox # << >> /\ mailbox' = Tail(mailbox)
    /\ LET e == Head(mailbox) IN
       IF job # "running" THEN UNCHANGED <<message, usage, job>>
       ELSE IF e.kind = "ended"
            THEN job' = e.result /\ UNCHANGED <<message, usage>>
            ELSE /\ message' = Applied(e)
                 /\ usage' = IF e = Restart THEN Reset ELSE usage
                 /\ UNCHANGED job
    /\ UNCHANGED <<reader, http, owned, charged>>

\* Cancelling stops the reader's task at its next await.
Cancel ==
    /\ job = "running" /\ job' = "cancelled"
    /\ reader' = [reader EXCEPT !.at = "ended"]
    /\ UNCHANGED <<http, mailbox, message, usage, owned, charged>>

Next ==
    \/ DriveCompacting \/ DriveDirectly \/ Compact \/ BeforeAttempt \/ Opened
    \/ \E o \in Outcomes : Retry(o) \/ OpenFails(o)
    \/ ReadText \/ ReadCall \/ ReadUnexpected \/ ReadEnd \/ \E e \in Errors : ReadError(e)
    \/ LoseTurn \/ Apply \/ Cancel

Spec == Init /\ [][Next]_readerVars
FairSpec == Spec /\ WF_readerVars(Next)

-----------------------------------------------------------------------------
ReaderTypeOK ==
    /\ reader.at \in {"start", "compacting", "recompacting", "opening", "sending", "reading", "ended"}
    /\ reader.attempt <= MaxReissues + 2 /\ http.tries <= MaxTries
    /\ job \in {"running", "cancelled", "Completed", "FailedToStart", "FailedDuringStream",
               "FailedUnexpected"}

\* Everything a response shows comes from one attempt: text of a broken attempt is gone before
\* any of its successor arrives, and what a completed response shows is its last attempt's.
OneAttemptShown ==
    /\ \A i \in DOMAIN message.text : \A j \in DOMAIN message.text \ {i} :
          message.text[i] = message.text[j]
    /\ \A i \in DOMAIN message.calls : \A j \in DOMAIN message.text :
          message.calls[i] = message.text[j]
    /\ job = "Completed" /\ message # Blank =>
          \E s \in {message.text, message.calls} : s # << >> /\ s[1] = reader.attempt

\* Once a script call has been read its request is not issued again, so no call is shown twice
\* and none that a client has seen is taken back, and a stream that breaks later does not fail the
\* response.
CallsKept ==
    /\ \A i \in DOMAIN mailbox : mailbox[i].kind = "call" => mailbox[i].attempt = reader.attempt
    /\ \A i \in DOMAIN message.calls : message.calls[i] = reader.attempt
    /\ message.calls # << >> => job # "FailedDuringStream" /\ (job # "running" \/ Draining)

\* When nothing is on its way, the attempts recorded as unpriced are those that may be charged
\* for: failed HTTP attempts and broken streams.  Two counts are made on an old base and are the
\* exceptions: one taken while a restart was still in the mailbox, and the first one after a
\* request that was retried and then found too large.
AttemptsCounted ==
    mailbox = << >> /\ job = "running" /\ charged.exact /\ reader.at \in {"reading", "ended"} =>
        usage.unpriced = charged.count
=============================================================================
