----------------------------- MODULE ProviderSend -----------------------------
(***************************************************************************)
(* Requests sent to one provider at the same time: retries with a growing  *)
(* delay inside a budget of time, the pause a server's Retry-After puts on *)
(* all of them, the renewal of a refused token, and encrypted reasoning    *)
(* that the server refuses and that is then left out (send_with_retry,     *)
(* OpenAiCodexProvider::send_responses_request, RejectedReasoning).        *)
(*                                                                         *)
(* Time is counted in units of the first delay; jitter is left out. A      *)
(* reasoning item is its name, a token its generation.                     *)
(***************************************************************************)
EXTENDS Naturals, Sequences, FiniteSets, SequencesExt

CONSTANTS Requests, Compactions,  \* those of them that ask for a compaction
          Items,                  \* reasoning items of the conversation
          MaxAttempts, MaxDelay, MaxElapsed, Capacity,
          MaxTime                 \* bound of the clock

VARIABLES now,
          until,     \* end of the provider's pause
          token,     \* generation of the stored token
          rejected,  \* reasoning known to be refused, oldest first
          posted,    \* the requests in flight
          announced, \* latest end of a pause that any answer asked for
          heard,     \* what was announced when a request last looked
          charged    \* attempts of a request the server may have worked on
                     \* since it last got a new token or body

sendVars == <<now, until, token, rejected, posted, announced, heard, charged>>
ghosts == <<announced, heard, charged>>

AtMost(a, b) == IF a < b THEN a ELSE b
AtLeast(a, b) == IF a > b THEN a ELSE b

Fresh == [phase |-> "new", wake |-> 0, attempt |-> 1, started |-> 0, unpriced |-> 0,
          recorded |-> 0, body |-> {}, token |-> 1, renewed |-> FALSE, stripped |-> FALSE,
          outcome |-> "none"]
ASSUME CapacityAssumption == Capacity \in Nat \ {0}

SendInit == /\ now = 0 /\ until = 0 /\ token = 1 /\ rejected = <<>>
            /\ posted = [r \in Requests |-> Fresh]
            /\ announced = 0 /\ heard = [r \in Requests |-> 0] /\ charged = [r \in Requests |-> 0]

In(r, phase) == posted[r].phase = phase
Update(r, state) == posted' = [posted EXCEPT ![r] = state]
Ended(state, outcome) == [Fresh EXCEPT !.phase = "ended", !.outcome = outcome, !.body = state.body]

\* A new series of attempts, with its own budget.
Series(state, body, with, renewed) ==
  [state EXCEPT !.phase = "check", !.attempt = 1, !.started = now, !.unpriced = 0,
                !.body = body, !.token = with, !.renewed = renewed]

Tick == /\ now < MaxTime /\ now' = now + 1
        /\ UNCHANGED <<until, token, rejected, posted, ghosts>>

\* The conversation's reasoning without what is known to be refused, or none
\* when the model's options ask for none.
Accepted == Items \ ToSet(rejected)
Prepare(r) == /\ In(r, "new")
              /\ \E body \in {Accepted, {}} : Update(r, Series(posted[r], body, token, FALSE))
              /\ UNCHANGED <<now, until, token, rejected, ghosts>>

-----------------------------------------------------------------------------
\* One series of attempts.

Attempts(r) == IF r \in Compactions THEN AtMost(3, MaxAttempts) ELSE MaxAttempts
Fits(r, delay) == now - posted[r].started + delay <= MaxElapsed
Remaining == IF until > now THEN until - now ELSE 0

Look(r) == /\ In(r, "check") \/ (In(r, "backoff") /\ now >= posted[r].wake)
           /\ Update(r, IF Fits(r, Remaining)
                        THEN [posted[r] EXCEPT !.phase = "pause", !.wake = now + Remaining]
                        ELSE Ended(posted[r], "paused"))
           /\ heard' = [heard EXCEPT ![r] = announced]
           /\ UNCHANGED <<now, until, token, rejected, announced, charged>>

\* What earlier attempts may cost is recorded before the next one.
ReportedSum(state) == state.recorded + state.unpriced
Reported(state) == IF state.unpriced > 0 THEN state.unpriced ELSE state.recorded
Send(r) == /\ In(r, "pause") /\ now >= posted[r].wake
           /\ Update(r, [posted[r] EXCEPT !.phase = "sent", !.wake = 0,
                                           !.recorded = Reported(posted[r])])
           /\ heard' = [heard EXCEPT ![r] = 0]
           /\ UNCHANGED <<now, until, token, rejected, announced, charged>>
RecordingFails(r) == /\ In(r, "pause") /\ now >= posted[r].wake /\ posted[r].unpriced > 0
                     /\ Update(r, Ended(posted[r], "failed"))
                     /\ UNCHANGED <<now, until, token, rejected, ghosts>>
Backoff(n) == AtMost(2 ^ (n - 1), MaxDelay)
\* Another attempt after delay, or the end of the series with what there is.
MayRetry(r, delay) == posted[r].attempt < Attempts(r) /\ Fits(r, delay)
Retried(r, delay, worked) ==
  IF MayRetry(r, delay)
  THEN [posted[r] EXCEPT !.phase = "backoff", !.wake = now + delay,
                          !.attempt = posted[r].attempt + 1,
                          !.unpriced = posted[r].unpriced + (IF worked THEN 1 ELSE 0)]
  ELSE Ended(posted[r], "failed")
Counted(r, worked) == charged' = [charged EXCEPT ![r] = @ + (IF worked THEN 1 ELSE 0)]

\* The answers: worked says whether the server may have worked on it.
DeferLatest(after) == now + after
Deferred(after) == AtLeast(until, now + after)
Limited(r) == /\ In(r, "sent")
              /\ \E after \in 1..MaxDelay, worked \in BOOLEAN :  \* 429 or 503
                   /\ until' = Deferred(after)
                   /\ announced' = AtLeast(announced, now + after)
                   /\ Update(r, Retried(r, AtLeast(after, Backoff(posted[r].attempt)), worked))
                   /\ Counted(r, worked)
              /\ UNCHANGED <<now, token, rejected, heard>>
Broken(r) == /\ In(r, "sent")
             /\ \E worked \in BOOLEAN :  \* 5xx and time-outs, or 409 and no connection
                  /\ Update(r, Retried(r, Backoff(posted[r].attempt), worked))
                  /\ Counted(r, worked)
             /\ UNCHANGED <<now, until, token, rejected, announced, heard>>
Answered(r) == /\ In(r, "sent")
               /\ \E outcome \in {"answered", "failed"} : Update(r, Ended(posted[r], outcome))
               /\ UNCHANGED <<now, until, token, rejected, ghosts>>

-----------------------------------------------------------------------------
\* The series after the first: a renewed token, or a body without reasoning.

\* A token another request has renewed meanwhile is used as it is.
Renew(r) ==
  /\ In(r, "sent") /\ ~posted[r].renewed
  /\ \/ /\ token = posted[r].token /\ token' = token + 1
        /\ Update(r, Series(posted[r], posted[r].body, token + 1, TRUE))
        /\ charged' = [charged EXCEPT ![r] = 0]
     \/ /\ token # posted[r].token /\ token' = token
        /\ Update(r, Series(posted[r], posted[r].body, token, TRUE))
        /\ charged' = [charged EXCEPT ![r] = 0]
     \/ /\ token' = token /\ Update(r, Ended(posted[r], "failed")) /\ UNCHANGED charged
  /\ UNCHANGED <<now, until, rejected, announced, heard>>

\* The refused item, when the answer names one that was sent.
RememberedAll(item) == Append(rejected, item)
Remembered(item) ==
  IF item \in ToSet(rejected) THEN rejected
  ELSE IF Len(rejected) = Capacity THEN Append(Tail(rejected), item) ELSE Append(rejected, item)
ResendWhole(r) == posted[r].body
Without(r) == {}

Refused(r) ==
  /\ In(r, "sent")
  /\ IF posted[r].body = {} \/ posted[r].stripped THEN rejected' = rejected
     ELSE \/ rejected' = rejected
          \/ \E item \in posted[r].body : rejected' = Remembered(item)
  /\ IF posted[r].body = {} \/ posted[r].stripped \/ r \in Compactions
     THEN Update(r, Ended(posted[r], "refused")) /\ UNCHANGED charged
     ELSE /\ Update(r, [Series(posted[r], Without(r), token, FALSE) EXCEPT !.stripped = TRUE])
          /\ charged' = [charged EXCEPT ![r] = 0]
  /\ UNCHANGED <<now, until, token, announced, heard>>

SendNext ==
  \/ Tick
  \/ \E r \in Requests : \/ Prepare(r) \/ Look(r) \/ Send(r) \/ RecordingFails(r)
                         \/ Limited(r) \/ Broken(r) \/ Answered(r) \/ Renew(r) \/ Refused(r)

SendSpec == SendInit /\ [][SendNext]_sendVars

-----------------------------------------------------------------------------
SendTypeOK ==
  /\ now \in 0..MaxTime /\ token \in 1..(2 * Cardinality(Requests) + 1)
  /\ \A r \in Requests :
       /\ posted[r].attempt \in 1..Attempts(r) /\ posted[r].body \subseteq Items
       /\ posted[r].outcome \in {"none", "answered", "failed", "paused", "refused"}

\* No request is sent inside a pause that any request of the provider had been
\* asked for when it last looked, however the answers overtake each other.
SentAfterPause == \A r \in Requests : In(r, "pause") /\ posted'[r].phase = "sent"
                                     => now >= heard[r]
PauseKept == [][SentAfterPause]_sendVars

\* What is recorded before an attempt is all that the attempts of its series
\* may have cost so far.
CostRecorded == \A r \in Requests : In(r, "sent") /\ charged[r] > 0
                                      => posted[r].recorded = charged[r]

\* A conversation fails over refused reasoning only when none was left to
\* leave out, and the memory of refused items is a bounded set.
RefusalHandled ==
  /\ \A r \in Requests \ Compactions : posted[r].outcome = "refused" => posted[r].body = {}
  /\ Len(rejected) <= Capacity /\ IsInjective(rejected)

\* The two together: what a request is charged for, and what is left out of it, after any mixture
\* of retries, renewed tokens and refused reasoning (send_with_retry, RejectedReasoning).
SendAccounted == CostRecorded /\ RefusalHandled
=============================================================================
