----------------------------- MODULE AcpTransport -----------------------------
(***************************************************************************)
(* The ACP agent's output.  Updates of running prompts fail the connection *)
(* when they would exceed the byte budget; the replay of a loaded session  *)
(* waits for the writer to release bytes instead.  The writer takes one    *)
(* frame at a time and may stand still for as long as the client does not  *)
(* read; once the client closed its input the writer gives up after a      *)
(* while.                                                                  *)
(***************************************************************************)
EXTENDS Naturals, Sequences, SequencesExt

CONSTANTS
    Loads,       \* session/load handlers that replay a history
    Limit,       \* OUTPUT_BYTES
    MaxReplay,   \* updates in a replayed history
    MaxLive      \* updates of running prompts

VARIABLES
    bytes,    \* bytes reserved
    frames,   \* sizes of the updates handed to the connection, oldest first
    load,     \* each load: where it is in reserve_wait, its update's size, updates left, wake-up
    lives,    \* updates of running prompts so far
    line      \* the connection: open, input closed, failed; whether its queue takes frames

transportVars == <<bytes, frames, load, lives, line>>

Sizes == 1..(Limit + 1)

Init ==
    /\ bytes = 0 /\ frames = << >> /\ lives = 0
    /\ load = [l \in Loads |-> [at |-> "ready", size |-> 1, left |-> MaxReplay, heard |-> FALSE]]
    /\ line = "open"

Failed == line = "failed"

-----------------------------------------------------------------------------
\* Mutant: only what is queued already is compared with the limit.
FitsBefore(size) == bytes <= Limit
Fits(size) == bytes + size <= Limit

WokenAsleep(l) == [l EXCEPT !.heard = l.at = "waiting" \/ @]

\* release wakes every reserve_wait that registered, whether it sleeps already or not.
Woken(l) == [l EXCEPT !.heard = l.at \in {"checking", "refused", "waiting"} \/ @]

Release(size) ==
    /\ bytes' = bytes - size
    /\ load' = [l \in Loads |-> Woken(load[l])]

-----------------------------------------------------------------------------
(* Updates of a running prompt. *)

\* send_notification: an update that does not fit fails the connection.
SendLive ==
    /\ lives < MaxLive
    /\ lives' = lives + 1
    /\ \E size \in Sizes :
          IF Failed \/ ~Fits(size)
          THEN line' = "failed" /\ UNCHANGED <<bytes, frames>>
          ELSE /\ bytes' = bytes + size
               /\ frames' = Append(frames, size)
               /\ UNCHANGED line
    /\ UNCHANGED load

-----------------------------------------------------------------------------
(* The replay of a history. *)

\* The next update of the history; one larger than the whole budget takes the failing way.
ReplayNext(l) ==
    /\ load[l].at = "ready" /\ load[l].left > 0
    /\ \E size \in Sizes :
          IF size > Limit
          THEN /\ line' = "failed"
               /\ load' = [load EXCEPT ![l].at = "error"]
          ELSE /\ load' = [load EXCEPT ![l].at = "checking", ![l].size = size, ![l].heard = FALSE]
               /\ UNCHANGED line
    /\ UNCHANGED <<bytes, frames, lives>>

\* The waiter is registered; it looks at the failure and then at the budget.
ReplayCheck(l) ==
    /\ load[l].at = "checking"
    /\ CASE Failed -> /\ load' = [load EXCEPT ![l].at = "error"]
                      /\ UNCHANGED <<bytes, frames>>
         [] ~Failed /\ Fits(load[l].size) ->
              /\ bytes' = bytes + load[l].size
              /\ frames' = Append(frames, load[l].size)
              /\ load' = [load EXCEPT ![l].at = "ready", ![l].left = @ - 1]
         [] OTHER -> /\ load' = [load EXCEPT ![l].at = "refused"]
                     /\ UNCHANGED <<bytes, frames>>
    /\ UNCHANGED <<lives, line>>

\* A release may come between the look at the budget and the sleep.
ReplaySleep(l) ==
    /\ load[l].at = "refused"
    /\ load' = [load EXCEPT ![l].at = "waiting"]
    /\ UNCHANGED <<bytes, frames, lives, line>>

\* A wake-up or the failure starts the loop again.
ReplayWake(l) ==
    /\ load[l].at = "waiting" /\ (load[l].heard \/ Failed)
    /\ load' = [load EXCEPT ![l].at = "checking", ![l].heard = FALSE]
    /\ UNCHANGED <<bytes, frames, lives, line>>

-----------------------------------------------------------------------------
(* The writer. *)

ReleasedOfBody(size) == size - 1

\* write_frame computes the bytes again from the frame: the size that was reserved for it.
Released(size) == size

WriteFrame ==
    /\ ~Failed /\ frames # << >>
    /\ frames' = Tail(frames)
    /\ Release(Released(Head(frames)))
    /\ UNCHANGED <<lives, line>>

InputCloses ==
    /\ line = "open"
    /\ line' = "closed"
    /\ UNCHANGED <<bytes, frames, load, lives>>

\* A write that did not end in time after the input closed ends the connection, and with it the
\* guard that fails the budget.
WriteExpires ==
    /\ line = "closed" /\ frames # << >>
    /\ line' = "failed"
    /\ UNCHANGED <<bytes, frames, load, lives>>

Next ==
    \/ SendLive \/ WriteFrame \/ InputCloses \/ WriteExpires
    \/ \E l \in Loads : ReplayNext(l) \/ ReplayCheck(l) \/ ReplaySleep(l) \/ ReplayWake(l)

Spec == Init /\ [][Next]_transportVars

-----------------------------------------------------------------------------
TransportTypeOK ==
    /\ bytes \in 0..Limit /\ frames \in Seq(1..Limit) /\ line \in {"open", "closed", "failed"}
    /\ \A l \in Loads : load[l].at \in {"ready", "checking", "refused", "waiting", "error"}

(* A replay sleeps only while the writer has a frame whose release will wake it: no release
   between its look at the budget and its sleep is lost. *)
ReplayWoken ==
    \A l \in Loads : load[l].at = "waiting" /\ ~load[l].heard /\ ~Failed =>
        frames # << >> /\ ~Fits(load[l].size)

(* What is reserved is what waits to be written. *)
ReservedIsQueued ==
    bytes = FoldLeft(LAMBDA sum, size : sum + size, 0, frames)
====
