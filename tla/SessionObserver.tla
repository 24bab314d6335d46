--------------------------- MODULE SessionObserver ---------------------------
(***************************************************************************)
(* How a process ("here") shows its terminal a session that another one    *)
(* ("there") runs: an observer polls the session's row every 250 ms and    *)
(* compares it with what it saw before; snapshots record what they saw as  *)
(* well.  Only the row is shared.  "here" may claim the session itself, by *)
(* a turn of its own or to recover an expired one.                         *)
(***************************************************************************)
EXTENDS Naturals, Sequences

CONSTANTS
    MaxRevision,   \* changes of the session
    MaxEvents      \* events published here

VARIABLES
    row,        \* revision, holder of the lease, whether it expired, stored timer
    watch,      \* the observer: where it is, what it compared, what it read
    observed,   \* observed_sessions: the last observation recorded, shared with snapshots
    feed,       \* number of the last event published, events the terminal has not handled
    capture,    \* the snapshot being taken, and the ones on their way
    shown       \* what the terminal shows, its event and snapshot numbers, and (a ghost)
                \* whether it dropped a snapshot since it installed one

observerVars == <<row, watch, observed, feed, capture, shown>>

\* What `observe` reads: an expired lease is not active, although nothing in the row changed.
Observation(r) == [revision |-> r.revision, active |-> r.holder # "none" /\ ~r.expired,
                   timer |-> r.timer]

\* An inactive lease finishes the stored timer.
StoredTimer(o) == IF o.active THEN o.timer ELSE "off"

InitRow == [revision |-> 1, holder |-> "none", expired |-> FALSE, timer |-> "off"]

Init ==
    /\ row = InitRow
    /\ watch = [at |-> "rest", previous |-> Observation(InitRow), read |-> Observation(InitRow)]
    /\ observed = Observation(InitRow)
    /\ feed = [seq |-> 0, events |-> << >>]
    /\ capture = [at |-> "none", asks |-> 0, seen |-> Observation(InitRow), replies |-> << >>]
    /\ shown = [revision |-> 1, timer |-> "off", event |-> 0, snapshot |-> 0, dropped |-> FALSE]

Emit(f, kind, timer) ==
    [seq |-> f.seq + 1, events |-> Append(f.events, [number |-> f.seq + 1, kind |-> kind, timer |-> timer])]
Timing(f, timer) == Emit(f, "TurnTimingChanged", timer)
Updated(f) == Emit(f, "HistoryUpdated", "off")
Room(k) == feed.seq + k <= MaxEvents

Bumped(r) == [r EXCEPT !.revision = @ + 1]
CanChange == row.revision < MaxRevision

-----------------------------------------------------------------------------
(* The other process. *)

Claimable == row.holder = "none" \/ row.expired
Claimed(p) == [Bumped(row) EXCEPT !.holder = p, !.expired = FALSE]
Released == [Bumped(row) EXCEPT !.holder = "none", !.timer = "off"]

ThereClaim ==
    /\ Claimable /\ CanChange
    /\ row' = Claimed("there")
    /\ UNCHANGED <<watch, observed, feed, capture, shown>>

ThereWrite ==
    /\ row.holder = "there" /\ ~row.expired /\ CanChange
    /\ row' = Bumped(row)
    /\ UNCHANGED <<watch, observed, feed, capture, shown>>

\* Its timer persistence task stores the timer without a new revision.
ThereSaveTimer ==
    /\ row.holder = "there" /\ ~row.expired /\ row.timer = "off"
    /\ row' = [row EXCEPT !.timer = "running"]
    /\ UNCHANGED <<watch, observed, feed, capture, shown>>

ThereRelease ==
    /\ row.holder = "there" /\ ~row.expired /\ CanChange
    /\ row' = Released
    /\ UNCHANGED <<watch, observed, feed, capture, shown>>

\* The other process died, and its lease runs out.
Expire ==
    /\ row.holder = "there" /\ ~row.expired
    /\ row' = [row EXCEPT !.expired = TRUE]
    /\ UNCHANGED <<watch, observed, feed, capture, shown>>

-----------------------------------------------------------------------------
(* This process. *)

\* A turn of its own, or the recovery of an expired one.
HereClaim ==
    /\ Claimable /\ CanChange
    /\ row' = Claimed("here")
    /\ UNCHANGED <<watch, observed, feed, capture, shown>>

\* finish_turn publishes the finished timer and releases; the turn's end, or the recovery's
\* HistoryUpdated, makes the terminal ask for a snapshot.
HereRelease ==
    /\ row.holder = "here" /\ CanChange /\ Room(2)
    /\ row' = Released
    /\ feed' = Updated(Timing(feed, "off"))
    /\ UNCHANGED <<watch, observed, capture, shown>>

Owns == row.holder = "here"

ObserverCopy ==
    /\ watch.at = "rest"
    /\ watch' = [watch EXCEPT !.at = "copied", !.previous = observed]
    /\ UNCHANGED <<row, observed, feed, capture, shown>>

Changed(o, previous) == o # previous

\* An observation equal to the copied one is dropped.
ObserverRead ==
    /\ watch.at = "copied"
    /\ LET o == Observation(row)
       IN watch' = IF Changed(o, watch.previous)
                   THEN [watch EXCEPT !.at = "changed", !.read = o]
                   ELSE [watch EXCEPT !.at = "rest"]
    /\ UNCHANGED <<row, observed, feed, capture, shown>>

ObserverInsert ==
    /\ watch.at = "changed"
    /\ watch' = [watch EXCEPT !.at = "inserted"]
    /\ observed' = watch.read
    /\ UNCHANGED <<row, feed, capture, shown>>

Report(o, previous) ==
    LET moved == o.active # previous.active
        timed == IF o.timer # previous.timer \/ moved THEN Timing(feed, StoredTimer(o)) ELSE feed
    IN IF o.revision # previous.revision \/ moved THEN Updated(timed) ELSE timed

\* A session this process owns by now is left to the events of its own turn.
ObserverReport ==
    /\ watch.at = "inserted" /\ Room(2)
    /\ watch' = [watch EXCEPT !.at = "rest"]
    /\ feed' = IF Owns THEN feed ELSE Report(watch.read, watch.previous)
    /\ UNCHANGED <<row, observed, capture, shown>>

\* A snapshot first records an observation ...
SnapshotObserve ==
    /\ capture.asks > 0 /\ capture.at = "none"
    /\ capture' = [capture EXCEPT !.at = "observed", !.asks = @ - 1, !.seen = Observation(row)]
    /\ observed' = Observation(row)
    /\ UNCHANGED <<row, watch, feed, shown>>

SnapshotCaptureRecordedLast ==
    /\ capture.at = "observed"
    /\ observed' = Observation(row)
    /\ capture' = [capture EXCEPT !.at = "none",
                   !.replies = Append(@, [number |-> feed.seq, revision |-> capture.seen.revision,
                                          timer |-> StoredTimer(capture.seen)])]
    /\ UNCHANGED <<row, watch, feed, shown>>

\* ... and reads history, event number and timer afterwards.
SnapshotCapture ==
    /\ capture.at = "observed"
    /\ LET timer == IF Owns THEN "running" ELSE StoredTimer(capture.seen)
       IN capture' = [capture EXCEPT !.at = "none",
                      !.replies = Append(@, [number |-> feed.seq, revision |-> row.revision,
                                             timer |-> timer])]
    /\ UNCHANGED <<row, watch, observed, feed, shown>>

\* The terminal skips both kinds of events when a snapshot covers them; an update asks for a
\* snapshot, a timer is shown.
HandleEvent ==
    /\ feed.events # << >>
    /\ LET e == Head(feed.events)
           news == e.number > shown.snapshot
       IN /\ shown' = [shown EXCEPT !.event = e.number,
                           !.timer = IF news /\ e.kind = "TurnTimingChanged" THEN e.timer ELSE @]
          /\ capture' = IF news /\ e.kind = "HistoryUpdated" THEN [capture EXCEPT !.asks = @ + 1]
                                                              ELSE capture
    /\ feed' = [feed EXCEPT !.events = Tail(@)]
    /\ UNCHANGED <<row, watch, observed>>

HandleSnapshot ==
    /\ capture.replies # << >>
    /\ LET s == Head(capture.replies)
       IN shown' = IF s.number >= shown.event
                   THEN [shown EXCEPT !.revision = s.revision, !.timer = s.timer,
                                      !.snapshot = s.number, !.dropped = FALSE]
                   ELSE [shown EXCEPT !.dropped = TRUE]
    /\ capture' = [capture EXCEPT !.replies = Tail(@)]
    /\ UNCHANGED <<row, watch, observed, feed>>

Next ==
    \/ ThereClaim \/ ThereWrite \/ ThereSaveTimer \/ ThereRelease \/ Expire
    \/ HereClaim \/ HereRelease
    \/ ObserverCopy \/ ObserverRead \/ ObserverInsert \/ ObserverReport
    \/ SnapshotObserve \/ SnapshotCapture \/ HandleEvent \/ HandleSnapshot

Spec == Init /\ [][Next]_observerVars

-----------------------------------------------------------------------------
Observations == [revision : 1..MaxRevision, active : BOOLEAN, timer : {"off", "running"}]

TypeOK ==
    /\ row \in [revision : 1..MaxRevision, holder : {"none", "here", "there"}, expired : BOOLEAN,
                timer : {"off", "running"}]
    /\ observed \in Observations /\ watch.previous \in Observations
    /\ feed.seq \in 0..MaxEvents /\ shown.revision \in 1..MaxRevision

Quiet ==
    /\ feed.events = << >> /\ capture.at = "none" /\ capture.asks = 0 /\ capture.replies = << >>
    /\ watch.at = "rest" /\ observed = Observation(row)

(* When the observer has nothing left to report, the terminal shows the session's last revision, *)
(* whoever runs it, died with it or recovered it and whichever of observer and snapshot recorded  *)
(* an observation last, unless it dropped the snapshot that an observation was recorded for (an   *)
(* observer reporting nothing but a stored timer may cause that).                                 *)
LastRevisionShown ==
    Quiet /\ ~Owns /\ ~shown.dropped => shown.revision = row.revision

(* What the comments on CapturedSnapshot (snapshot.rs:16) and event_sequence (api.rs:283-285)    *)
(* say: a snapshot contains what the events through its number represent.  Then a terminal with  *)
(* nothing left to handle shows no running timer for a session that was released.  The code      *)
(* breaks it, which the run snapshot_timer finds (finding 6): timer and owner come from an       *)
(* observation made before the event number is read, and the terminal skips the events between.  *)
SnapshotCoherent ==
    Quiet /\ row.holder = "none" => shown.timer = "off"
=============================================================================
