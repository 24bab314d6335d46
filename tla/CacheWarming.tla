----------------------------- MODULE CacheWarming -----------------------------
(***************************************************************************)
(* Warming a provider's prompt cache for one session and model.  Before a  *)
(* request the reader asks whether the stable part of it should be sent    *)
(* alone first; what earlier requests and warm-ups reported decides.  The  *)
(* books live in a shared table whose cleanup drops entries nobody used    *)
(* for long, while warm-ups and usage observers hold theirs.               *)
(* Token counts and prices are abstracted to whether they are known and    *)
(* which way the comparison they are used for goes.                        *)
(***************************************************************************)
EXTENDS Naturals, Sequences, SequencesExt

CONSTANTS
    MinBetween,   \* min_requests_between_warmups
    Fallback,     \* fallback_requests_between_warmups
    Samples,      \* SAMPLE_COUNT
    Refresh,      \* refresh_after, in ticks
    KeepFor,      \* how long an unused entry is kept, in ticks
    MaxTime, MaxRequests, MaxMessages

VARIABLES
    clock,
    talk,      \* the conversation: the stable prefix of the next request, messages made so far
    table,     \* the entry in the table; made = how many entries there were
    old,       \* an entry that was dropped while somebody held it
    work,      \* the request under way: where it is, its prefix and suffix, the entry it holds
    since,     \* ghost: requests since the last warm-up that the same conversation saw
    hasty      \* ghost: a warm-up came too soon after another

warmVars == <<clock, talk, table, old, work, since, hasty>>

Never == 0
NoMeasurement == [known |-> FALSE, prefix |-> << >>, suffix |-> "s", tokens |-> FALSE]
NewEntry(n) ==
    [id |-> n, completed |-> << >>, latest |-> NoMeasurement, growth |-> << >>, outputs |-> 0,
     rates |-> "none", succeeded |-> FALSE, attempt |-> Never, used |-> clock, prefixUse |-> Never,
     requests |-> 0, inFlight |-> FALSE]
NoWork == [at |-> "idle", prefix |-> << >>, suffix |-> "s", id |-> 0]

Init ==
    /\ clock = 1
    /\ talk = [prefix |-> <<1>>, made |-> 1, requests |-> 0]
    /\ table = NewEntry(1)
    /\ old = NewEntry(0)
    /\ work = NoWork
    /\ since = 0 /\ hasty = FALSE

-----------------------------------------------------------------------------
(* The conversation. *)

\* A turn adds messages to the stable prefix; an undo or a compaction makes it a different one.
Grow ==
    /\ work.at = "idle" /\ talk.made < MaxMessages
    /\ \E kept \in 0..Len(talk.prefix) :
          talk' = [talk EXCEPT !.prefix = Append(SubSeq(@, 1, kept), talk.made + 1),
                               !.made = @ + 1]
    /\ UNCHANGED <<clock, table, old, work, since, hasty>>

Tick ==
    /\ clock < MaxTime
    /\ clock' = clock + 1
    /\ UNCHANGED <<talk, table, old, work, since, hasty>>

-----------------------------------------------------------------------------
(* Feedback. *)

SynchronizedLatest(e, prefix) ==
    IF e.latest.known /\ ~IsPrefix(e.latest.prefix, prefix)
    THEN [e EXCEPT !.latest = NoMeasurement]
    ELSE e

\* A conversation that no longer continues the measured one starts without samples.
Synchronized(e, prefix) ==
    IF e.latest.known /\ ~IsPrefix(e.latest.prefix, prefix)
    THEN [e EXCEPT !.latest = NoMeasurement, !.growth = << >>]
    ELSE e

\* Whether the prefix's tokens can be predicted: measured, or measured plus the mean growth.
Predicted(e, prefix) ==
    e.latest.known /\ e.latest.tokens /\ (prefix = e.latest.prefix \/ e.growth # << >>)

Sampled(s, x) == LET t == Append(s, x) IN IF Len(t) > Samples THEN Tail(t) ELSE t

NoDiscount(e) == e.rates = "flat"

\* The costs can be compared.
Estimable(e, prefix) == e.rates = "discount" /\ e.outputs > 0 /\ Predicted(e, prefix)

IntervalsUnbounded(e, prefix) ==
    IF ~e.succeeded THEN {Fallback}
    ELSE {Fallback} \cup (IF Estimable(e, prefix) /\ e.growth # << >> THEN 0..(Fallback + 1) ELSE {})

\* The cheaper of the two intervals around the optimum, never below the minimum.
Intervals(e, prefix) ==
    IF ~e.succeeded THEN {Fallback}
    ELSE {Fallback} \cup (IF Estimable(e, prefix) /\ e.growth # << >> THEN MinBetween..(Fallback + 1) ELSE {})

Later(a, b) == IF a > b THEN a ELSE b
Expired(e) ==
    LET last == Later(e.attempt, e.prefixUse) IN last = Never \/ clock - last >= Refresh

-----------------------------------------------------------------------------
(* The table. *)

Held == work.at # "idle" /\ work.id = table.id

EvictsUnused == clock - table.used >= KeepFor

\* The cleanup keeps what somebody holds, what is in flight and what was used lately.
Evicts == ~Held /\ ~table.inFlight /\ clock - table.used >= KeepFor

\* A request of any session may run the cleanup.
Cleanup ==
    /\ Evicts
    /\ old' = IF Held THEN table ELSE old
    /\ table' = NewEntry(table.id + 1)
    /\ UNCHANGED <<clock, talk, work, since, hasty>>

-----------------------------------------------------------------------------
(* A request. *)

Warms(e, prefix) ==
    \E interval \in Intervals(e, prefix) :
        /\ Expired(e) \/ e.requests >= interval
        /\ Predicted(e, prefix) \/ Expired(e) \/ e.completed # prefix

\* prepare_cache_warmup: whether the prefix is worth warming depends on how much of it is not
\* cached and on what that would cost.
Prepare ==
    /\ work.at = "idle" /\ talk.requests < MaxRequests
    /\ talk' = [talk EXCEPT !.requests = @ + 1]
    /\ LET seen == Synchronized([table EXCEPT !.used = clock], talk.prefix)
           counted == [seen EXCEPT !.requests = @ + 1]
           skip(e) == table' = e /\ UNCHANGED hasty
       IN \E suffix \in {"s", "t"} :
          /\ \/ /\ NoDiscount(seen)
                /\ skip(seen)
                /\ work' = [at |-> "sending", prefix |-> talk.prefix, suffix |-> suffix, id |-> seen.id]
             \/ /\ ~NoDiscount(seen)
                /\ skip(counted)
                /\ counted.inFlight \/ Predicted(counted, talk.prefix) \/ ~Warms(counted, talk.prefix)
                /\ work' = [at |-> "sending", prefix |-> talk.prefix, suffix |-> suffix, id |-> seen.id]
             \/ /\ ~NoDiscount(seen) /\ ~counted.inFlight /\ Warms(counted, talk.prefix)
                /\ table' = [counted EXCEPT !.succeeded = FALSE, !.inFlight = TRUE, !.requests = 0,
                                            !.attempt = clock]
                /\ work' = [at |-> "warming", prefix |-> talk.prefix, suffix |-> suffix, id |-> seen.id]
                /\ hasty' = (hasty \/ (since + 1 < MinBetween /\ ~Expired(counted)))
          /\ since' = IF work'.at = "warming" THEN 0 ELSE since + 1
    /\ UNCHANGED <<clock, old>>

\* The entry the request works with, wherever it is.
Update(new(_)) ==
    IF work.id = table.id THEN table' = new(table) /\ UNCHANGED old
    ELSE old' = new(old) /\ UNCHANGED table

AfterDropKept(e) == e

\* Dropping a warm-up, completed or not, ends its flight.
AfterDrop(e) == [e EXCEPT !.inFlight = FALSE]

Priced(e, rates) == IF rates = "none" THEN e ELSE [e EXCEPT !.rates = rates]

\* complete: the warmed prefix is remembered once its usage is known.
WarmupCompletes ==
    /\ work.at = "warming"
    /\ \E rates \in {"none", "discount", "flat"} :
          Update(LAMBDA e : AfterDrop([Priced(e, rates) EXCEPT
              !.outputs = IF @ < Samples THEN @ + 1 ELSE @,
              !.completed = work.prefix, !.succeeded = TRUE]))
    /\ work' = [work EXCEPT !.at = "sending"]
    /\ UNCHANGED <<clock, talk, since, hasty>>

\* The provider fails, or ends without usage; the conversation goes on.
WarmupFails ==
    /\ work.at = "warming"
    /\ Update(AfterDrop)
    /\ work' = [work EXCEPT !.at = "sending"]
    /\ UNCHANGED <<clock, talk, since, hasty>>

\* The turn is cancelled: the reader is dropped with what it holds.
Cancelled ==
    /\ work.at # "idle"
    /\ Update(LAMBDA e : IF work.at = "warming" THEN AfterDrop(e) ELSE e)
    /\ work' = NoWork
    /\ UNCHANGED <<clock, talk, since, hasty>>

\* Feedback::observe: growth is sampled between requests that differ only in their prefix, and
\* forgotten when the larger one reports fewer tokens; the size of a warmed prefix is known, unless
\* the request that contains it reports fewer tokens than the warm-up did.
Observed(e, shrank, covered) ==
    LET kept == Synchronized(e, work.prefix)
        last == kept.latest
        compared == last.known /\ last.prefix # work.prefix /\ last.suffix = work.suffix
        used == IF e.completed # << >> /\ IsPrefix(e.completed, work.prefix) THEN clock ELSE e.prefixUse
    IN [kept EXCEPT
          !.growth = IF ~compared THEN @ ELSE IF shrank THEN << >> ELSE Sampled(@, last.prefix),
          !.prefixUse = used,
          !.latest = [known |-> TRUE, prefix |-> work.prefix, suffix |-> work.suffix,
                      tokens |-> IF e.completed = work.prefix THEN covered
                                 ELSE IF compared THEN last.tokens /\ ~shrank
                                 ELSE Predicted(kept, work.prefix)]]

UsageReported ==
    /\ work.at = "sending"
    /\ \E rates \in {"none", "discount", "flat"}, shrank \in BOOLEAN, covered \in BOOLEAN :
          Update(LAMBDA e : Priced(Observed(e, shrank, covered), rates))
    /\ work' = NoWork
    /\ UNCHANGED <<clock, talk, since, hasty>>

Next ==
    \/ Grow \/ Tick \/ Cleanup \/ Prepare \/ WarmupCompletes \/ WarmupFails \/ Cancelled
    \/ UsageReported

Spec == Init /\ [][Next]_warmVars

-----------------------------------------------------------------------------
WarmTypeOK ==
    /\ work.at \in {"idle", "warming", "sending"} /\ table.inFlight \in BOOLEAN
    /\ Len(table.growth) <= Samples /\ table.requests <= MaxRequests

(* The entry is marked in flight exactly while a warm-up of it runs: a cancelled turn or a failed
   provider never stops warming for good, and no second warm-up starts beside one. *)
FlightIsReal == table.inFlight <=> work.at = "warming" /\ work.id = table.id

(* Growth is averaged over the conversation at hand: every sample was taken on the way to the
   prefix measured last. *)
GrowthOfThisConversation ==
    \A i \in DOMAIN table.growth :
        table.latest.known /\ IsPrefix(table.growth[i], table.latest.prefix)

(* What a request reports reaches the entry the next request will read. *)
UsageReachesTable == work.at # "idle" => work.id = table.id

(* Two warm-ups of a cache that has not expired are at least the minimum number of requests
   apart. *)
WarmupsSpaced == ~hasty
====
