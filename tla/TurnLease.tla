----------------------------- MODULE TurnLease -----------------------------
(***************************************************************************)
(* The turn lease of one session: several runtime processes share one      *)
(* SQLite database, and a process may change a session only under the      *)
(* lease columns of its row.  A lease carries a fencing token, which each  *)
(* process remembers in memory (LeaseTokens), and expires unless the       *)
(* heartbeat of its owner renews it.                                       *)
(*                                                                         *)
(* One action is one database transaction or one in-memory access.  The    *)
(* claim is two steps (the commit and the later insertion of the token),   *)
(* and so is the renewal (the token is read before the writer connection   *)
(* is waited for).  A process may be suspended, crash and restart between  *)
(* any two steps.                                                          *)
(***************************************************************************)
EXTENDS Integers, Sequences, TLAPS

CONSTANTS
    Processes,        \* processes that share the database
    Nobody,           \* not a runtime
    LeaseDuration,   \* TURN_LEASE_DURATION, in clock ticks
    Heartbeat,       \* longest time between two heartbeat passes of a process that is not suspended
    MaxClock,        \* bound: ticks explored
    MaxToken         \* bound: claims explored

ASSUME NobodyAssumption == Nobody \notin Processes

ASSUME TimingAssumption ==
    /\ LeaseDuration \in Nat
    /\ Heartbeat \in Nat
    /\ 3 * Heartbeat <= LeaseDuration

ASSUME BoundAssumption == MaxClock \in Nat /\ MaxToken \in Nat

VARIABLES
    row,          \* the session's row: exists, lease_active, lease_token, lease_expires_at
    tokens,       \* LeaseTokens of each process for this session; 0 is no entry
    claiming,     \* token committed by claim_turn_for but not yet inserted; 0 is none
    renewing,     \* token read by renew_turn, its UPDATE still to run; 0 is none
    cancelling,   \* lease a failed renewal asked the session actor to cancel; 0 is none
    leftover,     \* the remembered token belongs to no turn: the actor is idle, nothing is active
    up,           \* the process runs
    beat,         \* when the last heartbeat pass started
    clock,        \* SystemTime, in ticks
    claims,       \* history: the runtime that made each claim, by token
    prompt,       \* history: since it last claimed, not suspended and no failed renewal ignored
    written       \* history: the last change of the session and the turn it fell into

leaseVars == <<row, tokens, claiming, renewing, cancelling, leftover, up, beat, clock,
               claims, prompt, written>>

None == 0

LeaseTypeOK ==
    /\ row \in [exists : BOOLEAN, active : BOOLEAN, token : Nat, expires : Nat]
    /\ tokens \in [Processes -> Nat]
    /\ claiming \in [Processes -> Nat]
    /\ renewing \in [Processes -> Nat]
    /\ cancelling \in [Processes -> Nat]
    /\ leftover \in [Processes -> BOOLEAN]
    /\ up \in [Processes -> BOOLEAN]
    /\ beat \in [Processes -> Nat]
    /\ clock \in Nat
    /\ claims \in Seq(Processes)
    /\ prompt \in [Processes -> BOOLEAN]
    /\ written \in [by : Processes \cup {Nobody}, turn : Nat]

LeaseInit ==
    /\ row = [exists |-> TRUE, active |-> FALSE, token |-> 0, expires |-> 0]
    /\ tokens = [r \in Processes |-> None]
    /\ claiming = [r \in Processes |-> None]
    /\ renewing = [r \in Processes |-> None]
    /\ cancelling = [r \in Processes |-> None]
    /\ leftover = [r \in Processes |-> FALSE]
    /\ up = [r \in Processes |-> TRUE]
    /\ beat = [r \in Processes |-> 0]
    /\ clock = 0
    /\ claims = <<>>
    /\ prompt = [r \in Processes |-> TRUE]
    /\ written = [by |-> Nobody, turn |-> 0]

-----------------------------------------------------------------------------
(* Variants with a plausible mistake, for the sensitivity checks of the    *)
(* properties: expiry at the deadline instead of after it, an UPDATE that  *)
(* forgets the token, an ownership test that trusts a missing or any       *)
(* remembered token, an expiry computed backwards.                         *)
ClaimableAtDeadline == row.exists /\ (~row.active \/ row.expires <= clock)
RowLeased(token) == row.exists /\ row.active
AssertOwnerUnlessUnleased(r) ==
    row.exists /\ tokens[r] # None => row.active /\ tokens[r] = row.token
AssertOwnerByAnyToken(r) == row.exists /\ tokens[r] = None => ~row.active
LeaseExpiryBackwards == clock - LeaseDuration

(* lease_expiry *)
LeaseExpiry == clock + LeaseDuration

(* ensure_claimable: the row exists and carries no unexpired lease. *)
LeaseClaimable == row.exists /\ (~row.active \/ row.expires < clock)

(* The conditional UPDATEs match the row only under the lease they name. *)
RowLeasedUnder(token) == row.exists /\ row.active /\ row.token = token

(* assert_owner, evaluated inside the transaction of every session write. *)
AssertOwner(r) ==
    IF row.exists
    THEN IF tokens[r] # None
         THEN row.active /\ tokens[r] = row.token
         ELSE ~row.active
    ELSE tokens[r] = None

(* The writer connection of a process is a mutex: nothing else of this     *)
(* process writes between the commit of a claim and its insertion.         *)
WriterFree(r) == up[r] /\ claiming[r] = None

(* What owns_turn answers: the remembered token is the row's, and the      *)
(* lease is active.  Expiry plays no part.                                 *)
OwnsTurn(r) == tokens[r] # None /\ RowLeasedUnder(tokens[r])

(* The process runs on schedule and is not giving up its lease. *)
Keeping(r) == up[r] /\ prompt[r] /\ cancelling[r] # tokens[r]

(* The turn the session is in: the token of its active lease. *)
Turn == IF row.active THEN row.token ELSE None

-----------------------------------------------------------------------------
(* claim_turn_for up to its commit. *)
ClaimCommit(r) ==
    /\ WriterFree(r)
    /\ LeaseClaimable
    /\ row.token < MaxToken
    /\ row' = [row EXCEPT !.active = TRUE, !.token = @ + 1,
                          !.expires = LeaseExpiry]
    /\ claiming' = [claiming EXCEPT ![r] = row.token + 1]
    /\ claims' = Append(claims, r)
    /\ prompt' = [prompt EXCEPT ![r] = TRUE]
    /\ UNCHANGED <<tokens, renewing, cancelling, leftover, up, beat, clock, written>>

(* leases.insert, after the commit and before the writer is given back. *)
ClaimInsert(r) ==
    /\ up[r]
    /\ claiming[r] # None
    /\ tokens' = [tokens EXCEPT ![r] = claiming[r]]
    /\ claiming' = [claiming EXCEPT ![r] = None]
    /\ leftover' = [leftover EXCEPT ![r] = FALSE]
    /\ UNCHANGED <<row, renewing, cancelling, up, beat, clock, claims, prompt, written>>

(* Variant: the release does not compare tokens. *)
ReleasedRowOfAnyone(token) == [row EXCEPT !.active = FALSE]

(* The row after the UPDATE of release, run with a remembered token. *)
ReleasedRow(token) ==
    IF RowLeasedUnder(token) THEN [row EXCEPT !.active = FALSE] ELSE row

(* release: the token is forgotten first, then the row is released if it   *)
(* still carries that token; the UPDATE itself may fail.                   *)
ReleaseTurn(r) ==
    /\ WriterFree(r)
    /\ tokens[r] # None
    /\ tokens' = [tokens EXCEPT ![r] = None]
    /\ row' \in {row, ReleasedRow(tokens[r])}
    /\ leftover' = [leftover EXCEPT ![r] = FALSE]
    /\ UNCHANGED <<claiming, renewing, cancelling, up, beat, clock, claims, prompt, written>>

(* A heartbeat pass: owned_turns, then renew_turn reads the token it will  *)
(* renew.  A session whose cancellation is under way is skipped.           *)
HeartbeatStart(r) ==
    /\ up[r]
    /\ renewing[r] = None
    /\ beat' = [beat EXCEPT ![r] = clock]
    /\ renewing' = [renewing EXCEPT ![r] = IF cancelling[r] = None THEN tokens[r] ELSE None]
    /\ UNCHANGED <<row, tokens, claiming, cancelling, leftover, up, clock, claims, prompt, written>>

(* Variant: a renewal that updates no row is taken for a success. *)
HeartbeatRenewUnchecked(r) ==
    /\ WriterFree(r)
    /\ renewing[r] # None
    /\ renewing' = [renewing EXCEPT ![r] = None]
    /\ row' = IF RowLeasedUnder(renewing[r]) THEN [row EXCEPT !.expires = LeaseExpiry] ELSE row
    /\ UNCHANGED <<tokens, claiming, cancelling, leftover, up, beat, clock, claims, prompt, written>>

(* The UPDATE of renew_turn: it extends the lease, or the heartbeat asks   *)
(* the session actor to cancel the turn because the lease was lost or the  *)
(* database failed.                                                        *)
HeartbeatRenew(r) ==
    /\ WriterFree(r)
    /\ renewing[r] # None
    /\ renewing' = [renewing EXCEPT ![r] = None]
    /\ \/ /\ RowLeasedUnder(renewing[r])
          /\ row' = [row EXCEPT !.expires = LeaseExpiry]
          /\ UNCHANGED cancelling
       \/ /\ cancelling' = [cancelling EXCEPT ![r] = renewing[r]]
          /\ UNCHANGED row
    /\ UNCHANGED <<tokens, claiming, leftover, up, beat, clock, claims, prompt, written>>

(* A claimed lease is left to no turn: the enqueue after ensure_lease      *)
(* fails, a queue preparation has nothing to start, or a deletion fails    *)
(* after the session's state was dropped.  The actor is idle, no turn is   *)
(* active, and nobody releases the lease.                                  *)
Abandon(r) ==
    /\ up[r]
    /\ tokens[r] # None
    /\ ~leftover[r]
    /\ leftover' = [leftover EXCEPT ![r] = TRUE]
    /\ UNCHANGED <<row, tokens, claiming, renewing, cancelling, up, beat, clock, claims, prompt, written>>

(* begin_preparation, under the token the process still remembers. *)
Resume(r) ==
    /\ up[r]
    /\ leftover[r]
    /\ leftover' = [leftover EXCEPT ![r] = FALSE]
    /\ UNCHANGED <<row, tokens, claiming, renewing, cancelling, up, beat, clock, claims, prompt, written>>

(* The cancellation reaches an actor that still remembers the lease it was *)
(* meant for and has a turn, or an owned queue, to give up: finish_turn    *)
(* releases the lease.  A displaced process discards no queue, so that its *)
(* leftover token stays.                                                   *)
CancelLost(r) ==
    /\ WriterFree(r)
    /\ cancelling[r] # None
    /\ tokens[r] = cancelling[r]
    /\ leftover[r] => OwnsTurn(r)
    /\ cancelling' = [cancelling EXCEPT ![r] = None]
    /\ tokens' = [tokens EXCEPT ![r] = None]
    /\ row' = ReleasedRow(tokens[r])
    /\ leftover' = [leftover EXCEPT ![r] = FALSE]
    /\ UNCHANGED <<claiming, renewing, up, beat, clock, claims, prompt, written>>

(* The cancellation ends and the token stays: it was meant for an older    *)
(* lease, there is nothing to cancel, or the cancellation of a stream      *)
(* could not be saved.                                                     *)
CancelKept(r) ==
    /\ WriterFree(r)
    /\ cancelling[r] # None
    /\ cancelling' = [cancelling EXCEPT ![r] = None]
    /\ prompt' = [prompt EXCEPT ![r] = @ /\ tokens[r] # cancelling[r]]
    /\ UNCHANGED <<row, tokens, claiming, renewing, leftover, up, beat, clock, claims, written>>

(* Any transaction that changes the session: history, queue, executions,   *)
(* metadata.  Every one of them begins with assert_owner.                  *)
Write(r) ==
    /\ WriterFree(r)
    /\ row.exists
    /\ AssertOwner(r)
    /\ written' = [by |-> r, turn |-> Turn]
    /\ UNCHANGED <<row, tokens, claiming, renewing, cancelling, leftover, up, beat, clock, claims, prompt>>

(* SessionStore::delete, the last write of a session. *)
Delete(r) ==
    /\ WriterFree(r)
    /\ row.exists
    /\ AssertOwner(r)
    /\ row' = [row EXCEPT !.exists = FALSE, !.active = FALSE]
    /\ UNCHANGED <<tokens, claiming, renewing, cancelling, leftover, up, beat, clock, claims, prompt, written>>

(* The process ends at any point: everything it kept in memory is gone,    *)
(* the row stays as it is.                                                 *)
ProcessCrash(r) ==
    /\ up[r]
    /\ up' = [up EXCEPT ![r] = FALSE]
    /\ tokens' = [tokens EXCEPT ![r] = None]
    /\ claiming' = [claiming EXCEPT ![r] = None]
    /\ renewing' = [renewing EXCEPT ![r] = None]
    /\ cancelling' = [cancelling EXCEPT ![r] = None]
    /\ leftover' = [leftover EXCEPT ![r] = FALSE]
    /\ UNCHANGED <<row, beat, clock, claims, prompt, written>>

(* A process started later; it knows no lease. *)
Restart(r) ==
    /\ ~up[r]
    /\ up' = [up EXCEPT ![r] = TRUE]
    /\ beat' = [beat EXCEPT ![r] = clock]
    /\ UNCHANGED <<row, tokens, claiming, renewing, cancelling, leftover, clock, claims, prompt, written>>

(* The process is suspended, or so slow that it keeps no schedule. *)
Suspend(r) ==
    /\ up[r]
    /\ prompt[r]
    /\ prompt' = [prompt EXCEPT ![r] = FALSE]
    /\ UNCHANGED <<row, tokens, claiming, renewing, cancelling, leftover, up, beat, clock, claims, written>>

(* Time passes, but a process that runs and was not suspended starts its   *)
(* next heartbeat pass in time, inserts a claimed token at once (no await  *)
(* lies between the commit and the insertion), and its actor answers a     *)
(* cancellation of a lease that is gone without waiting for anything.      *)
Tick ==
    /\ clock < MaxClock
    /\ \A r \in Processes : up[r] /\ prompt[r] => /\ clock < beat[r] + Heartbeat
                                                  /\ claiming[r] = None
                                                  /\ cancelling[r] \in {None, tokens[r]}
    /\ clock' = clock + 1
    /\ UNCHANGED <<row, tokens, claiming, renewing, cancelling, leftover, up, beat, claims, prompt, written>>

StepBy(r) ==
    \/ ClaimCommit(r)
    \/ ClaimInsert(r)
    \/ ReleaseTurn(r)
    \/ HeartbeatStart(r)
    \/ HeartbeatRenew(r)
    \/ Abandon(r)
    \/ Resume(r)
    \/ CancelLost(r)
    \/ CancelKept(r)
    \/ Write(r)
    \/ Delete(r)
    \/ ProcessCrash(r)
    \/ Restart(r)
    \/ Suspend(r)

LeaseNext ==
    \/ \E r \in Processes : StepBy(r)
    \/ Tick

LeaseSpec == LeaseInit /\ [][LeaseNext]_leaseVars

(* The heartbeat task of a running process is never starved, and a         *)
(* cancellation it sent is handled; a stream's cancellation may fail to be *)
(* saved, but not every time it is asked for.  Claiming, writing, leaving  *)
(* a lease to no turn and time are free.                                   *)
Fairness ==
    \A r \in Processes :
        /\ WF_leaseVars(ClaimInsert(r))
        /\ WF_leaseVars(HeartbeatStart(r))
        /\ WF_leaseVars(HeartbeatRenew(r))
        /\ WF_leaseVars(CancelLost(r) \/ CancelKept(r))
        /\ SF_leaseVars(CancelLost(r))

FairSpec == LeaseSpec /\ Fairness

-----------------------------------------------------------------------------
(* At no time do two processes hold a token that the row would accept,     *)
(* whatever was suspended, crashed or delayed between a commit and the     *)
(* insertion of its token.                                                 *)
SingleOwner ==
    \A r, s \in Processes : OwnsTurn(r) /\ OwnsTurn(s) => r = s

(* A change made while a turn was active was made by the runtime that      *)
(* claimed that turn: a late write of a process that lost its lease, or of *)
(* one that never had it, is refused by assert_owner.                      *)
WritesFenced ==
    written.turn # None => /\ written.turn <= Len(claims)
                           /\ claims[written.turn] = written.by

(* A process that runs and was never suspended since its claim keeps its   *)
(* lease unexpired as long as no renewal fails, so that no other process   *)
(* can claim the session: the 5 s heartbeat outruns the 30 s lease even    *)
(* when a pass is in flight.                                               *)
PromptOwnerKeepsLease ==
    \A r \in Processes : Keeping(r) /\ OwnsTurn(r) => ~LeaseClaimable

(* An owner stops being the owner only by its own release, deletion or     *)
(* crash, or because it missed its schedule and its lease expired: no step *)
(* of another process (a late release, a renewal, a claim) ends its turn.  *)
OwnershipEndsByOwner ==
    [][\A r \in Processes :
          OwnsTurn(r) /\ ~OwnsTurn(r)' =>
              \/ tokens'[r] = None
              \/ ~row'.exists
              \/ ~Keeping(r) /\ row.expires < clock]_leaseVars

(* A lease is extended only by the process that owns it: a renewal whose   *)
(* token was read before the turn changed hands does not prolong the next  *)
(* owner's lease.                                                          *)
RenewedByOwner ==
    [][row'.token = row.token /\ row'.expires # row.expires =>
          \E r \in Processes : r = claims[row.token] /\ renewing[r] = row.token]_leaseVars

(* A process that lost the lease of a turn finds out: the next heartbeat   *)
(* pass fails and the cancellation drops the stale token with the turn it  *)
(* was running, unless the turn ends and leaves the token behind.  Nothing *)
(* is promised of a leftover token: the actor has nothing to cancel and    *)
(* keeps it, while every heartbeat pass fails again, until it claims anew. *)
StaleTokenDropped ==
    \A r \in Processes :
        (up[r] /\ tokens[r] # None /\ ~OwnsTurn(r) /\ ~leftover[r])
            ~> (~up[r] \/ tokens[r] = None \/ OwnsTurn(r) \/ leftover[r])

-----------------------------------------------------------------------------
(* The runtime whose turn it is, whether or not it still runs. *)
Owner == IF row.active THEN claims[row.token] ELSE Nobody

Ownership == INSTANCE TurnOwnership WITH owner <- Owner, epoch <- row.token

(* The lease table implements TurnOwnership: turns are claimed in fresh    *)
(* epochs, and an owned session is changed only by its owner.              *)
ImplementsOwnership == Ownership!Spec

-----------------------------------------------------------------------------
(***************************************************************************)
(* The properties of TurnLease for any number of processes, any lease      *)
(* duration of at least three heartbeats, and any bounds.                  *)
(***************************************************************************)

(* A token stands for the claim that produced it. *)
ClaimedBy(token, r) == token \in 1..Len(claims) /\ claims[token] = r

(* Tokens are claims: the row carries the latest one, and whatever a       *)
(* process remembers, reads or is about to insert is a claim of its own.   *)
TokenInv ==
    /\ row.token = Len(claims)
    /\ row.active => row.token # None
    /\ \A r \in Processes :
          /\ tokens[r] # None => ClaimedBy(tokens[r], r)
          /\ claiming[r] # None => ClaimedBy(claiming[r], r) /\ tokens[r] < claiming[r]
          /\ renewing[r] # None => ClaimedBy(renewing[r], r)
    /\ written.turn # None => ClaimedBy(written.turn, written.by)

(* A process that is down remembers nothing, its heartbeat lies in the     *)
(* past, and no renewal is in flight while a cancellation is pending.      *)
ProcessInv ==
    \A r \in Processes :
        /\ beat[r] <= clock
        /\ ~up[r] => tokens[r] = None /\ claiming[r] = None
        /\ cancelling[r] # None => renewing[r] = None

(* How far the clock may be ahead of the last renewal of a lease its owner *)
(* keeps.  One heartbeat for a renewal in flight with an older token, one  *)
(* more while the pass it cost is skipped, one more while the renewal of   *)
(* the lease itself is in flight.                                          *)
Renewed(r) ==
    LET slack == row.expires - LeaseDuration IN
    IF renewing[r] = tokens[r]
    THEN beat[r] <= slack + 2 * Heartbeat /\ clock <= slack + 3 * Heartbeat
    ELSE IF renewing[r] # None
    THEN beat[r] <= slack /\ clock <= slack + Heartbeat
    ELSE IF cancelling[r] # None
    THEN clock <= slack + Heartbeat
    ELSE beat[r] <= slack + Heartbeat /\ clock <= slack + 2 * Heartbeat

OnTime(r) ==
    /\ up[r] /\ prompt[r] /\ claiming[r] # None /\ RowLeasedUnder(claiming[r]) =>
          row.expires = clock + LeaseDuration
    /\ Keeping(r) /\ OwnsTurn(r) => Renewed(r)

TimingInv == \A r \in Processes : OnTime(r)

IInv == LeaseTypeOK /\ TokenInv /\ ProcessInv /\ TimingInv

-----------------------------------------------------------------------------
(* The row after a release, whichever token is released. *)
LEMMA ReleasedRowType ==
    ASSUME LeaseTypeOK, NEW token
    PROVE  /\ ReleasedRow(token) \in [exists : BOOLEAN, active : BOOLEAN, token : Nat, expires : Nat]
           /\ ReleasedRow(token).token = row.token
           /\ ReleasedRow(token).expires = row.expires
           /\ ReleasedRow(token).exists = row.exists
           /\ ReleasedRow(token).active => row.active
           /\ ReleasedRow(token).active # row.active => row.token = token
BY DEF LeaseTypeOK, ReleasedRow, RowLeasedUnder

(* Every action keeps the variables in their types. *)
LEMMA TypeStep == ASSUME LeaseTypeOK, [LeaseNext]_leaseVars PROVE LeaseTypeOK'
<1> USE DEF LeaseTypeOK, None
<1>a. LeaseExpiry \in Nat
  BY TimingAssumption DEF LeaseExpiry
<1>1. ASSUME NEW r \in Processes, ClaimCommit(r) PROVE LeaseTypeOK'
  <2>1. claims' \in Seq(Processes)
    BY <1>1 DEF ClaimCommit
  <2>2. row.token + 1 \in Nat
    OBVIOUS
  <2>3. row' = [exists |-> row.exists, active |-> TRUE, token |-> row.token + 1,
                expires |-> LeaseExpiry]
    BY <1>1 DEF ClaimCommit
  <2>4. row' \in [exists : BOOLEAN, active : BOOLEAN, token : Nat, expires : Nat]
    BY <1>a, <2>2, <2>3
  <2> QED
    BY <1>1, <2>1, <2>2, <2>4 DEF ClaimCommit
<1>2. ASSUME NEW r \in Processes, ClaimInsert(r) PROVE LeaseTypeOK'
  BY <1>2 DEF ClaimInsert
<1>3. ASSUME NEW r \in Processes, ReleaseTurn(r) PROVE LeaseTypeOK'
  <2>1. row' \in [exists : BOOLEAN, active : BOOLEAN, token : Nat, expires : Nat]
    BY <1>3, ReleasedRowType DEF ReleaseTurn
  <2> QED
    BY <1>3, <2>1 DEF ReleaseTurn
<1>4. ASSUME NEW r \in Processes, HeartbeatStart(r) PROVE LeaseTypeOK'
  BY <1>4 DEF HeartbeatStart
<1>5. ASSUME NEW r \in Processes, HeartbeatRenew(r) PROVE LeaseTypeOK'
  BY <1>5, <1>a DEF HeartbeatRenew
<1>6. ASSUME NEW r \in Processes, CancelLost(r) PROVE LeaseTypeOK'
  <2>1. row' \in [exists : BOOLEAN, active : BOOLEAN, token : Nat, expires : Nat]
    BY <1>6, ReleasedRowType DEF CancelLost
  <2> QED
    BY <1>6, <2>1 DEF CancelLost
<1>14. ASSUME NEW r \in Processes, Abandon(r) \/ Resume(r) PROVE LeaseTypeOK'
  BY <1>14 DEF Abandon, Resume
<1>15. ASSUME NEW r \in Processes, CancelKept(r) PROVE LeaseTypeOK'
  <2>1. (prompt[r] /\ tokens[r] # cancelling[r]) \in BOOLEAN
    OBVIOUS
  <2>2. prompt' = [prompt EXCEPT ![r] = prompt[r] /\ tokens[r] # cancelling[r]]
    BY <1>15 DEF CancelKept
  <2>3. prompt' \in [Processes -> BOOLEAN]
    <3> HIDE DEF LeaseTypeOK
    <3>1. prompt \in [Processes -> BOOLEAN]
      BY DEF LeaseTypeOK
    <3> QED
      BY <2>1, <2>2, <3>1, Zenon
  <2> QED
    BY <1>15, <2>3 DEF CancelKept
<1>7. ASSUME NEW r \in Processes, Write(r) PROVE LeaseTypeOK'
  BY <1>7 DEF Write, Turn
<1>8. ASSUME NEW r \in Processes, Delete(r) PROVE LeaseTypeOK'
  BY <1>8 DEF Delete
<1>9. ASSUME NEW r \in Processes, ProcessCrash(r) PROVE LeaseTypeOK'
  BY <1>9 DEF ProcessCrash
<1>10. ASSUME NEW r \in Processes, Restart(r) PROVE LeaseTypeOK'
  BY <1>10 DEF Restart
<1>11. ASSUME NEW r \in Processes, Suspend(r) PROVE LeaseTypeOK'
  BY <1>11 DEF Suspend
<1>12. CASE Tick
  BY <1>12 DEF Tick
<1>13. CASE UNCHANGED leaseVars
  BY <1>13 DEF leaseVars
<1> QED
  BY <1>1, <1>2, <1>3, <1>4, <1>5, <1>6, <1>7, <1>8, <1>9, <1>10, <1>11, <1>12, <1>13, <1>14, <1>15
     DEF LeaseNext, StepBy

(* The lease table, the processes' memories and the histories keep their   *)
(* types in every behaviour.                                               *)
THEOREM TypeCorrect == LeaseSpec => []LeaseTypeOK
<1>1. LeaseInit => LeaseTypeOK
  BY NobodyAssumption DEF LeaseInit, LeaseTypeOK, None
<1> QED
  BY <1>1, TypeStep, PTL DEF LeaseSpec

-----------------------------------------------------------------------------
(* Tokens remain the claims of the processes that remember them. *)
LEMMA TokenStep == ASSUME LeaseTypeOK, TokenInv, [LeaseNext]_leaseVars PROVE TokenInv'
<1> USE DEF LeaseTypeOK, TokenInv, None
<1>1. ASSUME NEW r \in Processes, ClaimCommit(r) PROVE TokenInv'
  <2>1. claims' = Append(claims, r) /\ Len(claims') = Len(claims) + 1
    BY <1>1 DEF ClaimCommit
  <2>2. row'.token = row.token + 1 /\ row'.token = Len(claims') /\ row'.token # None
    BY <1>1, <2>1 DEF ClaimCommit
  <2>3. claiming'[r] = Len(claims') /\ \A s \in Processes \ {r} : claiming'[s] = claiming[s]
    BY <1>1, <2>1 DEF ClaimCommit
  <2>4. claiming'[r] \in 1..Len(claims') /\ claims'[claiming'[r]] = r
    BY <2>1, <2>3
  <2>5. tokens' = tokens /\ renewing' = renewing /\ written' = written
    BY <1>1 DEF ClaimCommit
  <2>6. Len(claims) \in Nat /\ \A token \in 1..Len(claims) : claims'[token] = claims[token]
    BY <2>1
  <2>7. ASSUME NEW s \in Processes
        PROVE  /\ tokens'[s] # None => ClaimedBy(tokens[s], s)'
               /\ renewing'[s] # None => ClaimedBy(renewing[s], s)'
               /\ claiming'[s] # None => ClaimedBy(claiming[s], s)' /\ tokens'[s] < claiming'[s]
    <3>1. /\ tokens[s] # None => tokens[s] \in 1..Len(claims) /\ claims[tokens[s]] = s
          /\ renewing[s] # None => renewing[s] \in 1..Len(claims) /\ claims[renewing[s]] = s
          /\ claiming[s] # None => /\ claiming[s] \in 1..Len(claims) /\ claims[claiming[s]] = s
                                   /\ tokens[s] < claiming[s]
          /\ tokens[s] \in Nat
      BY DEF ClaimedBy
    <3> HIDE DEF LeaseTypeOK, TokenInv
    <3>2. /\ tokens'[s] # None => tokens'[s] \in 1..Len(claims') /\ claims'[tokens'[s]] = s
          /\ renewing'[s] # None => renewing'[s] \in 1..Len(claims') /\ claims'[renewing'[s]] = s
      BY <3>1, <2>1, <2>5, <2>6
    <3>3. claiming'[s] # None => /\ claiming'[s] \in 1..Len(claims') /\ claims'[claiming'[s]] = s
                                 /\ tokens'[s] < claiming'[s]
      BY <3>1, <2>1, <2>3, <2>4, <2>5, <2>6
    <3> QED
      BY <3>2, <3>3 DEF ClaimedBy
  <2>8. written'.turn # None => ClaimedBy(written.turn, written.by)'
    BY <2>1, <2>5, <2>6 DEF ClaimedBy
  <2> QED
    BY <2>2, <2>7, <2>8 DEF ClaimedBy
<1>2. ASSUME NEW r \in Processes, ClaimInsert(r) PROVE TokenInv'
  BY <1>2 DEF ClaimInsert, ClaimedBy
<1>3. ASSUME NEW r \in Processes, ReleaseTurn(r) PROVE TokenInv'
  <2>1. row'.token = row.token /\ (row'.active => row.active)
    BY <1>3, ReleasedRowType DEF ReleaseTurn
  <2> QED
    BY <1>3, <2>1 DEF ReleaseTurn, WriterFree, ClaimedBy
<1>4. ASSUME NEW r \in Processes, HeartbeatStart(r) PROVE TokenInv'
  BY <1>4 DEF HeartbeatStart, ClaimedBy
<1>5. ASSUME NEW r \in Processes, HeartbeatRenew(r) PROVE TokenInv'
  BY <1>5 DEF HeartbeatRenew, ClaimedBy
<1>6. ASSUME NEW r \in Processes, CancelLost(r) PROVE TokenInv'
  <2>1. row'.token = row.token /\ (row'.active => row.active)
    BY <1>6, ReleasedRowType DEF CancelLost
  <2>2. \A s \in Processes : /\ tokens'[s] \in {tokens[s], None}
                             /\ claiming[s] # None => tokens'[s] = tokens[s]
    BY <1>6 DEF CancelLost, WriterFree
  <2> QED
    BY <1>6, <2>1, <2>2 DEF CancelLost, ClaimedBy
<1>14. ASSUME NEW r \in Processes, Abandon(r) \/ Resume(r) \/ CancelKept(r) PROVE TokenInv'
  BY <1>14 DEF Abandon, Resume, CancelKept, ClaimedBy
<1>7. ASSUME NEW r \in Processes, Write(r) PROVE TokenInv'
  BY <1>7 DEF Write, AssertOwner, Turn, ClaimedBy
<1>8. ASSUME NEW r \in Processes, Delete(r) PROVE TokenInv'
  BY <1>8 DEF Delete, ClaimedBy
<1>9. ASSUME NEW r \in Processes, ProcessCrash(r) PROVE TokenInv'
  BY <1>9 DEF ProcessCrash, ClaimedBy
<1>10. ASSUME NEW r \in Processes, Restart(r) PROVE TokenInv'
  BY <1>10 DEF Restart, ClaimedBy
<1>11. ASSUME NEW r \in Processes, Suspend(r) PROVE TokenInv'
  BY <1>11 DEF Suspend, ClaimedBy
<1>12. CASE Tick
  BY <1>12 DEF Tick, ClaimedBy
<1>13. CASE UNCHANGED leaseVars
  BY <1>13 DEF leaseVars, ClaimedBy
<1> QED
  BY <1>1, <1>2, <1>3, <1>4, <1>5, <1>6, <1>7, <1>8, <1>9, <1>10, <1>11, <1>12, <1>13, <1>14
     DEF LeaseNext, StepBy

(* Memory of a process that is down, and the order of its heartbeats. *)
LEMMA ProcessStep == ASSUME LeaseTypeOK, ProcessInv, [LeaseNext]_leaseVars PROVE ProcessInv'
<1> USE DEF LeaseTypeOK, ProcessInv, None
<1>1. ASSUME NEW r \in Processes, ClaimCommit(r) PROVE ProcessInv'
  BY <1>1 DEF ClaimCommit, WriterFree
<1>2. ASSUME NEW r \in Processes, ClaimInsert(r) PROVE ProcessInv'
  BY <1>2 DEF ClaimInsert
<1>3. ASSUME NEW r \in Processes, ReleaseTurn(r) PROVE ProcessInv'
  BY <1>3 DEF ReleaseTurn
<1>4. ASSUME NEW r \in Processes, HeartbeatStart(r) PROVE ProcessInv'
  BY <1>4 DEF HeartbeatStart
<1>5. ASSUME NEW r \in Processes, HeartbeatRenew(r) PROVE ProcessInv'
  BY <1>5 DEF HeartbeatRenew
<1>6. ASSUME NEW r \in Processes, CancelLost(r) PROVE ProcessInv'
  BY <1>6 DEF CancelLost
<1>13. ASSUME NEW r \in Processes, Abandon(r) \/ Resume(r) \/ CancelKept(r) PROVE ProcessInv'
  BY <1>13 DEF Abandon, Resume, CancelKept
<1>7. ASSUME NEW r \in Processes, Write(r) \/ Delete(r) PROVE ProcessInv'
  BY <1>7 DEF Write, Delete
<1>8. ASSUME NEW r \in Processes, ProcessCrash(r) PROVE ProcessInv'
  BY <1>8 DEF ProcessCrash
<1>9. ASSUME NEW r \in Processes, Restart(r) PROVE ProcessInv'
  BY <1>9 DEF Restart
<1>10. ASSUME NEW r \in Processes, Suspend(r) PROVE ProcessInv'
  BY <1>10 DEF Suspend
<1>11. CASE Tick
  BY <1>11 DEF Tick
<1>12. CASE UNCHANGED leaseVars
  BY <1>12 DEF leaseVars
<1> QED
  BY <1>1, <1>2, <1>3, <1>4, <1>5, <1>6, <1>7, <1>8, <1>9, <1>10, <1>11, <1>12, <1>13
     DEF LeaseNext, StepBy

(* No lease that its owner keeps falls more than three heartbeats behind. *)
LEMMA TimingStep ==
    ASSUME IInv, [LeaseNext]_leaseVars, LeaseTypeOK', TokenInv', NEW q \in Processes
    PROVE  OnTime(q)'
<1> USE TimingAssumption DEF IInv, LeaseTypeOK, None
<1>a. OnTime(q)
  BY DEF TimingInv
<1>b. /\ tokens[q] <= row.token
      /\ claiming[q] <= row.token
      /\ renewing[q] <= row.token
  <2>1. Len(claims) \in Nat /\ row.token = Len(claims)
    BY DEF TokenInv
  <2>2. /\ tokens[q] # None => tokens[q] \in 1..Len(claims)
        /\ claiming[q] # None => claiming[q] \in 1..Len(claims)
        /\ renewing[q] # None => renewing[q] \in 1..Len(claims)
    BY DEF TokenInv, ClaimedBy
  <2>3. tokens[q] \in Nat /\ claiming[q] \in Nat /\ renewing[q] \in Nat
    OBVIOUS
  <2> HIDE DEF IInv, LeaseTypeOK
  <2> QED
    BY <2>1, <2>2, <2>3
<1>c. ASSUME NEW s \in Processes, renewing[s] # None, row.token = renewing[s],
             tokens[q] = row.token \/ claiming[q] = row.token
      PROVE  s = q
  <2>1. claims[renewing[s]] = s
    BY <1>c DEF TokenInv, ClaimedBy
  <2>2. (tokens[q] # None => claims[tokens[q]] = q) /\ (claiming[q] # None => claims[claiming[q]] = q)
    BY DEF TokenInv, ClaimedBy
  <2> QED
    BY <1>c, <2>1, <2>2
<1>e. /\ clock \in Nat /\ beat[q] \in Nat /\ row.expires \in Nat /\ row.token \in Nat
      /\ LeaseDuration \in Nat /\ Heartbeat \in Nat
      /\ tokens[q] \in Nat /\ claiming[q] \in Nat /\ renewing[q] \in Nat /\ cancelling[q] \in Nat
  OBVIOUS
<1>d. /\ beat[q] <= clock
      /\ ~up[q] => tokens[q] = None /\ claiming[q] = None
      /\ cancelling[q] # None => renewing[q] = None
  BY DEF ProcessInv
<1> USE DEF OnTime, OwnsTurn, RowLeasedUnder, Keeping, Renewed
<1>1. ASSUME NEW r \in Processes, ClaimCommit(r) PROVE OnTime(q)'
  BY <1>1, <1>a, <1>b DEF ClaimCommit, WriterFree, LeaseExpiry
<1>2. ASSUME NEW r \in Processes, ClaimInsert(r) PROVE OnTime(q)'
  <2>1. CASE q # r
    BY <2>1, <1>2, <1>a DEF ClaimInsert
  <2>2. CASE q = r
    <3>1. tokens'[q] = claiming[q] /\ claiming'[q] = None /\ claiming[q] # None /\ up[q]
      BY <2>2, <1>2 DEF ClaimInsert
    <3>2. UNCHANGED <<row, renewing, cancelling, up, beat, clock, prompt>>
      BY <1>2 DEF ClaimInsert
    <3> HIDE DEF IInv, LeaseTypeOK
    <3> QED
      BY <3>1, <3>2, <1>a, <1>d, <1>e
  <2> QED
    BY <2>1, <2>2
<1>3. ASSUME NEW r \in Processes, ReleaseTurn(r) PROVE OnTime(q)'
  <2>1. /\ row'.token = row.token /\ row'.expires = row.expires
        /\ row'.exists = row.exists /\ (row'.active => row.active)
    <3>1. row' = row \/ row' = ReleasedRow(tokens[r])
      BY <1>3 DEF ReleaseTurn
    <3> QED
      BY <3>1, ReleasedRowType
  <2>2. tokens'[q] \in {tokens[q], None}
    BY <1>3 DEF ReleaseTurn
  <2>3. UNCHANGED <<claiming, renewing, cancelling, up, beat, clock, prompt>>
    BY <1>3 DEF ReleaseTurn
  <2> HIDE DEF IInv, LeaseTypeOK
  <2> QED
    BY <2>1, <2>2, <2>3, <1>a, <1>e
<1>4. ASSUME NEW r \in Processes, HeartbeatStart(r) PROVE OnTime(q)'
  <2>1. CASE q # r
    BY <2>1, <1>4, <1>a DEF HeartbeatStart
  <2>2. CASE q = r
    <3>1. /\ renewing[q] = None /\ beat'[q] = clock
          /\ renewing'[q] = IF cancelling[q] = None THEN tokens[q] ELSE None
      BY <2>2, <1>4 DEF HeartbeatStart
    <3>2. UNCHANGED <<row, tokens, claiming, cancelling, up, clock, prompt>>
      BY <1>4 DEF HeartbeatStart
    <3> HIDE DEF IInv, LeaseTypeOK
    <3> QED
      BY <3>1, <3>2, <1>a, <1>d, <1>e
  <2> QED
    BY <2>1, <2>2
<1>5. ASSUME NEW r \in Processes, HeartbeatRenew(r) PROVE OnTime(q)'
  <2>0. UNCHANGED <<tokens, claiming, up, beat, clock, prompt>>
    BY <1>5 DEF HeartbeatRenew
  <2>1. CASE q # r
    <3>1. renewing'[q] = renewing[q] /\ cancelling'[q] = cancelling[q]
      BY <2>1, <1>5 DEF HeartbeatRenew
    <3>2. \/ row' = row
          \/ tokens[q] # row.token /\ claiming[q] # row.token /\ row'.token = row.token
      BY <2>1, <1>5, <1>c DEF HeartbeatRenew
    <3> HIDE DEF IInv, LeaseTypeOK
    <3> QED
      BY <2>0, <3>1, <3>2, <1>a, <1>e
  <2>2. CASE q = r
    <3>1. renewing[q] # None /\ renewing'[q] = None /\ claiming[q] = None
      BY <2>2, <1>5 DEF HeartbeatRenew, WriterFree
    <3>2. CASE row' = [row EXCEPT !.expires = LeaseExpiry] /\ cancelling' = cancelling
               /\ row.token = renewing[q]
      <4>1. row'.expires = clock + LeaseDuration /\ row'.token = row.token
        BY <3>2 DEF LeaseExpiry
      <4> HIDE DEF IInv, LeaseTypeOK
      <4> QED
        BY <2>0, <3>1, <3>2, <4>1, <1>a, <1>d, <1>e
    <3>3. CASE row' = row /\ cancelling'[q] = renewing[q]
      <4> HIDE DEF IInv, LeaseTypeOK
      <4> QED
        BY <2>0, <3>1, <3>3, <1>a, <1>d, <1>e
    <3> QED
      BY <2>2, <1>5, <3>2, <3>3 DEF HeartbeatRenew
  <2> QED
    BY <2>1, <2>2
<1>6. ASSUME NEW r \in Processes, CancelLost(r) PROVE OnTime(q)'
  <2>1. /\ row'.token = row.token /\ row'.expires = row.expires
        /\ row'.exists = row.exists /\ (row'.active => row.active)
    <3>1. row' = row \/ row' = ReleasedRow(tokens[r])
      BY <1>6 DEF CancelLost
    <3> QED
      BY <3>1, ReleasedRowType
  <2>2. UNCHANGED <<claiming, renewing, up, beat, clock, prompt>>
    BY <1>6 DEF CancelLost
  <2>3. \/ tokens'[q] = None
        \/ tokens'[q] = tokens[q] /\ cancelling'[q] = cancelling[q]
    BY <1>6 DEF CancelLost
  <2> HIDE DEF IInv, LeaseTypeOK
  <2> QED
    BY <2>1, <2>2, <2>3, <1>a, <1>d, <1>e
<1>14. ASSUME NEW r \in Processes, Abandon(r) \/ Resume(r) PROVE OnTime(q)'
  BY <1>14, <1>a DEF Abandon, Resume
<1>15. ASSUME NEW r \in Processes, CancelKept(r) PROVE OnTime(q)'
  <2>1. UNCHANGED <<row, tokens, claiming, renewing, up, beat, clock>>
    BY <1>15 DEF CancelKept
  <2>2. \/ prompt'[q] = prompt[q] /\ cancelling'[q] = cancelling[q]
        \/ /\ cancelling[q] # None /\ cancelling'[q] = None
           /\ prompt'[q] => prompt[q] /\ tokens[q] # cancelling[q]
    BY <1>15 DEF CancelKept
  <2> HIDE DEF IInv, LeaseTypeOK
  <2> QED
    BY <2>1, <2>2, <1>a, <1>d, <1>e
<1>7. ASSUME NEW r \in Processes, Write(r) PROVE OnTime(q)'
  BY <1>7, <1>a DEF Write
<1>8. ASSUME NEW r \in Processes, Delete(r) PROVE OnTime(q)'
  BY <1>8, <1>a DEF Delete
<1>9. ASSUME NEW r \in Processes, ProcessCrash(r) PROVE OnTime(q)'
  BY <1>9, <1>a DEF ProcessCrash
<1>10. ASSUME NEW r \in Processes, Restart(r) PROVE OnTime(q)'
  BY <1>10, <1>a, <1>d DEF Restart
<1>11. ASSUME NEW r \in Processes, Suspend(r) PROVE OnTime(q)'
  BY <1>11, <1>a DEF Suspend
<1>12. CASE Tick
  BY <1>12, <1>a, <1>d DEF Tick
<1>13. CASE UNCHANGED leaseVars
  BY <1>13, <1>a DEF leaseVars
<1> QED
  BY <1>1, <1>2, <1>3, <1>4, <1>5, <1>6, <1>7, <1>8, <1>9, <1>10, <1>11, <1>12, <1>13, <1>14, <1>15
     DEF LeaseNext, StepBy

(* The inductive invariant of the lease protocol. *)
LEMMA Invariance == LeaseSpec => []IInv
<1>1. LeaseInit => IInv
  <2> SUFFICES ASSUME LeaseInit PROVE IInv
    OBVIOUS
  <2>1. LeaseTypeOK
    BY NobodyAssumption DEF LeaseInit, LeaseTypeOK, None
  <2>2. TokenInv /\ ProcessInv
    BY DEF LeaseInit, TokenInv, ProcessInv, None
  <2>3. TimingInv
    BY DEF LeaseInit, TimingInv, OnTime, OwnsTurn, RowLeasedUnder, None
  <2> QED
    BY <2>1, <2>2, <2>3 DEF IInv
<1>2. ASSUME IInv, [LeaseNext]_leaseVars PROVE IInv'
  <2>1. LeaseTypeOK' /\ TokenInv' /\ ProcessInv'
    BY <1>2, TypeStep, TokenStep, ProcessStep DEF IInv
  <2>2. TimingInv'
    BY <1>2, <2>1, TimingStep DEF TimingInv
  <2> QED
    BY <2>1, <2>2 DEF IInv
<1> QED
  BY <1>1, <1>2, PTL DEF LeaseSpec

(* At most one process holds a token the row accepts: its token is the     *)
(* latest claim, and a claim belongs to one process.                       *)
THEOREM SingleOwnerCorrect == LeaseSpec => []SingleOwner
<1>1. IInv => SingleOwner
  <2> SUFFICES ASSUME IInv, NEW r \in Processes, NEW s \in Processes, OwnsTurn(r), OwnsTurn(s)
               PROVE  r = s
    BY DEF SingleOwner
  <2>1. tokens[r] # None /\ tokens[s] # None /\ tokens[r] = tokens[s]
    BY DEF OwnsTurn, RowLeasedUnder
  <2>2. claims[tokens[r]] = r /\ claims[tokens[s]] = s
    BY <2>1 DEF IInv, TokenInv, ClaimedBy
  <2> QED
    BY <2>1, <2>2
<1> QED
  BY <1>1, Invariance, PTL

(* Every change of a session during a turn was made by the turn's owner. *)
THEOREM WritesFencedCorrect == LeaseSpec => []WritesFenced
<1>1. IInv => WritesFenced
  <2> SUFFICES ASSUME IInv, written.turn # None
               PROVE  written.turn <= Len(claims) /\ claims[written.turn] = written.by
    BY DEF WritesFenced
  <2>1. ClaimedBy(written.turn, written.by) /\ Len(claims) \in Nat /\ written.turn \in Nat
    BY DEF IInv, LeaseTypeOK, TokenInv
  <2> QED
    BY <2>1 DEF ClaimedBy
<1> QED
  BY <1>1, Invariance, PTL

(* A process on schedule never lets its lease become claimable. *)
LEMMA KeptLease == IInv => PromptOwnerKeepsLease
<1> SUFFICES ASSUME IInv, NEW r \in Processes, Keeping(r), OwnsTurn(r) PROVE ~LeaseClaimable
  BY DEF PromptOwnerKeepsLease
<1>1. Renewed(r)
  BY DEF IInv, TimingInv, OnTime
<1>2. /\ clock \in Nat /\ row.expires \in Nat /\ row.active
      /\ LeaseDuration \in Nat /\ Heartbeat \in Nat
  BY TimingAssumption DEF IInv, LeaseTypeOK, OwnsTurn, RowLeasedUnder
<1>3. clock <= row.expires - LeaseDuration + 3 * Heartbeat
  BY <1>1, <1>2 DEF Renewed
<1> QED
  BY <1>2, <1>3, TimingAssumption DEF LeaseClaimable

(* While a process runs on schedule and no renewal of its lease fails, no  *)
(* other process can claim its session.                                    *)
THEOREM PromptOwnerKeepsLeaseCorrect == LeaseSpec => []PromptOwnerKeepsLease
BY KeptLease, Invariance, PTL

-----------------------------------------------------------------------------
(* What each step does to the ownership of a process that has it. *)
LEMMA OwnershipStep ==
    ASSUME IInv, [LeaseNext]_leaseVars, NEW r \in Processes, OwnsTurn(r), tokens'[r] # None, row'.exists
    PROVE  OwnsTurn(r)' \/ LeaseClaimable
<1> USE DEF IInv, LeaseTypeOK, OwnsTurn, RowLeasedUnder, None
<1>1. ASSUME NEW s \in Processes, ClaimCommit(s) PROVE LeaseClaimable
  BY <1>1 DEF ClaimCommit
<1>2. ASSUME NEW s \in Processes, ClaimInsert(s) PROVE OwnsTurn(r)'
  <2>1. s # r
    <3>1. claiming[r] # None => /\ claiming[r] \in 1..Len(claims) /\ tokens[r] < claiming[r]
                                /\ row.token = Len(claims)
      BY DEF TokenInv, ClaimedBy
    <3>2. Len(claims) \in Nat /\ tokens[r] \in Nat
      OBVIOUS
    <3>3. claiming[r] = None
      BY <3>1, <3>2
    <3> QED
      BY <1>2, <3>3 DEF ClaimInsert
  <2> QED
    BY <1>2, <2>1 DEF ClaimInsert
<1>3. ASSUME NEW s \in Processes, tokens[s] = row.token, tokens[s] # None PROVE s = r
  <2>1. claims[tokens[s]] = s /\ claims[tokens[r]] = r
    BY <1>3 DEF TokenInv, ClaimedBy
  <2> QED
    BY <1>3, <2>1
<1>4. ASSUME NEW s \in Processes, tokens[s] # None, s # r PROVE ReleasedRow(tokens[s]) = row
  BY <1>3, <1>4 DEF ReleasedRow
<1>5. ASSUME NEW s \in Processes, ReleaseTurn(s) PROVE OwnsTurn(r)'
  BY <1>4, <1>5 DEF ReleaseTurn
<1>6. ASSUME NEW s \in Processes, HeartbeatStart(s) PROVE OwnsTurn(r)'
  BY <1>6 DEF HeartbeatStart
<1>7. ASSUME NEW s \in Processes, HeartbeatRenew(s) PROVE OwnsTurn(r)'
  BY <1>7 DEF HeartbeatRenew
<1>8. ASSUME NEW s \in Processes, CancelLost(s) PROVE OwnsTurn(r)'
  BY <1>4, <1>8 DEF CancelLost
<1>9. ASSUME NEW s \in Processes,
             \/ Abandon(s) \/ Resume(s) \/ CancelKept(s)
             \/ Write(s) \/ Restart(s) \/ Suspend(s)
      PROVE  OwnsTurn(r)'
  BY <1>9 DEF Abandon, Resume, CancelKept, Write, Restart, Suspend
<1>10. ASSUME NEW s \in Processes, Delete(s) PROVE FALSE
  BY <1>10 DEF Delete
<1>11. ASSUME NEW s \in Processes, ProcessCrash(s) PROVE OwnsTurn(r)'
  BY <1>11 DEF ProcessCrash
<1>12. CASE Tick
  BY <1>12 DEF Tick
<1>13. CASE UNCHANGED leaseVars
  BY <1>13 DEF leaseVars
<1> QED
  BY <1>1, <1>2, <1>5, <1>6, <1>7, <1>8, <1>9, <1>10, <1>11, <1>12, <1>13 DEF LeaseNext, StepBy

(* Ownership ends by an act of the owner or by an expiry it is to blame    *)
(* for, never by a step of another process against an owner on schedule.   *)
THEOREM OwnershipEndsByOwnerCorrect == LeaseSpec => OwnershipEndsByOwner
<1>1. ASSUME IInv, [LeaseNext]_leaseVars, NEW r \in Processes, OwnsTurn(r), ~OwnsTurn(r)'
      PROVE  tokens'[r] = None \/ ~row'.exists \/ (~Keeping(r) /\ row.expires < clock)
  <2> SUFFICES ASSUME tokens'[r] # None, row'.exists
               PROVE  ~Keeping(r) /\ row.expires < clock
    OBVIOUS
  <2>1. LeaseClaimable
    BY <1>1, OwnershipStep
  <2> QED
    BY <1>1, <2>1, KeptLease DEF PromptOwnerKeepsLease, LeaseClaimable, OwnsTurn, RowLeasedUnder
<1>2. IInv /\ [LeaseNext]_leaseVars => [\A r \in Processes :
          OwnsTurn(r) /\ ~OwnsTurn(r)' =>
              \/ tokens'[r] = None
              \/ ~row'.exists
              \/ ~Keeping(r) /\ row.expires < clock]_leaseVars
  BY <1>1
<1> QED
  BY <1>2, Invariance, PTL DEF LeaseSpec, OwnershipEndsByOwner

-----------------------------------------------------------------------------
(* A lease is extended only by a renewal of the process that claimed it:   *)
(* the UPDATE of renew_turn names a token, and tokens are claims.          *)
THEOREM RenewedByOwnerCorrect == LeaseSpec => RenewedByOwner
<1>1. ASSUME IInv, [LeaseNext]_leaseVars, row'.token = row.token, row'.expires # row.expires
      PROVE  \E r \in Processes : r = claims[row.token] /\ renewing[r] = row.token
  <2> USE DEF IInv, LeaseTypeOK, None
  <2>1. ASSUME NEW r \in Processes, HeartbeatRenew(r) PROVE renewing[r] # None /\ renewing[r] = row.token
    BY <1>1, <2>1 DEF HeartbeatRenew, RowLeasedUnder
  <2>2. ASSUME NEW r \in Processes, HeartbeatRenew(r) PROVE r = claims[row.token] /\ renewing[r] = row.token
    BY <1>1, <2>1, <2>2 DEF TokenInv, ClaimedBy
  <2>3. ASSUME NEW r \in Processes, ClaimCommit(r) PROVE FALSE
    BY <1>1, <2>3 DEF ClaimCommit
  <2>4. ASSUME NEW r \in Processes, ReleaseTurn(r) \/ CancelLost(r) PROVE FALSE
    <3>1. row' = row \/ row' = ReleasedRow(tokens[r])
      BY <2>4 DEF ReleaseTurn, CancelLost
    <3> QED
      BY <1>1, <3>1, ReleasedRowType
  <2>5. ASSUME NEW r \in Processes, Delete(r) PROVE FALSE
    BY <1>1, <2>5 DEF Delete
  <2>6. ASSUME NEW r \in Processes, \/ ClaimInsert(r) \/ HeartbeatStart(r) \/ Write(r)
                                  \/ Abandon(r) \/ Resume(r) \/ CancelKept(r)
                                  \/ ProcessCrash(r) \/ Restart(r) \/ Suspend(r)
        PROVE  FALSE
    BY <1>1, <2>6 DEF ClaimInsert, HeartbeatStart, Write, Abandon, Resume, CancelKept,
                               ProcessCrash, Restart, Suspend
  <2>7. ~Tick /\ ~UNCHANGED leaseVars
    BY <1>1 DEF Tick, leaseVars
  <2> QED
    BY <1>1, <2>2, <2>3, <2>4, <2>5, <2>6, <2>7 DEF LeaseNext, StepBy
<1>2. IInv /\ [LeaseNext]_leaseVars => [row'.token = row.token /\ row'.expires # row.expires =>
          \E r \in Processes : r = claims[row.token] /\ renewing[r] = row.token]_leaseVars
  BY <1>1
<1> QED
  BY <1>2, Invariance, PTL DEF LeaseSpec, RenewedByOwner

-----------------------------------------------------------------------------
(* A claim is a fresh epoch, a release or deletion of an active lease ends *)
(* the turn, a write is a change by the owner or of an idle session, and   *)
(* every other step leaves ownership as it is.                             *)
THEOREM ImplementsOwnershipCorrect == LeaseSpec => ImplementsOwnership
<1> USE DEF None
<1>1. LeaseInit => Ownership!Init
  BY DEF LeaseInit, Ownership!Init, Owner
<1>2. ASSUME IInv, [LeaseNext]_leaseVars PROVE [Ownership!Next]_(Ownership!vars)
  <2> USE DEF IInv, LeaseTypeOK, Ownership!vars, Owner
  <2>1. ASSUME NEW r \in Processes, ClaimCommit(r) PROVE Ownership!Begin(r)
    <3>1. row'.active /\ row'.token = row.token + 1 /\ claims' = Append(claims, r)
      BY <1>2, <2>1 DEF ClaimCommit
    <3>2. claims'[row'.token] = r
      BY <1>2, <3>1 DEF TokenInv
    <3>3. written' = written
      BY <2>1 DEF ClaimCommit
    <3> QED
      BY <3>1, <3>2, <3>3 DEF Ownership!Begin
  <2>2. ASSUME claims' = claims, written' = written, row'.token = row.token,
               row'.active = row.active \/ ~row'.active
        PROVE  Ownership!End \/ UNCHANGED Ownership!vars
    <3>1. row.active => claims[row.token] \in Processes
      BY <1>2 DEF TokenInv
    <3>2. row.active => claims[row.token] # Nobody
      BY <3>1, NobodyAssumption
    <3> QED
      BY <2>2, <3>2 DEF Ownership!End
  <2>3. ASSUME NEW r \in Processes, ReleaseTurn(r) PROVE Ownership!End \/ UNCHANGED Ownership!vars
    <3>1. /\ row'.token = row.token /\ (row'.active => row.active)
          /\ claims' = claims /\ written' = written
      BY <1>2, <2>3, ReleasedRowType DEF ReleaseTurn
    <3>2. row'.active \in BOOLEAN
      BY <1>2, TypeStep
    <3> QED
      BY <1>2, <2>2, <3>1, <3>2
  <2>4. ASSUME NEW r \in Processes, CancelLost(r) PROVE Ownership!End \/ UNCHANGED Ownership!vars
    <3>1. row' = row \/ row' = ReleasedRow(tokens[r])
      BY <2>4 DEF CancelLost
    <3>2. /\ row'.token = row.token /\ (row'.active => row.active)
          /\ claims' = claims /\ written' = written
      BY <1>2, <2>4, <3>1, ReleasedRowType DEF CancelLost
    <3> QED
      BY <1>2, <2>2, <3>2, TypeStep
  <2>5. ASSUME NEW r \in Processes, Delete(r) PROVE Ownership!End \/ UNCHANGED Ownership!vars
    <3>1. /\ row'.token = row.token /\ ~row'.active
          /\ claims' = claims /\ written' = written
      BY <1>2, <2>5 DEF Delete
    <3> QED
      BY <2>2, <3>1
  <2>6. ASSUME NEW r \in Processes, HeartbeatRenew(r) PROVE UNCHANGED Ownership!vars
    BY <1>2, <2>6 DEF HeartbeatRenew
  <2>7. ASSUME NEW r \in Processes, Write(r) PROVE Ownership!Change(r)
    <3>1. row.active => tokens[r] # None /\ tokens[r] = row.token
      BY <2>7 DEF Write, AssertOwner
    <3>2. row.active => claims[row.token] = r
      BY <1>2, <3>1 DEF TokenInv, ClaimedBy
    <3>3. written' = [by |-> r, turn |-> IF row.active THEN row.token ELSE 0]
          /\ row' = row /\ claims' = claims
      BY <2>7 DEF Write, Turn
    <3>4. r # Nobody
      BY NobodyAssumption
    <3> QED
      BY <3>2, <3>3, <3>4 DEF Ownership!Change
  <2>8. ASSUME NEW r \in Processes,
               \/ ClaimInsert(r) \/ HeartbeatStart(r) \/ Abandon(r) \/ Resume(r)
               \/ CancelKept(r) \/ ProcessCrash(r) \/ Restart(r) \/ Suspend(r)
        PROVE  UNCHANGED Ownership!vars
    BY <2>8 DEF ClaimInsert, HeartbeatStart, Abandon, Resume, CancelKept, ProcessCrash, Restart, Suspend
  <2>9. CASE Tick \/ UNCHANGED leaseVars
    BY <2>9 DEF Tick, leaseVars
  <2> QED
    BY <1>2, <2>1, <2>3, <2>4, <2>5, <2>6, <2>7, <2>8, <2>9 DEF LeaseNext, StepBy, Ownership!Next
<1> QED
  BY <1>1, <1>2, Invariance, PTL DEF LeaseSpec, ImplementsOwnership, Ownership!Spec

=============================================================================
