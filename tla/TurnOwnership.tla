--------------------------- MODULE TurnOwnership ---------------------------
(***************************************************************************)
(* What the lease table of kraai-persistence promises the rest of the      *)
(* system, without tokens, clocks or processes: a session's turn has at    *)
(* most one owner, ownership passes in numbered epochs, and while a turn   *)
(* is owned only its owner changes the session.                            *)
(***************************************************************************)
EXTENDS Naturals

CONSTANTS
    Processes,   \* the processes that open the same database
    Nobody       \* the session is idle

VARIABLES
    owner,      \* the runtime whose turn it is, or NoOne
    epoch,      \* how many turns have been claimed
    written     \* the last change of the session: who made it, in which turn (0: idle)

vars == <<owner, epoch, written>>

Init ==
    /\ owner = Nobody
    /\ epoch = 0
    /\ written = [by |-> Nobody, turn |-> 0]

(* A turn begins in a fresh epoch, on an idle session or in place of an    *)
(* owner whose lease ran out.                                              *)
Begin(r) ==
    /\ owner' = r
    /\ epoch' = epoch + 1
    /\ UNCHANGED written

End ==
    /\ owner # Nobody
    /\ owner' = Nobody
    /\ UNCHANGED <<epoch, written>>

Change(r) ==
    /\ owner \in {Nobody, r}
    /\ written' = [by |-> r, turn |-> IF owner = r THEN epoch ELSE 0]
    /\ UNCHANGED <<owner, epoch>>

Next ==
    \/ \E r \in Processes : Begin(r) \/ Change(r)
    \/ End

Spec == Init /\ [][Next]_vars

=============================================================================
