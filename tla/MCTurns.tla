------------------------------ MODULE MCTurns ------------------------------
(***************************************************************************)
(* What must happen in the end, in one run: the turn lease (TurnLease,     *)
(* which this module extends) and the durable deltas of a streaming        *)
(* response (StreamDeltas).  They share nothing: a behaviour runs the      *)
(* component `part` names, while the other stays in its initial state and  *)
(* owes no step.                                                           *)
(*                                                                         *)
(* Only processes off schedule lose a lease, so time passes only for those *)
(* (Heartbeat is 0), and one tick is enough for a lease to run out         *)
(* (LeaseDuration is 0).                                                   *)
(***************************************************************************)
EXTENDS TurnLease

CONSTANT Unreadable

VARIABLE part

\* StreamDeltas
VARIABLES
    live, owned, message, itemIndex, pending, first, sealed, batch, cancellation, deltasRow, rows,
    answered, versions

Response == INSTANCE StreamDeltas WITH
    ItemIds <- {"i1", "i2"}, Phases <- {"commentary", "final"}, Calls <- {"c1"},
    Reasoning <- "reasoning", CancelFaults <- FALSE, MaxChanges <- 2,
    cancelling <- cancellation, row <- deltasRow

deltasVars == <<live, owned, message, itemIndex, pending, first, sealed, batch, cancellation,
                deltasRow, rows, answered, versions>>
allVars == <<part, leaseVars, deltasVars>>

SuiteInit == part \in {"lease", "deltas"} /\ LeaseInit /\ Response!DeltasInit

InLease(step) == part = "lease" /\ step /\ UNCHANGED <<part, deltasVars>>
Deltas(step) == part = "deltas" /\ step /\ UNCHANGED <<part, leaseVars>>

(* Leases whose bounds are used up may rest. *)
Rest == part = "lease" /\ UNCHANGED allVars

SuiteNext == InLease(LeaseNext) \/ Deltas(Response!DeltasNext) \/ Rest

(* The fairness of each component, of its own steps. *)
SuiteFairness ==
    /\ WF_allVars(Deltas(Response!PublishSeal)) /\ SF_allVars(Deltas(Response!PublishCommit))
    /\ WF_allVars(Deltas(Response!PublishFail)) /\ WF_allVars(Deltas(Response!PublishDrain))
    /\ WF_allVars(Deltas(Response!CancelAnswer)) /\ WF_allVars(Deltas(Response!CancelComplete))
    /\ \A r \in Processes :
          /\ WF_allVars(InLease(ClaimInsert(r)))
          /\ WF_allVars(InLease(HeartbeatStart(r)))
          /\ WF_allVars(InLease(HeartbeatRenew(r)))
          /\ WF_allVars(InLease(CancelLost(r) \/ CancelKept(r)))
          /\ SF_allVars(InLease(CancelLost(r)))

SuiteSpec == SuiteInit /\ [][SuiteNext]_allVars /\ SuiteFairness

-----------------------------------------------------------------------------
(* Every recorded change of a streaming response becomes durable. *)
PublishedEventually == Response!PublishedEventually
=============================================================================
