---------------------------- MODULE StreamDeltas ----------------------------
(***************************************************************************)
(* One streaming assistant message: the copy its runtime builds in memory  *)
(* from provider events (StreamingMessageState), the deltas it publishes   *)
(* every 250 ms, and the durable record from which another process, or the *)
(* next owner after a crash, reads the message (read_message).             *)
(*                                                                         *)
(* Publication is three steps (seal and copy the pending deltas, the       *)
(* transaction, drain what was written); provider events may be recorded   *)
(* between any two of them, because only the methods that remove the       *)
(* message hold the streaming_persistence lock.  The transaction may fail, *)
(* or commit and still be reported as failed, and is then repeated.        *)
(*                                                                         *)
(* Recorded changes are numbered; the text of a chunk is its number.       *)
(***************************************************************************)
EXTENDS Integers, FiniteSets, SequencesExt, SequenceTheorems, FiniteSetTheorems, TLAPS

CONSTANTS
    ItemIds,        \* text item ids a provider uses
    Phases,         \* AssistantPhase of a text item
    Calls,          \* script call ids
    Reasoning,      \* tag of a reasoning item
    Unreadable,     \* the message when replaying its deltas fails
    CancelFaults,   \* a failed cancellation may leave changes pending or its result linked
    MaxChanges      \* bound: provider events recorded

ASSUME TagAssumption ==
    /\ Reasoning \notin Phases \cup Calls
    /\ Phases \cap Calls = {}
    /\ CancelFaults \in BOOLEAN
    /\ MaxChanges \in Nat

VARIABLES
    live,        \* streaming_messages holds the message
    owned,       \* the runtime still holds the session's lease
    message,     \* content in memory
    itemIndex,   \* text_item_ids: position of each text item, 0 when unknown
    pending,     \* pending_deltas
    first,       \* first_pending_sequence
    sealed,      \* sealed_deltas
    batch,       \* deltas copied by publish_streaming_snapshots, and what became of them
    cancelling,  \* stage of cancel_streaming_message
    row,         \* durable record: status and items
    rows,        \* durable stream_deltas, by sequence number
    answered,    \* the result of a cancelled call is linked after the message
    versions     \* history: the message after each recorded change

memory == <<live, message, itemIndex, pending, first, sealed>>
durable == <<row, rows, answered>>
deltasVars == <<memory, owned, batch, cancelling, durable, versions>>

Empty == [items |-> <<>>, usage |-> 0]
NoRows == [s \in {} |-> Empty]
NoBatch == [stage |-> "none", first |-> 0, deltas |-> <<>>]

Changes == Len(versions) - 1

-----------------------------------------------------------------------------
(* StreamDelta: what the change does, where, and the changes merged in it. *)
Text(index, phase, parts) == [op |-> "text", index |-> index, tag |-> phase, parts |-> parts]
Item(tag, parts) == [op |-> "item", index |-> 0, tag |-> tag, parts |-> parts]
Usage(parts) == [op |-> "usage", index |-> 0, tag |-> Reasoning, parts |-> parts]
ResetDelta(parts) == [op |-> "reset", index |-> 0, tag |-> Reasoning, parts |-> parts]

(* push_str on the text item at index. *)
Extended(item, parts) == [tag |-> item.tag, parts |-> item.parts \o parts]
ExtendedAt(items, index, parts) == [items EXCEPT ![index] = Extended(items[index], parts)]

(* StreamDelta::apply; a delta that does not fit makes the message unreadable. *)
Apply(m, d) ==
    IF m = Unreadable THEN Unreadable
    ELSE CASE d.op = "usage" -> [m EXCEPT !.usage = Last(d.parts)]
           [] d.op = "reset" -> [m EXCEPT !.items = <<>>]
           [] d.op = "item" -> [m EXCEPT !.items = Append(@, [tag |-> d.tag, parts |-> d.parts])]
           [] d.op = "text" /\ d.index = Len(m.items) + 1 ->
                 [m EXCEPT !.items = Append(@, [tag |-> d.tag, parts |-> d.parts])]
           [] d.op = "text" /\ d.index \in DOMAIN m.items /\ m.items[d.index].tag = d.tag ->
                 [m EXCEPT !.items = ExtendedAt(@, d.index, d.parts)]
           [] OTHER -> Unreadable

(* StreamDelta::coalesce: both append to the same text item. *)
Merges(last, next) ==
    /\ last.op = "text" /\ next.op = "text"
    /\ last.index = next.index
    /\ last.tag = next.tag

Merge(last, next) == [last EXCEPT !.parts = @ \o next.parts]

(* Variant: sealed deltas are merged into like any other. *)
QueuedIgnoringSeal(d) ==
    IF pending # <<>> /\ Merges(Last(pending), d)
    THEN [pending EXCEPT ![Len(pending)] = Merge(@, d)]
    ELSE Append(pending, d)

(* queue_delta: only a delta that no publication has copied is merged into. *)
Queued(d) ==
    IF Len(pending) > sealed /\ Merges(Last(pending), d)
    THEN [pending EXCEPT ![Len(pending)] = Merge(@, d)]
    ELSE Append(pending, d)

(* ORDER BY sequence *)
Nth(numbers, i) == CHOOSE s \in numbers : Cardinality({t \in numbers : t <= s}) = i

(* The deltas applied to the record's items, one after the other. *)
Replayed(content, deltas) ==
    LET count == Cardinality(DOMAIN deltas)
        after[i \in 0..count] ==
            IF i = 0 THEN content ELSE Apply(after[i - 1], deltas[Nth(DOMAIN deltas, i)])
    IN  after[count]

(* read_message: the record's items, and while it is streaming its deltas  *)
(* in the order of their sequence numbers.                                 *)
Replay == IF row.status = "streaming" THEN Replayed(row.content, rows) ELSE row.content

DeltasInit ==
    /\ live = TRUE
    /\ owned = TRUE
    /\ message = Empty
    /\ itemIndex = [i \in ItemIds |-> 0]
    /\ pending = <<>>
    /\ first = 0
    /\ sealed = 0
    /\ batch = NoBatch
    /\ cancelling = "no"
    /\ row = [status |-> "streaming", content |-> Empty]
    /\ rows = NoRows
    /\ answered = FALSE
    /\ versions = <<Empty>>

-----------------------------------------------------------------------------
(* The streaming_persistence lock: held by a publication and by the        *)
(* methods that take the message out of streaming_messages.                *)
LockFree == batch.stage = "none" /\ cancelling = "no"

(* The actor handles provider events; while it cancels it handles none. *)
Recording == live /\ cancelling = "no" /\ Changes < MaxChanges

(* StreamingMessageState::record: a delta that does not apply is refused. *)
Record(d) ==
    /\ Apply(message, d) # Unreadable
    /\ message' = Apply(message, d)
    /\ pending' = Queued(d)
    /\ versions' = Append(versions, message')
    /\ UNCHANGED <<live, first, sealed, owned, batch, cancelling, durable>>

(* append_text_chunk *)
AppendText(id, phase) ==
    /\ Recording
    /\ LET index == IF itemIndex[id] = 0 THEN Len(message.items) + 1 ELSE itemIndex[id]
       IN  /\ itemIndex' = [itemIndex EXCEPT ![id] = index]
           /\ Record(Text(index, phase, <<Len(versions)>>))

(* append_script_call drops a call it already has; append_reasoning never. *)
AppendItem(tag) ==
    /\ Recording
    /\ tag \in Calls => \A i \in DOMAIN message.items : message.items[i].tag # tag
    /\ Record(Item(tag, <<Len(versions)>>))
    /\ UNCHANGED itemIndex

(* set_streaming_message_usage *)
SetUsage ==
    /\ Recording
    /\ Record(Usage(<<Len(versions)>>))
    /\ UNCHANGED itemIndex

(* reset_streaming_message: the request failed and is issued again. *)
ResetMessage ==
    /\ Recording
    /\ Record(ResetDelta(<<Len(versions)>>))
    /\ itemIndex' = [i \in ItemIds |-> 0]

(* publish_streaming_snapshots takes the lock, seals the pending deltas and *)
(* copies them.                                                            *)
PublishSeal ==
    /\ live
    /\ LockFree
    /\ pending # <<>>
    /\ sealed' = Len(pending)
    /\ batch' = [stage |-> "copied", first |-> first, deltas |-> pending]
    /\ UNCHANGED <<live, message, itemIndex, pending, first, owned, cancelling, durable, versions>>

(* append_stream_deltas: INSERT OR IGNORE under consecutive numbers. *)
Inserted(b) ==
    [s \in DOMAIN rows \cup (b.first .. b.first + Len(b.deltas) - 1) |->
        IF s \in DOMAIN rows THEN rows[s] ELSE b.deltas[s - b.first + 1]]

(* The transaction commits, if the lease and the message are still there; *)
(* the caller may be told otherwise.                                       *)
PublishCommit ==
    /\ batch.stage = "copied"
    /\ owned
    /\ row.status # "gone"
    /\ rows' = Inserted(batch)
    /\ \E acknowledged \in BOOLEAN :
          batch' = IF acknowledged THEN [batch EXCEPT !.stage = "written"] ELSE NoBatch
    /\ UNCHANGED <<memory, owned, cancelling, row, answered, versions>>

(* The transaction fails; the deltas stay pending, and sealed. *)
PublishFail ==
    /\ batch.stage = "copied"
    /\ batch' = NoBatch
    /\ UNCHANGED <<memory, owned, cancelling, durable, versions>>

(* Variant: the next batch is numbered as if one delta less were written. *)
PublishDrainShort ==
    /\ batch.stage = "written"
    /\ pending' = SubSeq(pending, Len(batch.deltas) + 1, Len(pending))
    /\ first' = first + Len(batch.deltas) - 1
    /\ sealed' = 0
    /\ batch' = NoBatch
    /\ UNCHANGED <<live, message, itemIndex, owned, cancelling, durable, versions>>

(* Variant: the drained deltas are still counted as sealed. *)
PublishDrainSealed ==
    /\ batch.stage = "written"
    /\ pending' = SubSeq(pending, Len(batch.deltas) + 1, Len(pending))
    /\ first' = first + Len(batch.deltas)
    /\ batch' = NoBatch
    /\ UNCHANGED <<live, message, itemIndex, sealed, owned, cancelling, durable, versions>>

(* What was written is no longer pending. *)
PublishDrain ==
    /\ batch.stage = "written"
    /\ pending' = SubSeq(pending, Len(batch.deltas) + 1, Len(pending))
    /\ first' = first + Len(batch.deltas)
    /\ sealed' = 0
    /\ batch' = NoBatch
    /\ UNCHANGED <<live, message, itemIndex, owned, cancelling, durable, versions>>

-----------------------------------------------------------------------------
(* The in-memory copy is dropped. *)
Forgotten ==
    /\ live' = FALSE
    /\ message' = Empty
    /\ itemIndex' = [i \in ItemIds |-> 0]
    /\ pending' = <<>>
    /\ first' = 0
    /\ sealed' = 0

(* Variant: only the status is written, but the deltas are cleared. *)
SavedStatus(status) ==
    /\ row' = [row EXCEPT !.status = status]
    /\ rows' = NoRows

(* write_message_record: the whole message replaces the record and deltas. *)
SavedAs(status) ==
    /\ row' = [status |-> status, content |-> message]
    /\ rows' = NoRows

(* complete_message; a failing save puts the copy back. *)
CompleteMessage ==
    /\ live /\ owned /\ LockFree
    /\ row.status # "gone"
    /\ SavedAs("complete")
    /\ Forgotten
    /\ UNCHANGED <<owned, batch, cancelling, answered, versions>>

HasCall == \E i \in DOMAIN message.items : message.items[i].tag \in Calls
OnlyReasoning == \A i \in DOMAIN message.items : message.items[i].tag = Reasoning

(* abort_streaming_message, and cancel_streaming_message when there is     *)
(* nothing but reasoning to keep: the tip is restored, the record deleted. *)
Abort ==
    /\ live /\ owned /\ LockFree
    /\ row.status = "streaming"
    /\ ~answered
    /\ row' = [status |-> "gone", content |-> Empty]
    /\ rows' = NoRows
    /\ Forgotten
    /\ UNCHANGED <<owned, batch, cancelling, answered, versions>>

(* Variant: the message is not saved before its cancelled result. *)
CancelSaveSkipped ==
    /\ live /\ owned /\ LockFree
    /\ row.status = "streaming"
    /\ HasCall
    /\ cancelling' = "saved"
    /\ UNCHANGED <<memory, owned, batch, durable, versions>>

(* cancel_streaming_message of a response with a script call: the message  *)
(* is saved, still streaming, so that the result can be linked after it.   *)
CancelSave ==
    /\ live /\ owned /\ LockFree
    /\ row.status = "streaming"
    /\ HasCall
    /\ SavedAs("streaming")
    /\ cancelling' = "saved"
    /\ UNCHANGED <<memory, owned, batch, answered, versions>>

(* append_message_idempotent of the cancelled result. *)
CancelAnswer ==
    /\ cancelling = "saved"
    /\ owned
    /\ row.status = "streaming"
    /\ answered' = TRUE
    /\ cancelling' = "answered"
    /\ UNCHANGED <<memory, owned, batch, row, rows, versions>>

(* The last save of a cancellation, at once when there is no call. *)
CancelComplete ==
    /\ live /\ owned
    /\ row.status = "streaming"
    /\ \/ cancelling = "answered"
       \/ LockFree /\ ~HasCall /\ ~OnlyReasoning
    /\ SavedAs("complete")
    /\ cancelling' = "no"
    /\ Forgotten
    /\ UNCHANGED <<owned, batch, answered, versions>>

(* A step of the cancellation fails while the lease is held: the copy goes *)
(* back and the stream continues, so that cancelling can be tried again.   *)
CancelFail ==
    /\ CancelFaults \/ (pending = <<>> /\ cancelling = "saved")
    /\ cancelling # "no"
    /\ owned
    /\ cancelling' = "no"
    /\ UNCHANGED <<memory, owned, batch, durable, versions>>

(* The lease is lost to another process. *)
LoseLease ==
    /\ owned
    /\ owned' = FALSE
    /\ UNCHANGED <<memory, batch, cancelling, durable, versions>>

(* A runtime that finds out ends the turn: discard_streaming_state. *)
Discard ==
    /\ live /\ ~owned
    /\ batch.stage = "none"
    /\ cancelling' = "no"
    /\ Forgotten
    /\ UNCHANGED <<owned, batch, durable, versions>>

(* The process ends at any point. *)
OwnerCrash ==
    /\ live
    /\ owned' = FALSE
    /\ batch' = NoBatch
    /\ cancelling' = "no"
    /\ Forgotten
    /\ UNCHANGED <<durable, versions>>

(* recover_interrupted_stream of the next owner: a response whose call was *)
(* answered is kept as read, any other is rolled back.                     *)
Recover ==
    /\ ~owned
    /\ row.status = "streaming"
    /\ row' = IF answered THEN [status |-> "complete", content |-> Replay]
                          ELSE [status |-> "gone", content |-> Empty]
    /\ rows' = NoRows
    /\ UNCHANGED <<memory, owned, batch, cancelling, answered, versions>>

(* The message has its final form and no one streams it any more. *)
Ended ==
    /\ ~live
    /\ row.status # "streaming"
    /\ UNCHANGED deltasVars

DeltasNext ==
    \/ \E id \in ItemIds, phase \in Phases : AppendText(id, phase)
    \/ \E tag \in Calls \cup {Reasoning} : AppendItem(tag)
    \/ SetUsage
    \/ ResetMessage
    \/ PublishSeal
    \/ PublishCommit
    \/ PublishFail
    \/ PublishDrain
    \/ CompleteMessage
    \/ Abort
    \/ CancelSave
    \/ CancelAnswer
    \/ CancelComplete
    \/ CancelFail
    \/ LoseLease
    \/ Discard
    \/ OwnerCrash
    \/ Recover
    \/ Ended

DeltasSpec == DeltasInit /\ [][DeltasNext]_deltasVars

(* The publisher runs every 250 ms, a step under the lock is not starved,  *)
(* and the database does not refuse every publication forever.             *)
Fairness ==
    /\ WF_deltasVars(PublishSeal)
    /\ SF_deltasVars(PublishCommit)
    /\ WF_deltasVars(PublishFail)
    /\ WF_deltasVars(PublishDrain)
    /\ WF_deltasVars(CancelAnswer)
    /\ WF_deltasVars(CancelComplete)

FairSpec == DeltasSpec /\ Fairness

-----------------------------------------------------------------------------
DeltaType ==
    [op : {"text", "item", "usage", "reset"}, index : Nat,
     tag : Phases \cup Calls \cup {Reasoning}, parts : Seq(Nat) \ {<<>>}]

ContentType ==
    [items : Seq([tag : Phases \cup Calls \cup {Reasoning}, parts : Seq(Nat)]), usage : Nat]

DeltasTypeOK ==
    /\ live \in BOOLEAN
    /\ owned \in BOOLEAN
    /\ message \in ContentType
    /\ itemIndex \in [ItemIds -> Nat]
    /\ pending \in Seq(DeltaType)
    /\ first \in Nat
    /\ sealed \in 0..Len(pending)
    /\ batch \in [stage : {"none", "copied", "written"}, first : Nat, deltas : Seq(DeltaType)]
    /\ cancelling \in {"no", "saved", "answered"}
    /\ row.status \in {"streaming", "complete", "gone"}
    /\ row.status # "complete" => row.content \in ContentType
    /\ DOMAIN rows \subseteq Nat
    /\ \A s \in DOMAIN rows : rows[s] \in DeltaType
    /\ answered \in BOOLEAN
    /\ versions \in Seq(ContentType)

(* Whoever reads the durable message, at any moment and after any failure, *)
(* sees the response exactly as it was after some recorded change: no      *)
(* chunk is missing in the middle, none is applied twice, none is applied  *)
(* to the wrong item (read_message, append_stream_deltas, queue_delta).    *)
ReplayIsRecorded ==
    row.status # "gone" => \E k \in DOMAIN versions : Replay = versions[k]

(* A stored delta that is sent again is the delta already stored under its *)
(* number, so that INSERT OR IGNORE loses nothing: a delta copied by a     *)
(* publication is not merged into before its fate is known.                *)
ResendAgrees ==
    \A s \in DOMAIN rows :
        live /\ s >= first => /\ s - first < Len(pending)
                              /\ rows[s] = pending[s - first + 1]

(* What another process has seen of a response does not disappear again:   *)
(* the durable message only moves on to later changes until it is rolled   *)
(* back.                                                                   *)
DurableMovesOn ==
    [][row.status = "streaming" /\ row'.status # "gone" =>
          \E k \in DOMAIN versions, j \in DOMAIN versions' :
              k <= j /\ versions[k] = Replay /\ versions'[j] = Replay']_deltasVars

(* A response that ends up complete, be it completed, cancelled, or        *)
(* recovered by another process in the middle of its cancellation, has     *)
(* everything that was recorded of it.                                     *)
CompleteKeepsAll ==
    row.status = "complete" => Replay = Last(versions)

(* A reader of the durable message sees the response as it was after some  *)
(* change (read_message), all of it once it is complete, and a batch whose *)
(* acknowledgement was lost is sent again as it is stored.                 *)
DeltasReplayed == ReplayIsRecorded /\ CompleteKeepsAll /\ ResendAgrees

(* Every recorded change becomes durable while the runtime streams: the    *)
(* publication reaches it, however often the database refuses.             *)
PublishedEventually ==
    \A k \in 1..MaxChanges :
        Changes >= k ~> \/ row.status # "streaming"
                        \/ ~live \/ ~owned
                        \/ \E j \in DOMAIN versions : j > k /\ Replay = versions[j]

-----------------------------------------------------------------------------
(* Proofs, for any providers, item ids and failures: a delta that is       *)
(* published again is the one already stored.                              *)

(* What a publication in flight copied is still at the head of the pending *)
(* deltas, and no stored delta lies beyond the sealed ones.                *)
BatchInv ==
    batch.stage # "none" =>
        /\ live
        /\ cancelling = "no"
        /\ batch.first = first
        /\ Len(batch.deltas) = sealed
        /\ \A i \in 1..sealed : batch.deltas[i] = pending[i]

SealInv ==
    live => \A s \in DOMAIN rows :
                /\ s < first + sealed
                /\ s >= first => rows[s] = pending[s - first + 1]

IInv == DeltasTypeOK /\ BatchInv /\ SealInv

Tags == Phases \cup Calls \cup {Reasoning}

-----------------------------------------------------------------------------
(* Deltas built from a change number are well typed. *)
LEMMA DeltaTypes ==
    ASSUME NEW n \in Nat
    PROVE  /\ \A index \in Nat, tag \in Tags : Text(index, tag, <<n>>) \in DeltaType
           /\ \A tag \in Tags : Item(tag, <<n>>) \in DeltaType
           /\ Usage(<<n>>) \in DeltaType
           /\ ResetDelta(<<n>>) \in DeltaType
BY DEF Text, Item, Usage, ResetDelta, DeltaType, Tags

(* The last change merged into a delta is a change number. *)
LEMMA LastPart ==
    ASSUME NEW parts \in Seq(Nat) \ {<<>>}
    PROVE  Last(parts) \in Nat
BY DEF Last

(* Applying a delta to a message gives a message, or fails. *)
LEMMA ApplyType ==
    ASSUME NEW m \in ContentType, NEW d \in DeltaType, Apply(m, d) # Unreadable
    PROVE  Apply(m, d) \in ContentType
<1>1. Last(d.parts) \in Nat
  BY LastPart DEF DeltaType
<1>2. [tag |-> d.tag, parts |-> d.parts] \in [tag : Tags, parts : Seq(Nat)]
  BY DEF DeltaType, Tags
<1>3. Append(m.items, [tag |-> d.tag, parts |-> d.parts]) \in Seq([tag : Tags, parts : Seq(Nat)])
  BY <1>2 DEF ContentType, Tags
<1>4. <<>> \in Seq([tag : Tags, parts : Seq(Nat)])
  OBVIOUS
<1>5. ASSUME d.index \in DOMAIN m.items
      PROVE  ExtendedAt(m.items, d.index, d.parts) \in Seq([tag : Tags, parts : Seq(Nat)])
  <2>1. m.items \in Seq([tag : Tags, parts : Seq(Nat)])
    BY DEF ContentType, Tags
  <2>2. m.items[d.index] \in [tag : Tags, parts : Seq(Nat)]
    <3>1. d.index \in 1..Len(m.items)
      BY <1>5, <2>1
    <3> QED
      BY <2>1, <3>1, ElementOfSeq
  <2>3. d.parts \in Seq(Nat)
    BY DEF DeltaType
  <2>4. m.items[d.index].tag \in Tags /\ m.items[d.index].parts \in Seq(Nat)
    BY <2>2
  <2>5. m.items[d.index].parts \o d.parts \in Seq(Nat)
    BY <2>3, <2>4
  <2>6. Extended(m.items[d.index], d.parts) \in [tag : Tags, parts : Seq(Nat)]
    BY <2>4, <2>5 DEF Extended
  <2> QED
    BY <1>5, <2>1, <2>6, ExceptSeq DEF ExtendedAt
<1>6. m.items \in Seq([tag : Tags, parts : Seq(Nat)]) /\ m.usage \in Nat
  BY DEF ContentType, Tags
<1>7. \A items \in Seq([tag : Tags, parts : Seq(Nat)]) : [m EXCEPT !.items = items] \in ContentType
  BY DEF ContentType, Tags
<1>8. m # Unreadable
  <2> SUFFICES ASSUME m = Unreadable PROVE FALSE
    OBVIOUS
  <2>1. Apply(m, d) = Unreadable
    BY DEF Apply
  <2> QED
    BY <2>1
<1>9. d.op \in {"text", "item", "usage", "reset"}
  BY DEF DeltaType
<1>10. CASE d.op = "usage"
  <2>1. Apply(m, d) = [m EXCEPT !.usage = Last(d.parts)]
    BY <1>8, <1>10 DEF Apply
  <2> QED
    BY <1>1, <2>1 DEF ContentType
<1>11. CASE d.op = "reset"
  <2>1. Apply(m, d) = [m EXCEPT !.items = <<>>]
    BY <1>8, <1>11 DEF Apply
  <2> QED
    BY <1>4, <1>7, <2>1
<1>12. CASE d.op = "item" \/ (d.op = "text" /\ d.index = Len(m.items) + 1)
  <2>1. Apply(m, d) = [m EXCEPT !.items = Append(m.items, [tag |-> d.tag, parts |-> d.parts])]
    BY <1>8, <1>12 DEF Apply
  <2> QED
    BY <1>3, <1>7, <2>1
<1>13. CASE d.op = "text" /\ d.index # Len(m.items) + 1
  <2>1. d.index \in DOMAIN m.items /\ m.items[d.index].tag = d.tag
    <3> SUFFICES ASSUME ~(d.index \in DOMAIN m.items /\ m.items[d.index].tag = d.tag)
                 PROVE  FALSE
      OBVIOUS
    <3>1. Apply(m, d) = Unreadable
      BY <1>8, <1>13 DEF Apply
    <3> QED
      BY <3>1
  <2>2. Apply(m, d) = [m EXCEPT !.items = ExtendedAt(m.items, d.index, d.parts)]
    BY <1>8, <1>13, <2>1 DEF Apply
  <2> QED
    BY <1>5, <1>7, <2>1, <2>2
<1> QED
  BY <1>9, <1>10, <1>11, <1>12, <1>13

(* Merging keeps the kind of a delta and its type. *)
LEMMA MergeType ==
    ASSUME NEW d \in DeltaType, NEW e \in DeltaType
    PROVE  Merge(d, e) \in DeltaType
<1>1. d.parts \o e.parts \in Seq(Nat) \ {<<>>}
  BY DEF DeltaType
<1> QED
  BY <1>1 DEF Merge, DeltaType

(* Queueing a delta keeps the sealed ones as they are. *)
LEMMA QueuedKeepsSealed ==
    ASSUME DeltasTypeOK, NEW d \in DeltaType
    PROVE  /\ Queued(d) \in Seq(DeltaType)
           /\ sealed \in 0..Len(Queued(d))
           /\ \A i \in 1..sealed : Queued(d)[i] = pending[i]
<1> USE DEF DeltasTypeOK
<1>1. CASE Len(pending) > sealed /\ Merges(Last(pending), d)
  <2>1. Len(pending) \in 1..Len(pending)
    BY <1>1
  <2>2. Merge(pending[Len(pending)], d) \in DeltaType
    BY <2>1, MergeType
  <2>3. Queued(d) = [pending EXCEPT ![Len(pending)] = Merge(pending[Len(pending)], d)]
    BY <1>1 DEF Queued
  <2> QED
    BY <1>1, <2>1, <2>2, <2>3
<1>2. CASE ~(Len(pending) > sealed /\ Merges(Last(pending), d))
  <2>1. Queued(d) = Append(pending, d)
    BY <1>2 DEF Queued
  <2> QED
    BY <2>1
<1> QED
  BY <1>1, <1>2

-----------------------------------------------------------------------------
(* Recording a change, whatever it is, keeps the invariant. *)
LEMMA RecordKeeps ==
    ASSUME IInv, NEW d \in DeltaType, Record(d), itemIndex' \in [ItemIds -> Nat]
    PROVE  IInv'
<1> USE DEF IInv
<1>1. /\ Queued(d) \in Seq(DeltaType)
      /\ sealed \in 0..Len(Queued(d))
      /\ \A i \in 1..sealed : Queued(d)[i] = pending[i]
  BY QueuedKeepsSealed
<1>2. message' \in ContentType
  BY ApplyType DEF Record, DeltasTypeOK
<1>3. versions' \in Seq(ContentType)
  BY <1>2 DEF Record, DeltasTypeOK
<1>4. pending' = Queued(d)
  BY DEF Record
<1>5. UNCHANGED <<live, first, sealed, owned, batch, cancelling, row, rows, answered>>
  BY DEF Record, durable
<1>6. DeltasTypeOK'
  BY <1>1, <1>2, <1>3, <1>4, <1>5 DEF DeltasTypeOK
<1>7. BatchInv'
  BY <1>1, <1>4, <1>5 DEF BatchInv
<1>8. SealInv'
  <2> SUFFICES ASSUME live', NEW s \in DOMAIN rows'
               PROVE  /\ s < first' + sealed'
                      /\ s >= first' => rows'[s] = pending'[s - first' + 1]
    BY DEF SealInv
  <2>1. s < first + sealed /\ (s >= first => rows[s] = pending[s - first + 1])
    BY <1>5 DEF SealInv
  <2>2. ASSUME s >= first PROVE s - first + 1 \in 1..sealed
    BY <2>1, <2>2, <1>5 DEF DeltasTypeOK
  <2> QED
    BY <1>1, <1>4, <1>5, <2>1, <2>2
<1> QED
  BY <1>6, <1>7, <1>8

(* Every step keeps the invariant. *)
LEMMA IInvStep ==
    ASSUME IInv, [DeltasNext]_deltasVars
    PROVE  IInv'
<1> USE DEF IInv
<1>1. ASSUME NEW id \in ItemIds, NEW phase \in Phases, AppendText(id, phase)
      PROVE  IInv'
  <2> DEFINE index == IF itemIndex[id] = 0 THEN Len(message.items) + 1 ELSE itemIndex[id]
  <2>1. index \in Nat
    BY DEF DeltasTypeOK, ContentType
  <2>2. Len(versions) \in Nat
    BY DEF DeltasTypeOK
  <2>3. itemIndex' = [itemIndex EXCEPT ![id] = index] /\ Record(Text(index, phase, <<Len(versions)>>))
    BY <1>1 DEF AppendText
  <2>4. itemIndex' \in [ItemIds -> Nat]
    BY <2>1, <2>3 DEF DeltasTypeOK
  <2>5. Text(index, phase, <<Len(versions)>>) \in DeltaType
    BY <2>1, <2>2, DeltaTypes DEF Tags
  <2> QED
    BY <2>3, <2>4, <2>5, RecordKeeps
<1>2. ASSUME NEW tag \in Calls \cup {Reasoning}, AppendItem(tag)
      PROVE  IInv'
  <2>1. Item(tag, <<Len(versions)>>) \in DeltaType
    BY DeltaTypes DEF Tags, DeltasTypeOK
  <2>2. itemIndex' \in [ItemIds -> Nat]
    BY <1>2 DEF AppendItem, DeltasTypeOK
  <2> QED
    BY <1>2, <2>1, <2>2, RecordKeeps DEF AppendItem
<1>3. ASSUME SetUsage PROVE IInv'
  <2>1. Usage(<<Len(versions)>>) \in DeltaType
    BY DeltaTypes DEF Tags, DeltasTypeOK
  <2>2. itemIndex' \in [ItemIds -> Nat]
    BY <1>3 DEF SetUsage, DeltasTypeOK
  <2> QED
    BY <1>3, <2>1, <2>2, RecordKeeps DEF SetUsage
<1>4. ASSUME ResetMessage PROVE IInv'
  <2>1. ResetDelta(<<Len(versions)>>) \in DeltaType
    BY DeltaTypes DEF Tags, DeltasTypeOK
  <2>2. itemIndex' \in [ItemIds -> Nat]
    BY <1>4 DEF ResetMessage
  <2> QED
    BY <1>4, <2>1, <2>2, RecordKeeps DEF ResetMessage
<1>5. ASSUME PublishSeal PROVE IInv'
  <2>1. DeltasTypeOK'
    BY <1>5 DEF PublishSeal, DeltasTypeOK, durable
  <2>2. BatchInv'
    BY <1>5 DEF PublishSeal, BatchInv, DeltasTypeOK, LockFree
  <2>3. SealInv'
    BY <1>5 DEF PublishSeal, SealInv, DeltasTypeOK, durable
  <2> QED
    BY <2>1, <2>2, <2>3
<1>6. ASSUME PublishCommit PROVE IInv'
  <2>1. rows' = Inserted(batch) /\ UNCHANGED <<memory, owned, cancelling, row, answered, versions>>
    BY <1>6 DEF PublishCommit
  <2>2. batch' \in {[batch EXCEPT !.stage = "written"], NoBatch}
    BY <1>6 DEF PublishCommit
  <2>3. /\ batch.first = first /\ Len(batch.deltas) = sealed /\ live
        /\ \A i \in 1..sealed : batch.deltas[i] = pending[i]
    BY <1>6 DEF PublishCommit, BatchInv
  <2>4. DOMAIN rows' = DOMAIN rows \cup (first .. first + sealed - 1)
    BY <2>1, <2>3 DEF Inserted
  <2>5. \A s \in DOMAIN rows' : rows'[s] = IF s \in DOMAIN rows THEN rows[s] ELSE batch.deltas[s - first + 1]
    BY <2>1, <2>3 DEF Inserted
  <2>6. \A i \in 1..sealed : pending[i] \in DeltaType
    BY DEF DeltasTypeOK
  <2>7. \A s \in DOMAIN rows' : s \in Nat /\ (s \notin DOMAIN rows => s - first + 1 \in 1..sealed)
    BY <2>4 DEF DeltasTypeOK
  <2>8. DeltasTypeOK'
    <3>1. ASSUME NEW s \in DOMAIN rows' PROVE rows'[s] \in DeltaType
      <4>1. CASE s \in DOMAIN rows
        BY <2>5, <4>1 DEF DeltasTypeOK
      <4>2. CASE s \notin DOMAIN rows
        <5>1. s - first + 1 \in 1..sealed
          BY <2>7, <4>2
        <5> QED
          BY <2>3, <2>5, <2>6, <4>2, <5>1
      <4> QED
        BY <4>1, <4>2
    <3>2. batch' \in [stage : {"none", "copied", "written"}, first : Nat, deltas : Seq(DeltaType)]
      <4>1. NoBatch \in [stage : {"none", "copied", "written"}, first : Nat, deltas : Seq(DeltaType)]
        BY DEF NoBatch
      <4> QED
        BY <2>2, <4>1 DEF DeltasTypeOK
    <3>3. DOMAIN rows' \subseteq Nat
      BY <2>7
    <3> QED
      BY <2>1, <3>1, <3>2, <3>3 DEF DeltasTypeOK, memory
  <2>9. BatchInv'
    <3>1. CASE batch' = NoBatch
      BY <3>1 DEF BatchInv, NoBatch
    <3>2. CASE batch' = [batch EXCEPT !.stage = "written"]
      <4>1. batch'.first = batch.first /\ batch'.deltas = batch.deltas
        BY <3>2 DEF DeltasTypeOK
      <4>2. cancelling = "no"
        BY <1>6 DEF PublishCommit, BatchInv
      <4> QED
        BY <2>1, <2>3, <4>1, <4>2 DEF BatchInv, memory
    <3> QED
      BY <2>2, <3>1, <3>2
  <2>10. SealInv'
    <3>1. UNCHANGED <<live, first, sealed, pending>>
      BY <2>1 DEF memory
    <3> SUFFICES ASSUME NEW s \in DOMAIN rows'
                 PROVE  /\ s < first + sealed
                        /\ s >= first => rows'[s] = pending[s - first + 1]
      BY <3>1 DEF SealInv
    <3>2. CASE s \in DOMAIN rows
      BY <2>3, <2>5, <3>2 DEF SealInv
    <3>3. CASE s \notin DOMAIN rows
      <4>1. s - first + 1 \in 1..sealed /\ s \in Nat /\ first \in Nat /\ sealed \in Nat
        BY <2>7, <3>3 DEF DeltasTypeOK
      <4>2. rows'[s] = batch.deltas[s - first + 1]
        BY <2>5, <3>3
      <4> QED
        BY <2>3, <4>1, <4>2
    <3> QED
      BY <3>2, <3>3
  <2> QED
    BY <2>8, <2>9, <2>10
<1>7. ASSUME PublishFail PROVE IInv'
  BY <1>7 DEF PublishFail, DeltasTypeOK, BatchInv, SealInv, NoBatch, memory, durable
<1>8. ASSUME PublishDrain PROVE IInv'
  <2>1. live /\ Len(batch.deltas) = sealed
    BY <1>8 DEF PublishDrain, BatchInv
  <2>2. pending' = SubSeq(pending, sealed + 1, Len(pending)) /\ first' = first + sealed /\ sealed' = 0
        /\ batch' = NoBatch /\ UNCHANGED <<live, message, itemIndex, owned, cancelling, row, rows, answered, versions>>
    BY <1>8, <2>1 DEF PublishDrain, durable
  <2>3. pending' \in Seq(DeltaType)
    BY <2>2 DEF DeltasTypeOK
  <2>4. DeltasTypeOK'
    BY <2>2, <2>3 DEF DeltasTypeOK, NoBatch
  <2>5. BatchInv'
    BY <2>2 DEF BatchInv, NoBatch
  <2>6. SealInv'
    BY <2>1, <2>2 DEF SealInv, DeltasTypeOK
  <2> QED
    BY <2>4, <2>5, <2>6
<1>9. ASSUME Forgotten, batch' \in {batch, NoBatch}, batch = NoBatch \/ batch.stage = "none" \/ batch' = NoBatch,
             owned' \in BOOLEAN, cancelling' \in {"no", "saved", "answered"}, answered' \in BOOLEAN,
             UNCHANGED versions,
             row'.status \in {"streaming", "complete", "gone"},
             row'.status # "complete" => row'.content \in ContentType,
             rows' = rows \/ rows' = NoRows
      PROVE  IInv'
  <2>1. Empty \in ContentType
    BY DEF Empty, ContentType
  <2>2. DeltasTypeOK'
    <3>1. batch' \in [stage : {"none", "copied", "written"}, first : Nat, deltas : Seq(DeltaType)]
      <4>1. NoBatch \in [stage : {"none", "copied", "written"}, first : Nat, deltas : Seq(DeltaType)]
        BY DEF NoBatch
      <4> QED
        BY <1>9, <4>1 DEF DeltasTypeOK
    <3>2. DOMAIN rows' \subseteq Nat /\ \A s \in DOMAIN rows' : rows'[s] \in DeltaType
      BY <1>9 DEF DeltasTypeOK, NoRows
    <3>3. /\ live' \in BOOLEAN /\ message' \in ContentType /\ itemIndex' \in [ItemIds -> Nat]
          /\ first' \in Nat
      BY <1>9, <2>1 DEF Forgotten
    <3>4. pending' \in Seq(DeltaType) /\ sealed' \in 0..Len(pending')
      BY <1>9 DEF Forgotten
    <3>5. versions' \in Seq(ContentType)
      BY <1>9 DEF DeltasTypeOK
    <3> QED
      BY <1>9, <3>1, <3>2, <3>3, <3>4, <3>5 DEF DeltasTypeOK
  <2>3. BatchInv'
    BY <1>9 DEF BatchInv, NoBatch
  <2>4. SealInv'
    BY <1>9 DEF SealInv, Forgotten
  <2> QED
    BY <2>2, <2>3, <2>4
<1>10. ASSUME CompleteMessage PROVE IInv'
  BY <1>9, <1>10 DEF CompleteMessage, SavedAs, LockFree, DeltasTypeOK
<1>11. ASSUME Abort PROVE IInv'
  BY <1>9, <1>11 DEF Abort, LockFree, DeltasTypeOK, Empty, ContentType
<1>12. ASSUME CancelSave PROVE IInv'
  BY <1>12 DEF CancelSave, SavedAs, LockFree, DeltasTypeOK, BatchInv, SealInv, NoRows, memory
<1>13. ASSUME CancelAnswer PROVE IInv'
  BY <1>13 DEF CancelAnswer, DeltasTypeOK, BatchInv, SealInv, memory
<1>14. ASSUME CancelComplete PROVE IInv'
  <2>1. batch.stage = "none"
    BY <1>14 DEF CancelComplete, LockFree, BatchInv
  <2>2. row' = [status |-> "complete", content |-> message] /\ rows' = NoRows
    BY <1>14 DEF CancelComplete, SavedAs
  <2> QED
    BY <1>9, <1>14, <2>1, <2>2 DEF CancelComplete, DeltasTypeOK
<1>15. ASSUME CancelFail PROVE IInv'
  BY <1>15 DEF CancelFail, DeltasTypeOK, BatchInv, SealInv, memory, durable
<1>16. ASSUME LoseLease PROVE IInv'
  BY <1>16 DEF LoseLease, DeltasTypeOK, BatchInv, SealInv, memory, durable
<1>17. ASSUME Discard PROVE IInv'
  BY <1>9, <1>17 DEF Discard, DeltasTypeOK, durable
<1>18. ASSUME OwnerCrash PROVE IInv'
  BY <1>9, <1>18 DEF OwnerCrash, DeltasTypeOK, durable
<1>19. ASSUME Recover PROVE IInv'
  <2>1. row'.status \in {"complete", "gone"} /\ (row'.status # "complete" => row'.content \in ContentType)
    BY <1>19 DEF Recover, Empty, ContentType
  <2> QED
    BY <1>19, <2>1 DEF Recover, DeltasTypeOK, BatchInv, SealInv, NoRows, memory
<1>20. ASSUME UNCHANGED deltasVars PROVE IInv'
  BY <1>20 DEF deltasVars, memory, durable, DeltasTypeOK, BatchInv, SealInv
<1> QED
  BY <1>1, <1>2, <1>3, <1>4, <1>5, <1>6, <1>7, <1>8, <1>10, <1>11, <1>12, <1>13,
     <1>14, <1>15, <1>16, <1>17, <1>18, <1>19, <1>20 DEF DeltasNext, Ended

LEMMA IInvInit == DeltasInit => IInv
<1> SUFFICES ASSUME DeltasInit PROVE IInv
  OBVIOUS
<1>1. Empty \in ContentType
  BY DEF Empty, ContentType
<1>2. versions \in Seq(ContentType)
  BY <1>1 DEF DeltasInit
<1>3. pending \in Seq(DeltaType) /\ sealed \in 0..Len(pending)
  BY DEF DeltasInit
<1>4. batch \in [stage : {"none", "copied", "written"}, first : Nat, deltas : Seq(DeltaType)]
      /\ batch.stage = "none"
  BY DEF DeltasInit, NoBatch
<1>5. DOMAIN rows = {}
  BY DEF DeltasInit, NoRows
<1>6. DeltasTypeOK
  BY <1>1, <1>2, <1>3, <1>4, <1>5 DEF DeltasInit, DeltasTypeOK
<1> QED
  BY <1>4, <1>5, <1>6 DEF IInv, BatchInv, SealInv

(* The buffers, the record and every stored delta are well typed in every  *)
(* reachable state, for any item ids, phases, calls and bound.             *)
THEOREM TypeCorrect == DeltasSpec => []DeltasTypeOK
<1>1. DeltasInit => IInv
  BY IInvInit
<1>2. IInv /\ [DeltasNext]_deltasVars => IInv'
  BY IInvStep
<1>3. IInv => DeltasTypeOK
  BY DEF IInv
<1> QED
  BY <1>1, <1>2, <1>3, PTL DEF DeltasSpec

(* A delta that is published again is the one already stored under its     *)
(* number, whatever was recorded, refused or cancelled in between.         *)
THEOREM ResendCorrect == DeltasSpec => []ResendAgrees
<1>1. DeltasInit => IInv
  BY IInvInit
<1>2. IInv /\ [DeltasNext]_deltasVars => IInv'
  BY IInvStep
<1>3. IInv => ResendAgrees
  BY DEF IInv, DeltasTypeOK, SealInv, ResendAgrees
<1> QED
  BY <1>1, <1>2, <1>3, PTL DEF DeltasSpec

-----------------------------------------------------------------------------
(* A walk through the versions of a message, along the numbers of deltas:  *)
(* c[s] counts the changes after which all deltas below s were applied.    *)
Walk(c, vs, lo, hi, content, deltas) ==
    /\ c \in [lo..hi -> 1..Len(vs)]
    /\ vs[c[lo]] = content
    /\ \A s, t \in lo..hi : s <= t => c[s] <= c[t]
    /\ \A s \in lo..(hi - 1) : vs[c[s + 1]] = Apply(vs[c[s]], deltas[s])

(* Stored and pending deltas, by number. *)
Numbered(stored, from, waiting) ==
    [s \in DOMAIN stored \cup (from..(from + Len(waiting) - 1)) |->
        IF s \in DOMAIN stored THEN stored[s] ELSE waiting[s - from + 1]]

Streaming == row.status = "streaming"

(* A reader walks through versions. *)
StoredWalk(stored, content, vs) ==
    \E lo \in Nat : \E hi \in Nat :
        /\ lo <= hi /\ DOMAIN stored = lo..(hi - 1)
        /\ \E c \in [lo..hi -> 1..Len(vs)] : Walk(c, vs, lo, hi, content, stored)
StoredInv == Streaming => StoredWalk(rows, row.content, versions)

(* The pending deltas lead on from what is stored to the last version. *)
LiveWalk(stored, content, from, shut, waiting, vs) ==
    \E lo \in 0..from : \E hi \in from..(from + shut) :
        /\ DOMAIN stored = lo..(hi - 1)
        /\ \E c \in [lo..(from + Len(waiting)) -> 1..Len(vs)] :
              /\ Walk(c, vs, lo, from + Len(waiting), content, Numbered(stored, from, waiting))
              /\ c[from + Len(waiting)] = Len(vs)
LiveInv ==
    live /\ Streaming /\ cancelling = "no" =>
        LiveWalk(rows, row.content, first, sealed, pending, versions)

(* A batch that was written is stored. *)
WrittenInv ==
    batch.stage = "written" /\ Streaming => first..(first + sealed - 1) \subseteq DOMAIN rows

(* The copy in memory is the last version, and what a cancellation saved of it. *)
MemoryInv ==
    /\ versions # <<>>
    /\ live => message = Last(versions)
    /\ cancelling # "no" => live
    /\ cancelling # "no" /\ Streaming => row.content = message /\ rows = NoRows
(* Once the call is answered the message is whole, and no change follows. *)
AnsweredInv ==
    /\ answered /\ live => cancelling = "answered"
    /\ answered /\ Streaming => row.content = Last(versions) /\ rows = NoRows
    /\ row.status = "complete" => row.content = Last(versions)
    /\ row.status = "complete" /\ live => answered
ReplayInv ==
    /\ IInv /\ StoredInv /\ LiveInv /\ WrittenInv /\ MemoryInv /\ AnsweredInv

-----------------------------------------------------------------------------
(* Numbers in a row are read in order. *)
LEMMA NthIs ==
    ASSUME NEW lo \in Nat, NEW hi \in Nat, lo <= hi
    PROVE  /\ Cardinality(lo..(hi - 1)) = hi - lo
           /\ \A i \in 1..(hi - lo) : Nth(lo..(hi - 1), i) = lo + i - 1
<1>1. \A a, b \in Int : Cardinality(a..b) = IF a > b THEN 0 ELSE b - a + 1
  BY FS_Interval
<1>2. \A s \in lo..(hi - 1) : Cardinality({t \in lo..(hi - 1) : t <= s}) = s - lo + 1
  <2> SUFFICES ASSUME NEW s \in lo..(hi - 1)
               PROVE  Cardinality({t \in lo..(hi - 1) : t <= s}) = s - lo + 1
    OBVIOUS
  <2>1. {t \in lo..(hi - 1) : t <= s} = lo..s
    OBVIOUS
  <2>2. Cardinality(lo..s) = s - lo + 1
    BY <1>1
  <2> QED BY <2>1, <2>2, Zenon
<1>3. ASSUME NEW i \in 1..(hi - lo) PROVE Nth(lo..(hi - 1), i) = lo + i - 1
  <2> DEFINE Below(s) == {t \in lo..(hi - 1) : t <= s}
  <2>1. lo + i - 1 \in lo..(hi - 1) /\ Cardinality(Below(lo + i - 1)) = i
    BY <1>2
  <2>2. \A s \in lo..(hi - 1) : Cardinality(Below(s)) = i => s = lo + i - 1
    BY <1>2
  <2>3. Nth(lo..(hi - 1), i) = CHOOSE s \in lo..(hi - 1) : Cardinality(Below(s)) = i
    BY Zenon DEF Nth
  <2> HIDE DEF Below
  <2>4. Nth(lo..(hi - 1), i) \in lo..(hi - 1) /\ Cardinality(Below(Nth(lo..(hi - 1), i))) = i
    BY <2>1, <2>3, Zenon
  <2> DEFINE n == Nth(lo..(hi - 1), i)
  <2>5. n \in lo..(hi - 1) /\ Cardinality(Below(n)) = i
    BY <2>4
  <2> HIDE DEF n
  <2>6. n = lo + i - 1
    BY <2>2, <2>5
  <2> QED BY <2>6 DEF n
<1>4. Cardinality(lo..(hi - 1)) = hi - lo
  <2>1. hi - 1 \in Int /\ lo \in Int
    OBVIOUS
  <2>2. Cardinality(lo..(hi - 1)) = IF lo > hi - 1 THEN 0 ELSE (hi - 1) - lo + 1
    BY <2>1, FS_Interval, Zenon
  <2>3. (IF lo > hi - 1 THEN 0 ELSE (hi - 1) - lo + 1) = hi - lo
    OBVIOUS
  <2> DEFINE size == Cardinality(lo..(hi - 1))
  <2>4. size = IF lo > hi - 1 THEN 0 ELSE (hi - 1) - lo + 1
    BY <2>2
  <2> HIDE DEF size
  <2>5. size = hi - lo
    BY <2>3, <2>4
  <2> QED BY <2>5 DEF size
<1> QED BY <1>3, <1>4, Zenon

(* A set of numbers has a least member. *)
LEMMA LeastNumber == ASSUME NEW S, S \subseteq Nat, S # {} PROVE \E n \in S : \A k \in S : n <= k
<1>1. \E n \in S : \A k \in S : ~ (<<k, n>> \in OpToRel(<, Nat))
  BY WFMin, NatLessThanWellFounded
<1>2. ASSUME NEW n \in Nat, NEW k \in Nat, k < n PROVE <<k, n>> \in OpToRel(<, Nat)
  BY <1>2, Zenon DEF OpToRel
<1>3. PICK n \in S : \A k \in S : ~ (<<k, n>> \in OpToRel(<, Nat))
  BY <1>1
<1>4. \A k \in S : ~ (k < n)
  BY <1>2, <1>3, Zenon
<1> QED BY <1>4

(* The deltas of a walk, applied one after the other, lead to its last version. *)
LEMMA ReplayedIs ==
    ASSUME NEW c, NEW vs, NEW lo \in Nat, NEW hi \in Nat, lo <= hi, NEW content, NEW deltas,
           DOMAIN deltas = lo..(hi - 1), Walk(c, vs, lo, hi, content, deltas)
    PROVE  Replayed(content, deltas) = vs[c[hi]]
<1> DEFINE count == hi - lo
           Step(after, i) == IF i = 0 THEN content
                             ELSE Apply(after[i - 1], deltas[Nth(DOMAIN deltas, i)])
           f == CHOOSE after : after = [i \in 0..Cardinality(DOMAIN deltas) |->
                    IF i = 0 THEN content ELSE Apply(after[i - 1], deltas[Nth(DOMAIN deltas, i)])]
           g == [i \in 0..count |-> vs[c[lo + i]]]
<1>1. Cardinality(DOMAIN deltas) = count /\ \A i \in 1..count : Nth(DOMAIN deltas, i) = lo + i - 1
  BY NthIs
<1>2. Replayed(content, deltas) = f[count]
  BY <1>1 DEF Replayed
<1>3. \A i \in 0..count : g[i] = Step(g, i)
  <2> SUFFICES ASSUME NEW i \in 0..count PROVE g[i] = Step(g, i)
    OBVIOUS
  <2>1. CASE i = 0
    BY <2>1 DEF Walk
  <2>2. CASE i # 0
    <3>1. i - 1 \in 0..count /\ lo + i - 1 \in lo..(hi - 1) /\ lo + (i - 1) = lo + i - 1
          /\ (lo + i - 1) + 1 = lo + i
      BY <2>2
    <3>2. Nth(DOMAIN deltas, i) = lo + i - 1
      BY <1>1, <2>2
    <3>3. vs[c[lo + i]] = Apply(vs[c[lo + i - 1]], deltas[lo + i - 1])
      BY <3>1 DEF Walk
    <3>4. g[i] = vs[c[lo + i]] /\ g[i - 1] = vs[c[lo + i - 1]]
      BY <3>1
    <3> HIDE DEF g
    <3> QED BY <2>2, <3>2, <3>3, <3>4
  <2> QED BY <2>1, <2>2
<1>4. g = [i \in 0..Cardinality(DOMAIN deltas) |->
               IF i = 0 THEN content ELSE Apply(g[i - 1], deltas[Nth(DOMAIN deltas, i)])]
  <2>1. g = [i \in 0..count |-> g[i]]
    OBVIOUS
  <2> HIDE DEF g
  <2> QED BY <1>1, <1>3, <2>1
<1> HIDE DEF g
<1>5. f = [i \in 0..Cardinality(DOMAIN deltas) |->
               IF i = 0 THEN content ELSE Apply(f[i - 1], deltas[Nth(DOMAIN deltas, i)])]
  BY <1>4
<1> HIDE DEF f
<1>6. \A i \in 0..count : f[i] = Step(f, i)
  BY <1>1, <1>5
<1> DEFINE Bad == {i \in 0..count : f[i] # g[i]}
<1>7. Bad = {}
  <2> SUFFICES ASSUME Bad # {} PROVE FALSE
    OBVIOUS
  <2>1. Bad \subseteq Nat
    OBVIOUS
  <2>2. PICK n \in Bad : \A k \in Bad : n <= k
    <3> HIDE DEF Bad
    <3> QED BY <2>1, LeastNumber
  <2>3. CASE n = 0
    BY <1>3, <1>6, <2>2, <2>3
  <2>4. CASE n # 0
    <3>1. n - 1 \in 0..count /\ n - 1 \notin Bad
      BY <2>2, <2>4
    <3>2. f[n - 1] = g[n - 1]
      BY <3>1
    <3> QED BY <1>3, <1>6, <2>2, <2>4, <3>2
  <2> QED BY <2>3, <2>4
<1>8. count \in 0..count /\ g[count] = vs[c[hi]]
  <2>1. lo + count = hi /\ count \in 0..count
    OBVIOUS
  <2> QED BY <2>1 DEF g
<1> QED BY <1>2, <1>7, <1>8

(* What a text delta does to a message. *)
LEMMA TextApplies ==
    ASSUME NEW m, m # Unreadable, NEW d, d.op = "text"
    PROVE  /\ d.index = Len(m.items) + 1 =>
                 Apply(m, d) = [m EXCEPT !.items = Append(m.items, [tag |-> d.tag, parts |-> d.parts])]
           /\ d.index # Len(m.items) + 1 /\ d.index \in DOMAIN m.items /\ m.items[d.index].tag = d.tag =>
                 Apply(m, d) = [m EXCEPT !.items = ExtendedAt(m.items, d.index, d.parts)]
           /\ d.index # Len(m.items) + 1 /\ ~(d.index \in DOMAIN m.items /\ m.items[d.index].tag = d.tag) =>
                 Apply(m, d) = Unreadable
BY DEF Apply

(* Extending an item twice is extending it by both parts. *)
LEMMA ExtendedTwice ==
    ASSUME NEW items, NEW i \in DOMAIN items, NEW a \in Seq(Nat), NEW b \in Seq(Nat),
           items[i].parts \in Seq(Nat)
    PROVE  ExtendedAt(ExtendedAt(items, i, a), i, b) = ExtendedAt(items, i, a \o b)
<1>1. (items[i].parts \o a) \o b = items[i].parts \o (a \o b)
  <2>1. \A x, y, z \in Seq(Nat) : (x \o y) \o z = x \o (y \o z)
    <3> SUFFICES ASSUME NEW x \in Seq(Nat), NEW y \in Seq(Nat), NEW z \in Seq(Nat)
                 PROVE  (x \o y) \o z = x \o (y \o z)
      OBVIOUS
    <3> DEFINE left == (x \o y) \o z
               right == x \o (y \o z)
    <3>1. left \in Seq(Nat) /\ right \in Seq(Nat) /\ Len(left) = Len(right)
      OBVIOUS
    <3>2. \A k \in 1..Len(left) : left[k] = right[k]
      OBVIOUS
    <3> QED BY <3>1, <3>2, SeqEqual, Zenon
  <2> QED BY <2>1, Zenon
<1>2. ASSUME NEW item, NEW c, (item.parts \o a) \o b = item.parts \o c
      PROVE  Extended(Extended(item, a), b) = Extended(item, c)
  BY <1>2 DEF Extended
<1>3. Extended(Extended(items[i], a), b) = Extended(items[i], a \o b)
  BY <1>1, <1>2, Zenon
<1>4. ASSUME NEW x, NEW y, Extended(x, b) = y
      PROVE  ExtendedAt([items EXCEPT ![i] = x], i, b) = [items EXCEPT ![i] = y]
  <2>1. [items EXCEPT ![i] = x][i] = x
    OBVIOUS
  <2> QED BY <1>4, <2>1 DEF ExtendedAt
<1>5. ExtendedAt([items EXCEPT ![i] = Extended(items[i], a)], i, b)
        = [items EXCEPT ![i] = Extended(items[i], a \o b)]
  BY <1>3, <1>4, Zenon
<1> QED BY <1>5 DEF ExtendedAt

(* Merging two deltas is applying both. *)
LEMMA MergeApplies ==
    ASSUME NEW m \in ContentType, NEW p \in DeltaType, NEW d \in DeltaType, Merges(p, d),
           m # Unreadable, Apply(m, p) # Unreadable
    PROVE  Apply(m, Merge(p, d)) = Apply(Apply(m, p), d)
<1> DEFINE items == m.items
           both == p.parts \o d.parts
<1>1. /\ p.op = "text" /\ d.op = "text" /\ d.index = p.index /\ d.tag = p.tag
      /\ p.parts \in Seq(Nat) /\ d.parts \in Seq(Nat) /\ p.index \in Nat
  BY DEF Merges, DeltaType
<1>2. Merge(p, d) = [p EXCEPT !.parts = both]
  BY DEF Merge
<1>3. /\ Merge(p, d).op = "text" /\ Merge(p, d).index = p.index /\ Merge(p, d).tag = p.tag
      /\ Merge(p, d).parts = both
  BY <1>1, <1>2 DEF DeltaType
<1>4. items \in Seq([tag : Tags, parts : Seq(Nat)]) /\ m = [items |-> items, usage |-> m.usage]
  BY DEF ContentType, Tags
<1>5. p.op = "text" /\ Merge(p, d).op = "text"
  BY <1>1, <1>3
<1>6. /\ p.index = Len(items) + 1 =>
            Apply(m, p) = [m EXCEPT !.items = Append(items, [tag |-> p.tag, parts |-> p.parts])]
      /\ p.index # Len(items) + 1 /\ p.index \in DOMAIN items /\ items[p.index].tag = p.tag =>
            Apply(m, p) = [m EXCEPT !.items = ExtendedAt(items, p.index, p.parts)]
      /\ p.index # Len(items) + 1 /\ ~(p.index \in DOMAIN items /\ items[p.index].tag = p.tag) =>
            Apply(m, p) = Unreadable
  BY <1>5, TextApplies
<1>10. /\ p.index = Len(items) + 1 =>
             Apply(m, Merge(p, d)) = [m EXCEPT !.items = Append(items, [tag |-> p.tag, parts |-> both])]
       /\ p.index # Len(items) + 1 /\ p.index \in DOMAIN items /\ items[p.index].tag = p.tag =>
             Apply(m, Merge(p, d)) = [m EXCEPT !.items = ExtendedAt(items, p.index, both)]
  <2> DEFINE q == Merge(p, d)
  <2>1. q.op = "text" /\ q.index = p.index /\ q.tag = p.tag /\ q.parts = both
    BY <1>3
  <2> HIDE DEF q, both
  <2>2. /\ q.index = Len(items) + 1 =>
              Apply(m, q) = [m EXCEPT !.items = Append(items, [tag |-> q.tag, parts |-> q.parts])]
        /\ q.index # Len(items) + 1 /\ q.index \in DOMAIN items /\ items[q.index].tag = q.tag =>
              Apply(m, q) = [m EXCEPT !.items = ExtendedAt(items, q.index, q.parts)]
    BY <2>1, TextApplies
  <2>3. /\ p.index = Len(items) + 1 =>
              Apply(m, q) = [m EXCEPT !.items = Append(items, [tag |-> p.tag, parts |-> both])]
        /\ p.index # Len(items) + 1 /\ p.index \in DOMAIN items /\ items[p.index].tag = p.tag =>
              Apply(m, q) = [m EXCEPT !.items = ExtendedAt(items, p.index, both)]
    BY <2>1, <2>2
  <2> QED BY <2>3 DEF q
<1>7. ASSUME NEW one, Apply(m, p).items = one, d.index # Len(one) + 1, d.index \in DOMAIN one,
             one[d.index].tag = d.tag
      PROVE  Apply(Apply(m, p), d) = [Apply(m, p) EXCEPT !.items = ExtendedAt(one, d.index, d.parts)]
  <2>1. d.op = "text"
    BY <1>1
  <2> QED BY <1>7, <2>1, TextApplies
<1>8. CASE p.index = Len(items) + 1
  <2> DEFINE one == Append(items, [tag |-> p.tag, parts |-> p.parts])
             two == Append(items, [tag |-> p.tag, parts |-> both])
  <2>1. Apply(m, p) = [m EXCEPT !.items = one]
    BY <1>6, <1>8
  <2>2. Apply(m, Merge(p, d)) = [m EXCEPT !.items = two]
    BY <1>8, <1>10
  <2>3. /\ Apply(m, p).items = one /\ Apply(m, p).usage = m.usage
        /\ Len(one) = Len(items) + 1 /\ p.index \in DOMAIN one
        /\ one[p.index] = [tag |-> p.tag, parts |-> p.parts]
    BY <1>4, <1>8, <2>1 DEF ContentType
  <2>4. Apply(Apply(m, p), d) = [Apply(m, p) EXCEPT !.items = ExtendedAt(one, p.index, d.parts)]
    <3> HIDE DEF one
    <3>1. d.op = "text" /\ d.index \in DOMAIN one /\ one[d.index].tag = d.tag
          /\ d.index # Len(one) + 1
      BY <1>1, <1>4, <1>8, <2>3
    <3> QED BY <1>1, <1>7, <2>3, <3>1
  <2>5. ExtendedAt(one, p.index, d.parts) = two
    <3>1. Extended(one[p.index], d.parts) = [tag |-> p.tag, parts |-> both]
      <4> HIDE DEF one
      <4> QED BY <2>3 DEF Extended
    <3>2. ExtendedAt(one, p.index, d.parts) = [one EXCEPT ![p.index] = [tag |-> p.tag, parts |-> both]]
      BY <3>1 DEF ExtendedAt
    <3> DEFINE T == [tag : Tags, parts : Seq(Nat)]
               a == [tag |-> p.tag, parts |-> p.parts]
               b == [tag |-> p.tag, parts |-> both]
    <3>3. a \in T /\ b \in T /\ items \in Seq(T)
      BY <1>1, <1>4 DEF DeltaType, Tags
    <3>6. p.index = Len(items) + 1
      BY <1>8
    <3> HIDE DEF both, T, a, b, items
    <3>4. one = Append(items, a) /\ two = Append(items, b)
      BY DEF a, b
    <3>5. [one EXCEPT ![p.index] = b] = two
      <4>1. /\ one \in Seq(T) /\ Len(one) = Len(items) + 1
            /\ \A i \in 1..Len(items) : one[i] = items[i]
        BY <3>3, <3>4, AppendProperties
      <4>2. /\ two \in Seq(T) /\ Len(two) = Len(items) + 1 /\ two[Len(items) + 1] = b
            /\ \A i \in 1..Len(items) : two[i] = items[i]
        BY <3>3, <3>4, AppendProperties
      <4> HIDE DEF one, two
      <4>3. p.index \in 1..Len(one)
        BY <3>3, <3>6, <4>1
      <4> DEFINE changed == [one EXCEPT ![p.index] = b]
      <4>4. /\ changed \in Seq(T) /\ Len(changed) = Len(one)
            /\ \A i \in 1..Len(one) : changed[i] = IF i = p.index THEN b ELSE one[i]
        BY <3>3, <4>1, <4>3, ExceptSeq
      <4> HIDE DEF changed
      <4>5. Len(changed) = Len(two) /\ \A i \in 1..Len(changed) : changed[i] = two[i]
        BY <3>3, <3>6, <4>1, <4>2, <4>4
      <4>6. changed = two
        BY <4>2, <4>4, <4>5, SeqEqual
      <4> QED BY <4>6 DEF changed
    <3> QED BY <3>2, <3>5 DEF b
  <2> HIDE DEF one, two
  <2> QED BY <2>1, <2>2, <2>4, <2>5, <1>4
<1>9. CASE p.index # Len(items) + 1
  <2> DEFINE one == ExtendedAt(items, p.index, p.parts)
             two == ExtendedAt(items, p.index, both)
  <2>1. p.index \in DOMAIN items /\ items[p.index].tag = p.tag
    <3> SUFFICES ASSUME ~(p.index \in DOMAIN items /\ items[p.index].tag = p.tag) PROVE FALSE
      OBVIOUS
    <3>1. Apply(m, p) = Unreadable
      BY <1>6, <1>9
    <3> QED BY <3>1
  <2>2. Apply(m, p) = [m EXCEPT !.items = one]
    BY <1>6, <1>9, <2>1
  <2>3. Apply(m, Merge(p, d)) = [m EXCEPT !.items = two]
    BY <1>9, <1>10, <2>1
  <2>4. items[p.index].parts \in Seq(Nat)
    <3>1. p.index \in 1..Len(items)
      BY <1>4, <2>1
    <3>2. items[p.index] \in [tag : Tags, parts : Seq(Nat)]
      BY <1>4, <3>1, ElementOfSeq
    <3> QED BY <3>2
  <2>5. /\ Apply(m, p).items = one /\ Apply(m, p).usage = m.usage
        /\ Len(one) = Len(items) /\ DOMAIN one = DOMAIN items
        /\ one[p.index] = [tag |-> p.tag, parts |-> items[p.index].parts \o p.parts]
    <3>1. Apply(m, p).items = one /\ Apply(m, p).usage = m.usage
      BY <1>4, <2>2
    <3>2. one = [items EXCEPT ![p.index] = Extended(items[p.index], p.parts)]
      BY DEF ExtendedAt
    <3>3. one[p.index] = [tag |-> p.tag, parts |-> items[p.index].parts \o p.parts]
      BY <2>1, <3>2 DEF Extended
    <3>4. DOMAIN one = DOMAIN items /\ Len(one) = Len(items)
      BY <1>4, <2>1, <3>2
    <3> QED BY <3>1, <3>3, <3>4
  <2>6. Apply(Apply(m, p), d) = [Apply(m, p) EXCEPT !.items = ExtendedAt(one, p.index, d.parts)]
    <3> HIDE DEF one
    <3>1. d.op = "text" /\ d.index \in DOMAIN one /\ one[d.index].tag = d.tag
          /\ d.index # Len(one) + 1
      BY <1>1, <1>9, <2>1, <2>5
    <3> QED BY <1>1, <1>7, <2>5, <3>1
  <2>7. ExtendedAt(one, p.index, d.parts) = two
    BY <1>1, <2>1, <2>4, ExtendedTwice
  <2> HIDE DEF one, two
  <2> QED BY <2>2, <2>3, <2>6, <2>7, <1>4
<1> QED BY <1>8, <1>9

-----------------------------------------------------------------------------
(* A walk over more deltas is one over the first of them. *)
LEMMA WalkCut ==
    ASSUME NEW c, NEW vs, NEW lo \in Nat, NEW hi \in Nat, NEW top \in Nat, lo <= hi, hi <= top,
           NEW content, NEW deltas, NEW more, Walk(c, vs, lo, top, content, more),
           \A s \in lo..(hi - 1) : deltas[s] = more[s]
    PROVE  Walk([s \in lo..hi |-> c[s]], vs, lo, hi, content, deltas)
<1> DEFINE cut == [s \in lo..hi |-> c[s]]
<1>1. \A s \in lo..hi : cut[s] = c[s] /\ s \in lo..top
  OBVIOUS
<1>2. cut \in [lo..hi -> 1..Len(vs)]
  BY <1>1 DEF Walk
<1>3. lo \in lo..hi /\ lo \in lo..top
  OBVIOUS
<1> HIDE DEF cut
<1>4. vs[cut[lo]] = content
  BY <1>1, <1>3 DEF Walk
<1>5. \A s, t \in lo..hi : s <= t => cut[s] <= cut[t]
  BY <1>1 DEF Walk
<1>6. ASSUME NEW s \in lo..(hi - 1) PROVE vs[cut[s + 1]] = Apply(vs[cut[s]], deltas[s])
  <2>1. s \in lo..hi /\ s + 1 \in lo..hi /\ s \in lo..(top - 1)
    OBVIOUS
  <2>2. vs[c[s + 1]] = Apply(vs[c[s]], more[s])
    BY <2>1 DEF Walk
  <2> QED BY <1>1, <2>1, <2>2
<1>7. Walk(cut, vs, lo, hi, content, deltas)
  BY <1>2, <1>4, <1>5, <1>6 DEF Walk
<1> QED BY <1>7 DEF cut

(* A walk goes on to a new version, from its end or from the delta before it. *)
LEMMA WalkOn ==
    ASSUME NEW S, NEW vs \in Seq(S), NEW v \in S, NEW c,
           NEW lo \in Nat, NEW low \in Nat, NEW top \in Nat, lo <= low, low <= top,
           NEW content, NEW deltas, NEW more, Walk(c, vs, lo, top, content, deltas),
           \A s \in lo..(low - 1) : more[s] = deltas[s],
           v = Apply(vs[c[low]], more[low])
    PROVE  Walk([s \in lo..(low + 1) |-> IF s = low + 1 THEN Len(vs) + 1 ELSE c[s]],
                Append(vs, v), lo, low + 1, content, more)
<1> DEFINE last == Len(vs) + 1
           on == [s \in lo..(low + 1) |-> IF s = low + 1 THEN last ELSE c[s]]
           ws == Append(vs, v)
<1>1. Len(ws) = last /\ last \in Nat /\ ws[last] = v /\ \A k \in 1..Len(vs) : ws[k] = vs[k]
  OBVIOUS
<1>2. \A s \in lo..low : c[s] \in 1..Len(vs)
  BY DEF Walk
<1>3. /\ \A s \in lo..low : on[s] = c[s] /\ s \in lo..top
      /\ on[low + 1] = last
  OBVIOUS
<1>4. \A s \in lo..(low + 1) : s \in lo..low \/ s = low + 1
  OBVIOUS
<1>5. on \in [lo..(low + 1) -> 1..Len(ws)]
  BY <1>1, <1>2, <1>3, <1>4
<1> HIDE DEF on, ws, last
<1>6. ws[on[lo]] = content
  <2>1. lo \in lo..low /\ lo \in lo..top
    OBVIOUS
  <2> QED BY <1>1, <1>2, <1>3, <2>1 DEF Walk
<1>7. ASSUME NEW s \in lo..(low + 1), NEW t \in lo..(low + 1), s <= t PROVE on[s] <= on[t]
  <2>1. CASE t = low + 1
    <3>1. on[s] \in 1..last
      BY <1>1, <1>5
    <3>2. on[t] = last
      BY <1>3, <2>1
    <3> QED BY <1>1, <3>1, <3>2
  <2>2. CASE t # low + 1
    <3>1. s \in lo..low /\ t \in lo..low
      BY <1>7, <2>2
    <3> QED BY <1>3, <1>7, <3>1 DEF Walk
  <2> QED BY <2>1, <2>2
<1>8. ASSUME NEW s \in lo..((low + 1) - 1) PROVE ws[on[s + 1]] = Apply(ws[on[s]], more[s])
  <2>1. s \in lo..low
    OBVIOUS
  <2>2. ws[on[s]] = vs[c[s]]
    BY <1>1, <1>2, <1>3, <2>1
  <2>3. CASE s = low
    BY <1>1, <1>3, <2>2, <2>3
  <2>4. CASE s # low
    <3>1. s \in lo..(low - 1) /\ s + 1 \in lo..low /\ s \in lo..(top - 1)
      BY <2>1, <2>4
    <3>2. vs[c[s + 1]] = Apply(vs[c[s]], deltas[s])
      BY <3>1 DEF Walk
    <3>3. ws[on[s + 1]] = vs[c[s + 1]]
      BY <1>1, <1>2, <1>3, <3>1
    <3> QED BY <2>2, <3>1, <3>2, <3>3
  <2> QED BY <2>3, <2>4
<1>9. Walk(on, ws, lo, low + 1, content, more)
  BY <1>5, <1>6, <1>7, <1>8 DEF Walk
<1> QED BY <1>9 DEF on, ws, last

(* What a reader sees of a walk is a version. *)
LEMMA StoredRead ==
    ASSUME NEW stored, NEW content, NEW vs, StoredWalk(stored, content, vs)
    PROVE  \E k \in 1..Len(vs) : Replayed(content, stored) = vs[k]
<1>1. PICK lo \in Nat, hi \in Nat :
          /\ lo <= hi /\ DOMAIN stored = lo..(hi - 1)
          /\ \E c \in [lo..hi -> 1..Len(vs)] : Walk(c, vs, lo, hi, content, stored)
  BY DEF StoredWalk
<1>2. PICK c \in [lo..hi -> 1..Len(vs)] : Walk(c, vs, lo, hi, content, stored)
  BY <1>1
<1>3. Replayed(content, stored) = vs[c[hi]]
  BY <1>1, <1>2, ReplayedIs
<1>4. c[hi] \in 1..Len(vs)
  BY <1>1
<1> QED BY <1>3, <1>4

(* A later version does not disturb a walk. *)
LEMMA StoredLater ==
    ASSUME NEW S, NEW vs \in Seq(S), NEW v \in S, NEW stored, NEW content,
           StoredWalk(stored, content, vs)
    PROVE  StoredWalk(stored, content, Append(vs, v))
<1>1. PICK lo \in Nat, hi \in Nat :
          /\ lo <= hi /\ DOMAIN stored = lo..(hi - 1)
          /\ \E c \in [lo..hi -> 1..Len(vs)] : Walk(c, vs, lo, hi, content, stored)
  BY DEF StoredWalk
<1>2. PICK c \in [lo..hi -> 1..Len(vs)] : Walk(c, vs, lo, hi, content, stored)
  BY <1>1
<1> DEFINE ws == Append(vs, v)
<1>3. Len(ws) = Len(vs) + 1 /\ \A k \in 1..Len(vs) : ws[k] = vs[k]
  OBVIOUS
<1> HIDE DEF ws
<1>4. c \in [lo..hi -> 1..Len(ws)]
  BY <1>3
<1>5. Walk(c, ws, lo, hi, content, stored)
  <2>1. ws[c[lo]] = content
    BY <1>1, <1>2, <1>3 DEF Walk
  <2>2. ASSUME NEW s \in lo..(hi - 1) PROVE ws[c[s + 1]] = Apply(ws[c[s]], stored[s])
    <3>1. s \in lo..hi /\ s + 1 \in lo..hi
      OBVIOUS
    <3>2. c[s] \in 1..Len(vs) /\ c[s + 1] \in 1..Len(vs)
      BY <3>1
    <3>3. vs[c[s + 1]] = Apply(vs[c[s]], stored[s])
      BY <1>2 DEF Walk
    <3> QED BY <1>3, <3>2, <3>3
  <2> QED BY <1>2, <1>4, <2>1, <2>2 DEF Walk
<1> QED BY <1>1, <1>4, <1>5 DEF StoredWalk, ws

(* The whole message saved in the record is a walk of its own. *)
LEMMA StoredWhole ==
    ASSUME NEW S, NEW vs \in Seq(S), vs # <<>>
    PROVE  /\ StoredWalk(NoRows, vs[Len(vs)], vs)
           /\ \A from \in Nat, shut \in Nat : LiveWalk(NoRows, vs[Len(vs)], from, shut, <<>>, vs)
<1>1. Len(vs) \in 1..Len(vs) /\ Len(vs) \in Nat
  OBVIOUS
<1>2. ASSUME NEW n \in Nat, NEW deltas
      PROVE  /\ [s \in n..n |-> Len(vs)] \in [n..n -> 1..Len(vs)]
             /\ Walk([s \in n..n |-> Len(vs)], vs, n, n, vs[Len(vs)], deltas)
  <2>1. n \in n..n /\ n..(n - 1) = {} /\ \A s \in n..n : s = n
    OBVIOUS
  <2> QED BY <1>1, <2>1 DEF Walk
<1>3. \A n \in Nat : DOMAIN NoRows = n..(n - 1)
  BY DEF NoRows
<1>4. StoredWalk(NoRows, vs[Len(vs)], vs)
  <2>1. 0 \in Nat /\ 0 <= 0
    OBVIOUS
  <2> QED BY <1>2, <1>3, <2>1 DEF StoredWalk
<1>5. ASSUME NEW from \in Nat, NEW shut \in Nat
      PROVE  LiveWalk(NoRows, vs[Len(vs)], from, shut, <<>>, vs)
  <2>1. Len(<<>>) = 0 /\ from + 0 = from /\ from \in 0..from /\ from \in from..(from + shut)
        /\ from \in from..from
    OBVIOUS
  <2>2. [s \in from..from |-> Len(vs)][from] = Len(vs)
    BY <2>1
  <2>3. DOMAIN NoRows = from..(from - 1)
    BY <1>3
  <2> DEFINE c == [s \in from..from |-> Len(vs)]
  <2>4. c \in [from..from -> 1..Len(vs)] /\ c[from] = Len(vs)
        /\ Walk(c, vs, from, from, vs[Len(vs)], Numbered(NoRows, from, <<>>))
    BY <1>2, <2>2
  <2> HIDE DEF c
  <2> QED BY <2>1, <2>3, <2>4 DEF LiveWalk
<1> QED BY <1>4, <1>5

(* Reading a record without deltas. *)
LEMMA WholeRead == ASSUME NEW content PROVE Replayed(content, NoRows) = content
<1> DEFINE vs == <<content>>
           c == [s \in 0..0 |-> 1]
<1>1. vs[1] = content /\ Len(vs) = 1 /\ DOMAIN NoRows = 0..(0 - 1) /\ c[0] = 1
  BY DEF NoRows
<1>2. Walk(c, vs, 0, 0, content, NoRows)
  BY <1>1 DEF Walk
<1> HIDE DEF vs, c
<1>3. Replayed(content, NoRows) = vs[c[0]]
  BY <1>1, <1>2, ReplayedIs
<1> QED BY <1>1, <1>3

-----------------------------------------------------------------------------
(* The stored and the pending deltas of a live message. *)

LEMMA NumberedAt ==
    ASSUME NEW stored, NEW from \in Nat, NEW waiting, Len(waiting) \in Nat, NEW s \in Int
    PROVE  /\ s \in DOMAIN stored => Numbered(stored, from, waiting)[s] = stored[s]
           /\ s \notin DOMAIN stored /\ from <= s /\ s < from + Len(waiting) =>
                 Numbered(stored, from, waiting)[s] = waiting[s - from + 1]
<1> DEFINE N == DOMAIN stored \cup (from..(from + Len(waiting) - 1))
<1>1. Numbered(stored, from, waiting)
        = [t \in N |-> IF t \in DOMAIN stored THEN stored[t] ELSE waiting[t - from + 1]]
  BY Zenon DEF Numbered
<1>2. /\ s \in DOMAIN stored => s \in N
      /\ from <= s /\ s < from + Len(waiting) => s \in N
  OBVIOUS
<1> HIDE DEF N
<1> QED BY <1>1, <1>2, Zenon

LEMMA NumberedIs ==
    ASSUME NEW stored, NEW lo \in Nat, NEW hi \in Nat, NEW from \in Nat, NEW waiting,
           Len(waiting) \in Nat, DOMAIN stored = lo..(hi - 1), lo <= from, from <= hi,
           hi <= from + Len(waiting)
    PROVE  Numbered(stored, from, waiting)
             = [s \in lo..(from + Len(waiting) - 1) |->
                   IF s \in DOMAIN stored THEN stored[s] ELSE waiting[s - from + 1]]
<1> DEFINE N == DOMAIN stored \cup (from..(from + Len(waiting) - 1))
<1>1. Numbered(stored, from, waiting)
        = [t \in N |-> IF t \in DOMAIN stored THEN stored[t] ELSE waiting[t - from + 1]]
  BY Zenon DEF Numbered
<1>2. N = lo..(from + Len(waiting) - 1)
  OBVIOUS
<1> HIDE DEF N
<1> QED BY <1>1, <1>2, Zenon

(* A recorded change prolongs the walk, whether its delta is merged or not. *)
LEMMA RecordWalks ==
    ASSUME IInv, Unreadable \notin ContentType, NEW d \in DeltaType, live,
           versions # <<>>, message = Last(versions),
           LiveWalk(rows, row.content, first, sealed, pending, versions),
           Apply(message, d) \in ContentType
    PROVE  LiveWalk(rows, row.content, first, sealed, Queued(d), Append(versions, Apply(message, d)))
<1> DEFINE top == first + Len(pending)
           v == Apply(message, d)
           ws == Append(versions, v)
           D == Numbered(rows, first, pending)
           E == Numbered(rows, first, Queued(d))
<1>1. /\ first \in Nat /\ sealed \in 0..Len(pending) /\ pending \in Seq(DeltaType)
      /\ Len(pending) \in Nat /\ top \in Nat /\ first <= top /\ first + sealed <= top
      /\ versions \in Seq(ContentType) /\ Len(versions) \in Nat
  BY DEF IInv, DeltasTypeOK
<1>2. message = versions[Len(versions)] /\ Len(versions) \in 1..Len(versions)
  BY <1>1 DEF Last
<1>3. PICK lo \in 0..first, hi \in first..(first + sealed) :
          /\ DOMAIN rows = lo..(hi - 1)
          /\ \E c \in [lo..top -> 1..Len(versions)] :
                Walk(c, versions, lo, top, row.content, D) /\ c[top] = Len(versions)
  BY DEF LiveWalk
<1>4. PICK c \in [lo..top -> 1..Len(versions)] :
          Walk(c, versions, lo, top, row.content, D) /\ c[top] = Len(versions)
  BY <1>3
<1>5. lo \in Nat /\ hi \in Nat /\ lo <= top /\ hi <= first + sealed
  BY <1>1
<1>6. Len(ws) = Len(versions) + 1
  BY <1>1
<1> HIDE DEF D, E, v, ws
<1>7. ASSUME NEW low \in Nat, lo <= low, low <= top, first + Len(Queued(d)) = low + 1,
             \A s \in lo..(low - 1) : E[s] = D[s], v = Apply(versions[c[low]], E[low])
      PROVE  LiveWalk(rows, row.content, first, sealed, Queued(d), ws)
  <2> DEFINE on == [s \in lo..(low + 1) |-> IF s = low + 1 THEN Len(versions) + 1 ELSE c[s]]
  <2>1. Walk(on, ws, lo, low + 1, row.content, E)
    <3>1. v \in ContentType
      BY DEF v
    <3> QED BY <1>1, <1>4, <1>5, <1>7, <3>1, WalkOn DEF ws
  <2>2. on[low + 1] = Len(ws)
    <3>1. low + 1 \in lo..(low + 1)
      BY <1>5, <1>7
    <3> QED BY <1>6, <3>1
  <2> HIDE DEF on
  <2>3. on \in [lo..(low + 1) -> 1..Len(ws)]
    BY <2>1 DEF Walk
  <2>4. /\ on \in [lo..(first + Len(Queued(d))) -> 1..Len(ws)]
        /\ Walk(on, ws, lo, first + Len(Queued(d)), row.content, Numbered(rows, first, Queued(d)))
        /\ on[first + Len(Queued(d))] = Len(ws)
    BY <1>7, <2>1, <2>2, <2>3 DEF E
  <2> QED BY <1>3, <2>4 DEF LiveWalk
<1>8. CASE Len(pending) > sealed /\ Merges(Last(pending), d)
  <2> DEFINE low == top - 1
             p == pending[Len(pending)]
  <2>1. Len(pending) \in 1..Len(pending) /\ Last(pending) = p /\ p \in DeltaType
    BY <1>1, <1>8 DEF Last
  <2>2. Queued(d) = [pending EXCEPT ![Len(pending)] = Merge(p, d)]
    BY <1>8, <2>1 DEF Queued
  <2>3. Len(Queued(d)) = Len(pending)
        /\ \A i \in 1..Len(pending) : Queued(d)[i] = IF i = Len(pending) THEN Merge(p, d) ELSE pending[i]
    BY <1>1, <2>1, <2>2
  <2>4. low \in Nat /\ lo <= low /\ low <= top /\ first + Len(Queued(d)) = low + 1
        /\ low >= first + sealed
    BY <1>1, <1>5, <1>8, <2>3
  <2>5. \A s \in lo..low : s \in DOMAIN rows \/ (s \notin DOMAIN rows /\ s \in first..(top - 1))
    BY <1>1, <1>3, <1>5
  <2>6. ASSUME NEW s \in lo..(low - 1) PROVE E[s] = D[s]
    <3>1. s \in DOMAIN rows \/ (s \notin DOMAIN rows /\ s - first + 1 \in 1..Len(pending)
                                /\ s - first + 1 # Len(pending) /\ s \in first..(top - 1))
      BY <1>1, <2>4, <2>5
    <3>2. CASE s \in DOMAIN rows
      BY <1>1, <2>3, <3>2, NumberedAt DEF D, E
    <3>3. CASE s \notin DOMAIN rows
      <4> DEFINE i == s - first + 1
      <4>1. i \in 1..Len(pending) /\ i # Len(pending) /\ s \in first..(top - 1)
        BY <3>1, <3>3
      <4>2. D[s] = pending[i]
        <5>1. /\ first \in Nat /\ Len(pending) \in Nat
              /\ s \in Int /\ first <= s /\ s < first + Len(pending)
          BY <1>1, <4>1
        <5>2. Numbered(rows, first, pending)[s] = pending[s - first + 1]
          BY <3>3, <5>1, NumberedAt
        <5> QED BY <5>2 DEF D
      <4>3. E[s] = Queued(d)[i]
        <5>1. s \in Int /\ first <= s /\ s < first + Len(Queued(d))
          BY <1>1, <2>3, <4>1
        <5>2. Numbered(rows, first, Queued(d))[s] = Queued(d)[s - first + 1]
          BY <1>1, <2>3, <3>3, <5>1, NumberedAt
        <5> QED BY <5>2 DEF E
      <4>4. Queued(d)[i] = pending[i]
        <5> HIDE DEF i
        <5> QED BY <2>3, <4>1
      <4> QED BY <4>2, <4>3, <4>4
    <3> QED BY <3>2, <3>3
  <2>7. low \notin DOMAIN rows /\ low \in first..(top - 1) /\ low - first + 1 = Len(pending)
    BY <1>1, <1>3, <1>5, <2>4
  <2>8. D[low] = p /\ E[low] = Merge(p, d)
    BY <1>1, <2>1, <2>3, <2>7 DEF D, E, Numbered
  <2>9. c[low] \in 1..Len(versions) /\ versions[c[low]] \in ContentType
    <3>1. low \in lo..top
      BY <2>4
    <3>2. c[low] \in 1..Len(versions)
      <4> HIDE DEF low, top
      <4> QED BY <3>1
    <3> QED BY <1>1, <3>2, ElementOfSeq
  <2>10. message = Apply(versions[c[low]], p)
    <3>1. low \in lo..(top - 1) /\ low + 1 = top
      BY <1>1, <2>4
    <3>2. versions[c[low + 1]] = Apply(versions[c[low]], D[low])
      BY <1>4, <3>1 DEF Walk
    <3> QED BY <1>2, <1>4, <2>8, <3>1, <3>2
  <2>11. v = Apply(versions[c[low]], E[low])
    <3>1. message \in ContentType
      BY DEF IInv, DeltasTypeOK
    <3>2. Apply(versions[c[low]], Merge(p, d)) = Apply(Apply(versions[c[low]], p), d)
      BY <1>8, <2>1, <2>9, <2>10, <3>1, MergeApplies
    <3> QED BY <2>8, <2>10, <3>2 DEF v
  <2> HIDE DEF low
  <2> QED BY <1>7, <2>4, <2>6, <2>11 DEF v, ws
<1>9. CASE ~(Len(pending) > sealed /\ Merges(Last(pending), d))
  <2>1. Queued(d) = Append(pending, d)
    BY <1>9 DEF Queued
  <2>2. Len(Queued(d)) = Len(pending) + 1 /\ Queued(d)[Len(pending) + 1] = d
        /\ \A i \in 1..Len(pending) : Queued(d)[i] = pending[i]
    BY <1>1, <2>1
  <2>3. first + Len(Queued(d)) = top + 1
    BY <1>1, <2>2
  <2>4. ASSUME NEW s \in lo..(top - 1) PROVE E[s] = D[s]
    <3>1. s \in DOMAIN rows \/ (s \notin DOMAIN rows /\ s - first + 1 \in 1..Len(pending)
                                /\ s \in first..(top - 1))
      BY <1>1, <1>3, <1>5
    <3> QED BY <1>1, <2>2, <3>1 DEF D, E, Numbered
  <2>5. top \notin DOMAIN rows /\ top \in first..((first + Len(Queued(d))) - 1)
        /\ top - first + 1 = Len(pending) + 1
    BY <1>1, <1>3, <1>5, <2>3
  <2>6. E[top] = d
    BY <2>2, <2>5 DEF E, Numbered
  <2>7. v = Apply(versions[c[top]], E[top])
    BY <1>2, <1>4, <2>6 DEF v
  <2> HIDE DEF top
  <2> QED BY <1>1, <1>5, <1>7, <2>3, <2>4, <2>7 DEF v, ws
<1> QED BY <1>8, <1>9

(* Inserting a batch leaves the numbered deltas as they are, and a reader further on. *)
LEMMA CommitWalks ==
    ASSUME IInv, live, batch.stage = "copied",
           LiveWalk(rows, row.content, first, sealed, pending, versions)
    PROVE  /\ LiveWalk(Inserted(batch), row.content, first, sealed, pending, versions)
           /\ StoredWalk(Inserted(batch), row.content, versions)
           /\ first..(first + sealed - 1) \subseteq DOMAIN Inserted(batch)
           /\ \E k, j \in 1..Len(versions) :
                 /\ k <= j /\ versions[k] = Replayed(row.content, rows)
                 /\ versions[j] = Replayed(row.content, Inserted(batch))
<1> DEFINE top == first + Len(pending)
           new == first + sealed
           stored == Inserted(batch)
           D == Numbered(rows, first, pending)
           E == Numbered(stored, first, pending)
<1>1. /\ first \in Nat /\ sealed \in 0..Len(pending) /\ pending \in Seq(DeltaType)
      /\ Len(pending) \in Nat /\ top \in Nat /\ first <= new /\ new <= top /\ new \in Nat
      /\ Len(versions) \in Nat
  BY DEF IInv, DeltasTypeOK
<1>2. /\ batch.first = first /\ Len(batch.deltas) = sealed
      /\ \A i \in 1..sealed : batch.deltas[i] = pending[i]
  BY DEF IInv, BatchInv
<1>3. PICK lo \in 0..first, hi \in first..new :
          /\ DOMAIN rows = lo..(hi - 1)
          /\ \E c \in [lo..top -> 1..Len(versions)] :
                Walk(c, versions, lo, top, row.content, D) /\ c[top] = Len(versions)
  BY DEF LiveWalk
<1>4. PICK c \in [lo..top -> 1..Len(versions)] :
          Walk(c, versions, lo, top, row.content, D) /\ c[top] = Len(versions)
  BY <1>3
<1>5. lo \in Nat /\ hi \in Nat /\ lo <= hi /\ hi <= new /\ lo <= new /\ hi <= top
  BY <1>1
<1>6. DOMAIN stored = lo..(new - 1)
  <2>0. DOMAIN stored = DOMAIN rows \cup (batch.first..(batch.first + Len(batch.deltas) - 1))
    BY DEF Inserted
  <2> HIDE DEF stored
  <2>1. DOMAIN stored = DOMAIN rows \cup (first..(new - 1))
    BY <1>1, <1>2, <2>0
  <2> QED BY <1>1, <1>3, <1>5, <2>1
<1>7. \A s \in lo..(new - 1) :
          stored[s] = IF s \in DOMAIN rows THEN rows[s] ELSE pending[s - first + 1]
  <2> SUFFICES ASSUME NEW s \in lo..(new - 1)
               PROVE  stored[s] = IF s \in DOMAIN rows THEN rows[s] ELSE pending[s - first + 1]
    OBVIOUS
  <2>1. s \in DOMAIN stored
    BY <1>6
  <2>2. stored[s] = IF s \in DOMAIN rows THEN rows[s] ELSE batch.deltas[s - first + 1]
    BY <1>2, <2>1 DEF Inserted
  <2>3. s \notin DOMAIN rows => s - first + 1 \in 1..sealed
    BY <1>1, <1>3, <1>5
  <2> HIDE DEF stored
  <2> QED BY <1>2, <2>2, <2>3
<1> HIDE DEF stored
<1>8. E = D
  <2>2. /\ D = [s \in lo..(top - 1) |-> IF s \in DOMAIN rows THEN rows[s] ELSE pending[s - first + 1]]
        /\ E = [s \in lo..(top - 1) |-> IF s \in DOMAIN stored THEN stored[s] ELSE pending[s - first + 1]]
    <3>1. /\ lo <= first /\ first <= hi /\ hi <= first + Len(pending)
          /\ first <= new /\ new <= first + Len(pending)
      BY <1>1, <1>5
    <3>2. lo \in Nat /\ hi \in Nat /\ first \in Nat /\ new \in Nat /\ Len(pending) \in Nat
      BY <1>1, <1>5
    <3>3. DOMAIN rows = lo..(hi - 1)
      BY <1>3
    <3> HIDE DEF new
    <3>4. D = [s \in lo..(top - 1) |-> IF s \in DOMAIN rows THEN rows[s] ELSE pending[s - first + 1]]
      <4>1. lo <= first /\ first <= hi /\ hi <= first + Len(pending)
        BY <3>1
      <4>2. lo \in Nat /\ hi \in Nat /\ first \in Nat /\ Len(pending) \in Nat
        BY <3>2
      <4>3. Numbered(rows, first, pending)
              = [s \in lo..(first + Len(pending) - 1) |->
                    IF s \in DOMAIN rows THEN rows[s] ELSE pending[s - first + 1]]
        BY <3>3, <4>1, <4>2, NumberedIs
      <4>4. top - 1 = first + Len(pending) - 1
        BY <4>2
      <4> QED BY <4>3, <4>4, Zenon
    <3>5. E = [s \in lo..(top - 1) |-> IF s \in DOMAIN stored THEN stored[s] ELSE pending[s - first + 1]]
      BY <1>6, <1>5, <3>1, <3>2, NumberedIs
    <3> QED BY <3>4, <3>5
  <2>3. \A s \in lo..(top - 1) :
            (IF s \in DOMAIN stored THEN stored[s] ELSE pending[s - first + 1])
            = IF s \in DOMAIN rows THEN rows[s] ELSE pending[s - first + 1]
    <3> SUFFICES ASSUME NEW s \in lo..(top - 1)
                 PROVE  (IF s \in DOMAIN stored THEN stored[s] ELSE pending[s - first + 1])
                        = IF s \in DOMAIN rows THEN rows[s] ELSE pending[s - first + 1]
      OBVIOUS
    <3>1. CASE s \in lo..(new - 1)
      BY <1>6, <1>7, <3>1
    <3>2. CASE s \notin lo..(new - 1)
      <4>1. s \notin DOMAIN stored /\ s \notin DOMAIN rows
        BY <1>1, <1>3, <1>5, <1>6, <3>2
      <4> QED BY <4>1
    <3> QED BY <3>1, <3>2
  <2> HIDE DEF D, E
  <2> QED BY <2>2, <2>3
<1> HIDE DEF D
<1>9. LiveWalk(stored, row.content, first, sealed, pending, versions)
  <2>1. new \in first..(first + sealed) /\ DOMAIN stored = lo..(new - 1)
    BY <1>1, <1>6
  <2> HIDE DEF new
  <2> QED BY <1>4, <1>8, <2>1 DEF LiveWalk
<1>10. \A s \in lo..(hi - 1) : rows[s] = D[s]
  BY <1>3 DEF D, Numbered
<1>11. \A s \in lo..(new - 1) : stored[s] = D[s]
  BY <1>6, <1>8 DEF Numbered
<1>12. Walk([s \in lo..hi |-> c[s]], versions, lo, hi, row.content, rows)
  BY <1>1, <1>4, <1>5, <1>10, WalkCut
<1>13. Walk([s \in lo..new |-> c[s]], versions, lo, new, row.content, stored)
  BY <1>1, <1>4, <1>5, <1>11, WalkCut
<1>14. StoredWalk(stored, row.content, versions)
  <2> DEFINE cut == [s \in lo..new |-> c[s]]
  <2>1. cut \in [lo..new -> 1..Len(versions)] /\ Walk(cut, versions, lo, new, row.content, stored)
    BY <1>13 DEF Walk
  <2> HIDE DEF cut, new
  <2> QED BY <1>1, <1>5, <1>6, <2>1 DEF StoredWalk
<1>15. /\ Replayed(row.content, rows) = versions[c[hi]]
       /\ Replayed(row.content, stored) = versions[c[new]]
  <2>1. hi \in lo..hi /\ new \in lo..new
    BY <1>1, <1>5
  <2>2. Replayed(row.content, rows) = versions[[s \in lo..hi |-> c[s]][hi]]
    BY <1>3, <1>5, <1>12, ReplayedIs
  <2>3. Replayed(row.content, stored) = versions[[s \in lo..new |-> c[s]][new]]
    BY <1>1, <1>5, <1>6, <1>13, ReplayedIs
  <2> QED BY <2>1, <2>2, <2>3
<1>16. c[hi] \in 1..Len(versions) /\ c[new] \in 1..Len(versions) /\ c[hi] <= c[new]
  <2>1. hi \in lo..top /\ new \in lo..top
    BY <1>1, <1>5
  <2> HIDE DEF top, new
  <2> QED BY <1>4, <1>5, <2>1 DEF Walk
<1>17. first..(new - 1) \subseteq DOMAIN stored
  BY <1>1, <1>5, <1>6
<1>18. \E k, j \in 1..Len(versions) :
          /\ k <= j /\ versions[k] = Replayed(row.content, rows)
          /\ versions[j] = Replayed(row.content, stored)
  BY <1>15, <1>16
<1> HIDE DEF top, new
<1>19. \E k, j \in 1..Len(versions) :
          /\ k <= j /\ versions[k] = Replayed(row.content, rows)
          /\ versions[j] = Replayed(row.content, Inserted(batch))
  BY <1>18 DEF stored
<1>20. first..(first + sealed - 1) \subseteq DOMAIN Inserted(batch)
  BY <1>1, <1>17 DEF stored, new
<1> QED BY <1>9, <1>14, <1>19, <1>20, Zenon DEF stored

(* Draining what was written leaves the numbered deltas as they are. *)
LEMMA DrainWalks ==
    ASSUME IInv, first..(first + sealed - 1) \subseteq DOMAIN rows,
           LiveWalk(rows, row.content, first, sealed, pending, versions)
    PROVE  LiveWalk(rows, row.content, first + sealed, 0,
                    SubSeq(pending, sealed + 1, Len(pending)), versions)
<1> DEFINE top == first + Len(pending)
           new == first + sealed
           rest == SubSeq(pending, sealed + 1, Len(pending))
           D == Numbered(rows, first, pending)
           E == Numbered(rows, new, rest)
<1>1. /\ first \in Nat /\ sealed \in 0..Len(pending) /\ pending \in Seq(DeltaType)
      /\ Len(pending) \in Nat /\ top \in Nat /\ first <= new /\ new <= top /\ new \in Nat
  BY DEF IInv, DeltasTypeOK
<1>2. Len(rest) = Len(pending) - sealed /\ \A i \in 1..Len(rest) : rest[i] = pending[sealed + i]
  BY <1>1
<1> HIDE DEF rest
<1>3. PICK lo \in 0..first, hi \in first..new :
          /\ DOMAIN rows = lo..(hi - 1)
          /\ \E c \in [lo..top -> 1..Len(versions)] :
                Walk(c, versions, lo, top, row.content, D) /\ c[top] = Len(versions)
  BY DEF LiveWalk
<1>4. hi = new
  <2>1. sealed > 0 => new - 1 \in first..(new - 1)
    BY <1>1
  <2>2. sealed > 0 => new - 1 \in lo..(hi - 1)
    <3>0. first..(first + sealed - 1) \subseteq lo..(hi - 1)
      BY <1>3
    <3>1. new - 1 = first + sealed - 1
      BY <1>1
    <3> HIDE DEF new
    <3>2. first..(new - 1) \subseteq lo..(hi - 1)
      BY <3>0, <3>1, Zenon
    <3> QED BY <2>1, <3>2, Zenon
  <2>3. lo \in Int /\ hi \in Int /\ hi <= new /\ first <= hi /\ new \in Int
    BY <1>1
  <2>4. sealed = 0 => new = first
    BY <1>1
  <2>5. sealed > 0 \/ sealed = 0
    BY <1>1
  <2>6. first \in Int
    BY <1>1
  <2> HIDE DEF new
  <2> QED BY <2>2, <2>3, <2>4, <2>5, <2>6
<1>5. new + Len(rest) = top
  BY <1>1, <1>2
<1>6. E = D
  <2>1. /\ lo \in Nat /\ lo <= first /\ first <= hi /\ hi <= top /\ lo <= new /\ new <= hi /\ hi \in Nat
        /\ Len(rest) \in Nat
    BY <1>1, <1>2, <1>4
  <2>2. /\ D = [s \in lo..(top - 1) |-> IF s \in DOMAIN rows THEN rows[s] ELSE pending[s - first + 1]]
        /\ E = [s \in lo..(top - 1) |-> IF s \in DOMAIN rows THEN rows[s] ELSE rest[s - new + 1]]
    <3>1. /\ lo <= first /\ first <= hi /\ hi <= first + Len(pending)
          /\ lo <= new /\ new <= hi /\ hi <= new + Len(rest)
      BY <1>1, <1>5, <2>1
    <3>2. /\ lo \in Nat /\ hi \in Nat /\ first \in Nat /\ new \in Nat
          /\ Len(pending) \in Nat /\ Len(rest) \in Nat
      BY <1>1, <2>1
    <3>3. DOMAIN rows = lo..(hi - 1)
      BY <1>3
    <3>4. D = [s \in lo..(top - 1) |-> IF s \in DOMAIN rows THEN rows[s] ELSE pending[s - first + 1]]
      <4>1. lo <= first /\ first <= hi /\ hi <= first + Len(pending)
        BY <3>1
      <4>2. lo \in Nat /\ hi \in Nat /\ first \in Nat /\ Len(pending) \in Nat
        BY <3>2
      <4>3. Numbered(rows, first, pending)
              = [s \in lo..(first + Len(pending) - 1) |->
                    IF s \in DOMAIN rows THEN rows[s] ELSE pending[s - first + 1]]
        BY <3>3, <4>1, <4>2, NumberedIs
      <4>4. top - 1 = first + Len(pending) - 1
        BY <4>2
      <4> QED BY <4>3, <4>4, Zenon
    <3>5. ASSUME NEW from \in Nat, from = new, NEW last, last = from + Len(rest) - 1
          PROVE  Numbered(rows, from, rest)
                   = [s \in lo..last |-> IF s \in DOMAIN rows THEN rows[s] ELSE rest[s - from + 1]]
      <4>1. lo <= from /\ from <= hi /\ hi <= from + Len(rest)
        BY <3>1, <3>5
      <4>2. lo \in Nat /\ hi \in Nat /\ Len(rest) \in Nat
        BY <3>2
      <4> HIDE DEF new, top
      <4>3. Numbered(rows, from, rest)
              = [s \in lo..(from + Len(rest) - 1) |->
                    IF s \in DOMAIN rows THEN rows[s] ELSE rest[s - from + 1]]
        BY <3>3, <4>1, <4>2, NumberedIs
      <4> QED BY <3>5, <4>3, Zenon
    <3>6. E = [s \in lo..(top - 1) |-> IF s \in DOMAIN rows THEN rows[s] ELSE rest[s - new + 1]]
      <4>0. top = new + Len(rest)
        BY <1>5, Zenon
      <4> HIDE DEF new, top
      <4>1. top - 1 = new + Len(rest) - 1
        BY <3>2, <4>0
      <4> QED BY <3>2, <3>5, <4>1, Zenon
    <3> QED BY <3>4, <3>6, Zenon
  <2>3. ASSUME NEW s \in lo..(top - 1), s \notin DOMAIN rows
        PROVE  rest[s - new + 1] = pending[s - first + 1]
    <3>1. s \in new..(top - 1)
      BY <1>1, <1>3, <1>4, <2>3
    <3>0. /\ first \in Int /\ sealed \in Int /\ Len(pending) \in Int /\ s \in Int
          /\ new <= s /\ s < top /\ Len(rest) = Len(pending) - sealed
      BY <1>1, <1>2, <3>1
    <3>2. s - new + 1 \in 1..Len(rest) /\ sealed + (s - new + 1) = s - first + 1
      BY <3>0
    <3> DEFINE i == s - new + 1
    <3>3. i \in 1..Len(rest) /\ sealed + i = s - first + 1
      BY <3>2
    <3> HIDE DEF i, new
    <3>4. rest[i] = pending[sealed + i]
      BY <1>2, <3>3
    <3> QED BY <3>3, <3>4 DEF i
  <2> HIDE DEF D, E
  <2> QED BY <2>2, <2>3
<1> HIDE DEF D
<1>7. lo \in 0..new /\ new \in new..(new + 0)
  BY <1>1
<1> QED BY <1>3, <1>4, <1>5, <1>6, <1>7 DEF LiveWalk, rest

-----------------------------------------------------------------------------
(* The invariant holds at first, and every step keeps it. *)
LEMMA ReplayInvInit == DeltasInit => ReplayInv
<1> SUFFICES ASSUME DeltasInit PROVE ReplayInv
  OBVIOUS
<1>1. IInv
  BY IInvInit
<1>2. versions = <<Empty>> /\ versions \in Seq(ContentType) /\ versions[Len(versions)] = Empty
      /\ versions # <<>>
  BY DEF DeltasInit, Empty, ContentType
<1>3. StoredWalk(NoRows, Empty, versions) /\ LiveWalk(NoRows, Empty, 0, 0, <<>>, versions)
  <2>1. 0 \in Nat
    OBVIOUS
  <2> QED BY <1>2, <2>1, StoredWhole
<1>4. StoredInv /\ LiveInv
  BY <1>3 DEF DeltasInit, StoredInv, LiveInv
<1>5. WrittenInv
  BY DEF DeltasInit, WrittenInv, NoBatch
<1>6. MemoryInv /\ AnsweredInv
  BY <1>2 DEF DeltasInit, MemoryInv, AnsweredInv, Last
<1> QED BY <1>1, <1>4, <1>5, <1>6 DEF ReplayInv

LEMMA RecordKeepsReplay ==
    ASSUME ReplayInv, Unreadable \notin ContentType, Recording, NEW d \in DeltaType, Record(d), IInv'
    PROVE  ReplayInv'
<1> DEFINE v == Apply(message, d)
<1>1. /\ message' = v /\ pending' = Queued(d) /\ versions' = Append(versions, v)
      /\ UNCHANGED <<live, first, sealed, owned, batch, cancelling, row, rows, answered>>
      /\ Apply(message, d) # Unreadable
  BY DEF Record, durable
<1>2. live /\ cancelling = "no" /\ versions # <<>> /\ message = Last(versions)
  BY DEF Recording, ReplayInv, MemoryInv
<1>3. versions \in Seq(ContentType) /\ v \in ContentType
  BY <1>1, ApplyType DEF ReplayInv, IInv, DeltasTypeOK
<1>4. versions' # <<>> /\ Last(versions') = v
  BY <1>1, <1>3 DEF Last
<1>5. StoredInv'
  <2>1. Streaming' <=> Streaming
    BY <1>1 DEF Streaming
  <2>2. ASSUME Streaming PROVE StoredWalk(rows, row.content, Append(versions, v))
    <3>1. StoredWalk(rows, row.content, versions)
      BY <2>2 DEF ReplayInv, StoredInv
    <3> HIDE DEF v
    <3> QED BY <1>3, <3>1, StoredLater
  <2> QED BY <1>1, <2>1, <2>2 DEF StoredInv
<1>6. LiveInv'
  <2>1. ASSUME Streaming
        PROVE  LiveWalk(rows, row.content, first, sealed, Queued(d), Append(versions, v))
    BY <1>2, <1>3, <2>1, RecordWalks DEF ReplayInv, LiveInv
  <2> QED BY <1>1, <2>1 DEF LiveInv, Streaming
<1>7. WrittenInv'
  BY <1>1 DEF ReplayInv, WrittenInv, Streaming
<1>8. MemoryInv'
  BY <1>1, <1>2, <1>4 DEF MemoryInv
<1>9. ~answered /\ row.status # "complete"
  BY <1>2 DEF ReplayInv, AnsweredInv
<1>10. AnsweredInv'
  BY <1>1, <1>9 DEF AnsweredInv
<1> QED BY <1>5, <1>6, <1>7, <1>8, <1>10 DEF ReplayInv

(* The message leaves the memory: what is stored stays, or is replaced by all of it. *)
LEMMA ForgottenKeepsReplay ==
    ASSUME ReplayInv, live' = FALSE, cancelling' = "no", UNCHANGED versions, IInv',
           batch'.stage # "written",
           \/ row' = row /\ rows' = rows /\ answered' = answered
           \/ row'.status = "complete" /\ row'.content = Last(versions)
           \/ row'.status = "gone"
    PROVE  ReplayInv'
<1>1. LiveInv' /\ MemoryInv' /\ WrittenInv'
  BY DEF ReplayInv, LiveInv, MemoryInv, WrittenInv
<1>2. CASE row' = row /\ rows' = rows /\ answered' = answered
  BY <1>1, <1>2 DEF ReplayInv, StoredInv, AnsweredInv, Streaming
<1>3. CASE row'.status \in {"complete", "gone"}
           /\ (row'.status = "complete" => row'.content = Last(versions))
  BY <1>1, <1>3 DEF ReplayInv, StoredInv, AnsweredInv, Streaming
<1> QED BY <1>2, <1>3

LEMMA ReplayInvStep ==
    ASSUME ReplayInv, [DeltasNext]_deltasVars, ~CancelFaults, Unreadable \notin ContentType
    PROVE  ReplayInv'
<1>1. IInv'
  BY IInvStep DEF ReplayInv
<1>2. IInv /\ StoredInv /\ LiveInv /\ WrittenInv /\ MemoryInv /\ AnsweredInv /\ DeltasTypeOK /\ BatchInv
  BY DEF ReplayInv, IInv
<1>3. versions \in Seq(ContentType) /\ versions # <<>> /\ Last(versions) = versions[Len(versions)]
  BY <1>2 DEF DeltasTypeOK, MemoryInv, Last
<1>4. ASSUME NEW id \in ItemIds, NEW phase \in Phases, AppendText(id, phase)
      PROVE  ReplayInv'
  <2> DEFINE index == IF itemIndex[id] = 0 THEN Len(message.items) + 1 ELSE itemIndex[id]
  <2>1. index \in Nat
    BY <1>2 DEF DeltasTypeOK, ContentType
  <2>2. Len(versions) \in Nat
    BY <1>3
  <2>3. Record(Text(index, phase, <<Len(versions)>>)) /\ Recording
    BY <1>4 DEF AppendText
  <2>4. Text(index, phase, <<Len(versions)>>) \in DeltaType
    BY <2>1, <2>2, DeltaTypes DEF Tags
  <2> QED BY <1>1, <2>3, <2>4, RecordKeepsReplay
<1>5. ASSUME NEW tag \in Calls \cup {Reasoning}, AppendItem(tag) PROVE ReplayInv'
  <2>1. Item(tag, <<Len(versions)>>) \in DeltaType
    BY <1>3, DeltaTypes DEF Tags
  <2> QED BY <1>1, <1>5, <2>1, RecordKeepsReplay DEF AppendItem
<1>6. ASSUME SetUsage PROVE ReplayInv'
  <2>1. Usage(<<Len(versions)>>) \in DeltaType
    BY <1>3, DeltaTypes DEF Tags
  <2> QED BY <1>1, <1>6, <2>1, RecordKeepsReplay DEF SetUsage
<1>7. ASSUME ResetMessage PROVE ReplayInv'
  <2>1. ResetDelta(<<Len(versions)>>) \in DeltaType
    BY <1>3, DeltaTypes DEF Tags
  <2> QED BY <1>1, <1>7, <2>1, RecordKeepsReplay DEF ResetMessage
<1>8. ASSUME PublishSeal PROVE ReplayInv'
  <2>1. /\ UNCHANGED <<live, message, pending, first, cancelling, row, rows, answered, versions>>
        /\ batch'.stage = "copied" /\ sealed' = Len(pending)
    BY <1>8 DEF PublishSeal, durable
  <2>2. StoredInv' /\ WrittenInv' /\ MemoryInv' /\ AnsweredInv'
    BY <1>2, <2>1 DEF StoredInv, WrittenInv, MemoryInv, AnsweredInv, Streaming
  <2>3. first..(first + sealed) \subseteq first..(first + Len(pending))
    BY <1>2 DEF DeltasTypeOK
  <2>4. LiveInv'
    BY <1>2, <2>1, <2>3 DEF LiveInv, LiveWalk, Streaming
  <2> QED BY <1>1, <2>2, <2>4 DEF ReplayInv
<1>9. ASSUME PublishCommit PROVE ReplayInv'
  <2>1. /\ rows' = Inserted(batch)
        /\ UNCHANGED <<live, message, pending, first, sealed, cancelling, row, answered, versions>>
        /\ batch.stage = "copied"
    BY <1>9 DEF PublishCommit, memory
  <2>2. live /\ cancelling = "no" /\ ~answered /\ row.status # "complete"
    BY <1>2, <2>1 DEF BatchInv, AnsweredInv
  <2>3. CASE Streaming
    <3>1. /\ LiveWalk(Inserted(batch), row.content, first, sealed, pending, versions)
          /\ StoredWalk(Inserted(batch), row.content, versions)
          /\ first..(first + sealed - 1) \subseteq DOMAIN Inserted(batch)
      BY <1>2, <2>1, <2>2, <2>3, CommitWalks DEF LiveInv
    <3>2. StoredInv' /\ LiveInv' /\ WrittenInv'
      BY <2>1, <3>1 DEF StoredInv, LiveInv, WrittenInv
    <3>3. MemoryInv' /\ AnsweredInv'
      BY <1>2, <2>1, <2>2 DEF MemoryInv, AnsweredInv
    <3> QED BY <1>1, <3>2, <3>3 DEF ReplayInv
  <2>4. CASE ~Streaming
    <3>1. ~Streaming'
      BY <2>1, <2>4 DEF Streaming
    <3>2. StoredInv' /\ LiveInv' /\ WrittenInv'
      BY <3>1 DEF StoredInv, LiveInv, WrittenInv
    <3>3. MemoryInv' /\ AnsweredInv'
      BY <1>2, <2>1, <2>2 DEF MemoryInv, AnsweredInv
    <3> QED BY <1>1, <3>2, <3>3 DEF ReplayInv
  <2> QED BY <2>3, <2>4
<1>10. ASSUME PublishFail PROVE ReplayInv'
  <2>1. /\ UNCHANGED <<live, message, pending, first, sealed, cancelling, row, rows, answered, versions>>
        /\ batch'.stage = "none"
    BY <1>10 DEF PublishFail, memory, durable, NoBatch
  <2>2. StoredInv' /\ LiveInv' /\ WrittenInv' /\ MemoryInv' /\ AnsweredInv'
    BY <1>2, <2>1 DEF StoredInv, LiveInv, WrittenInv, MemoryInv, AnsweredInv, Streaming
  <2> QED BY <1>1, <2>2 DEF ReplayInv
<1>11. ASSUME PublishDrain PROVE ReplayInv'
  <2>1. Len(batch.deltas) = sealed /\ batch.stage = "written"
    BY <1>2, <1>11 DEF PublishDrain, BatchInv
  <2>2. /\ pending' = SubSeq(pending, sealed + 1, Len(pending)) /\ first' = first + sealed
        /\ sealed' = 0 /\ batch'.stage = "none"
        /\ UNCHANGED <<live, message, cancelling, row, rows, answered, versions>>
    BY <1>11, <2>1 DEF PublishDrain, durable, NoBatch
  <2>3. StoredInv' /\ WrittenInv' /\ MemoryInv' /\ AnsweredInv'
    BY <1>2, <2>2 DEF StoredInv, WrittenInv, MemoryInv, AnsweredInv, Streaming
  <2>4. LiveInv'
    <3>1. ASSUME live, Streaming, cancelling = "no"
          PROVE  LiveWalk(rows, row.content, first + sealed, 0,
                          SubSeq(pending, sealed + 1, Len(pending)), versions)
      <4>1. LiveWalk(rows, row.content, first, sealed, pending, versions)
            /\ first..(first + sealed - 1) \subseteq DOMAIN rows
        BY <1>2, <2>1, <3>1 DEF LiveInv, WrittenInv
      <4> QED BY <1>2, <4>1, DrainWalks
    <3> QED BY <2>2, <3>1 DEF LiveInv, Streaming
  <2> QED BY <1>1, <2>3, <2>4 DEF ReplayInv
<1>12. ASSUME CompleteMessage PROVE ReplayInv'
  <2>1. /\ live' = FALSE /\ cancelling' = "no" /\ UNCHANGED versions /\ batch'.stage # "written"
        /\ row'.status = "complete" /\ row'.content = Last(versions)
    BY <1>2, <1>12 DEF CompleteMessage, SavedAs, Forgotten, LockFree, MemoryInv
  <2> QED BY <1>1, <2>1, ForgottenKeepsReplay
<1>13. ASSUME Abort PROVE ReplayInv'
  <2>1. /\ live' = FALSE /\ cancelling' = "no" /\ UNCHANGED versions /\ batch'.stage # "written"
        /\ row'.status = "gone"
    BY <1>13 DEF Abort, Forgotten, LockFree
  <2> QED BY <1>1, <2>1, ForgottenKeepsReplay
<1>14. ASSUME CancelSave PROVE ReplayInv'
  <2>1. /\ live /\ cancelling = "no" /\ row' = [status |-> "streaming", content |-> message]
        /\ rows' = NoRows /\ cancelling' = "saved" /\ batch.stage = "none"
        /\ UNCHANGED <<live, message, batch, answered, versions>>
    BY <1>14 DEF CancelSave, SavedAs, LockFree, memory
  <2>2. message = Last(versions) /\ ~answered
    BY <1>2, <2>1 DEF MemoryInv, AnsweredInv
  <2>3. StoredInv'
    BY <1>3, <2>1, <2>2, StoredWhole DEF StoredInv
  <2>4. LiveInv' /\ WrittenInv' /\ MemoryInv' /\ AnsweredInv'
    BY <1>2, <2>1, <2>2 DEF LiveInv, WrittenInv, MemoryInv, AnsweredInv
  <2> QED BY <1>1, <2>3, <2>4 DEF ReplayInv
<1>15. ASSUME CancelAnswer PROVE ReplayInv'
  <2>1. /\ cancelling = "saved" /\ row.status = "streaming" /\ answered' = TRUE
        /\ cancelling' = "answered"
        /\ UNCHANGED <<live, message, batch, first, sealed, row, rows, versions>>
    BY <1>15 DEF CancelAnswer, memory
  <2>2. live /\ row.content = Last(versions) /\ rows = NoRows
    BY <1>2, <2>1 DEF MemoryInv, Streaming
  <2>3. StoredInv' /\ LiveInv' /\ WrittenInv' /\ MemoryInv' /\ AnsweredInv'
    BY <1>2, <2>1, <2>2
    DEF StoredInv, LiveInv, WrittenInv, MemoryInv, AnsweredInv, Streaming
  <2> QED BY <1>1, <2>3 DEF ReplayInv
<1>16. ASSUME CancelComplete PROVE ReplayInv'
  <2>1. batch.stage = "none"
    BY <1>2, <1>16 DEF CancelComplete, LockFree, BatchInv
  <2>2. /\ live' = FALSE /\ cancelling' = "no" /\ UNCHANGED versions /\ batch'.stage # "written"
        /\ row'.status = "complete" /\ row'.content = Last(versions)
    BY <1>2, <1>16, <2>1 DEF CancelComplete, SavedAs, Forgotten, MemoryInv
  <2> QED BY <1>1, <2>2, ForgottenKeepsReplay
<1>17. ASSUME CancelFail PROVE ReplayInv'
  <2>1. /\ pending = <<>> /\ cancelling = "saved" /\ cancelling' = "no"
        /\ UNCHANGED <<live, message, pending, batch, first, sealed, row, rows, answered, versions>>
    BY <1>17 DEF CancelFail, memory, durable
  <2>2. live /\ ~answered /\ row.status # "complete"
    BY <1>2, <2>1 DEF MemoryInv, AnsweredInv
  <2>3. StoredInv' /\ WrittenInv' /\ MemoryInv' /\ AnsweredInv'
    BY <1>2, <2>1, <2>2 DEF StoredInv, WrittenInv, MemoryInv, AnsweredInv, Streaming
  <2>4. LiveInv'
    <3>1. ASSUME Streaming
          PROVE  LiveWalk(rows, row.content, first, sealed, pending, versions)
      <4>1. row.content = versions[Len(versions)] /\ rows = NoRows
        BY <1>2, <1>3, <2>1, <2>2, <3>1 DEF MemoryInv
      <4>2. first \in Nat /\ sealed \in Nat
        BY <1>2 DEF DeltasTypeOK
      <4> QED BY <1>3, <2>1, <4>1, <4>2, StoredWhole
    <3> QED BY <2>1, <3>1 DEF LiveInv, Streaming
  <2> QED BY <1>1, <2>3, <2>4 DEF ReplayInv
<1>18. ASSUME LoseLease PROVE ReplayInv'
  <2>1. UNCHANGED <<live, message, pending, first, sealed, batch, cancelling, row, rows, answered, versions>>
    BY <1>18 DEF LoseLease, memory, durable
  <2>2. StoredInv' /\ LiveInv' /\ WrittenInv' /\ MemoryInv' /\ AnsweredInv'
    BY <1>2, <2>1 DEF StoredInv, LiveInv, WrittenInv, MemoryInv, AnsweredInv, Streaming
  <2> QED BY <1>1, <2>2 DEF ReplayInv
<1>19. ASSUME Discard PROVE ReplayInv'
  <2>1. /\ live' = FALSE /\ cancelling' = "no" /\ UNCHANGED versions /\ batch'.stage # "written"
        /\ row' = row /\ rows' = rows /\ answered' = answered
    BY <1>19 DEF Discard, Forgotten, durable
  <2> QED BY <1>1, <2>1, ForgottenKeepsReplay
<1>20. ASSUME OwnerCrash PROVE ReplayInv'
  <2>1. /\ live' = FALSE /\ cancelling' = "no" /\ UNCHANGED versions /\ batch'.stage # "written"
        /\ row' = row /\ rows' = rows /\ answered' = answered
    BY <1>20 DEF OwnerCrash, Forgotten, durable, NoBatch
  <2> QED BY <1>1, <2>1, ForgottenKeepsReplay
<1>21. ASSUME Recover PROVE ReplayInv'
  <2>1. /\ row.status = "streaming"
        /\ row' = IF answered THEN [status |-> "complete", content |-> Replay]
                              ELSE [status |-> "gone", content |-> Empty]
        /\ rows' = NoRows
        /\ UNCHANGED <<live, message, batch, first, sealed, cancelling, answered, versions>>
    BY <1>21 DEF Recover, memory
  <2>2. answered => Replay = Last(versions)
    BY <1>2, <2>1, WholeRead DEF AnsweredInv, Streaming, Replay
  <2>3. row'.status # "streaming" /\ (row'.status = "complete" => answered /\ row'.content = Last(versions))
    BY <2>1, <2>2
  <2>4. StoredInv' /\ LiveInv' /\ WrittenInv' /\ MemoryInv' /\ AnsweredInv'
    BY <1>2, <2>1, <2>3 DEF StoredInv, LiveInv, WrittenInv, MemoryInv, AnsweredInv, Streaming
  <2> QED BY <1>1, <2>4 DEF ReplayInv
<1>22. ASSUME UNCHANGED deltasVars PROVE ReplayInv'
  <2>1. UNCHANGED <<live, message, pending, first, sealed, batch, cancelling, row, rows, answered, versions>>
    BY <1>22 DEF deltasVars, memory, durable
  <2>2. StoredInv' /\ LiveInv' /\ WrittenInv' /\ MemoryInv' /\ AnsweredInv'
    BY <1>2, <2>1 DEF StoredInv, LiveInv, WrittenInv, MemoryInv, AnsweredInv, Streaming
  <2> QED BY <1>1, <2>2 DEF ReplayInv
<1> QED
  BY <1>4, <1>5, <1>6, <1>7, <1>8, <1>9, <1>10, <1>11, <1>12, <1>13, <1>14, <1>15, <1>16,
     <1>17, <1>18, <1>19, <1>20, <1>21, <1>22 DEF DeltasNext, Ended

(* The durable message moves on to a later version, or stays. *)
LEMMA MovesOn ==
    ASSUME ReplayInv, [DeltasNext]_deltasVars, ~CancelFaults, Unreadable \notin ContentType,
           row.status = "streaming", row'.status # "gone"
    PROVE  \E k \in DOMAIN versions, j \in DOMAIN versions' :
               k <= j /\ versions[k] = Replay /\ versions'[j] = Replay'
<1>1. IInv /\ StoredInv /\ LiveInv /\ MemoryInv /\ Streaming /\ DeltasTypeOK /\ BatchInv
  BY DEF ReplayInv, IInv, Streaming
<1>2. IInv' /\ DeltasTypeOK'
  BY <1>1, IInvStep DEF IInv
<1>3. versions \in Seq(ContentType) /\ versions # <<>> /\ Last(versions) = versions[Len(versions)]
  BY <1>1 DEF DeltasTypeOK, MemoryInv, Last
<1>4. Len(versions) \in Nat /\ DOMAIN versions = 1..Len(versions) /\ Len(versions) \in DOMAIN versions
  BY <1>3
<1>5. PICK k \in 1..Len(versions) : versions[k] = Replay
  BY <1>1, StoredRead DEF StoredInv, Replay, Streaming
<1>6. ASSUME Replay' = Replay, versions' = versions \/ versions' = Append(versions, message')
      PROVE  \E n \in DOMAIN versions, j \in DOMAIN versions' :
                 n <= j /\ versions[n] = Replay /\ versions'[j] = Replay'
  <2>1. message' \in ContentType
    BY <1>2 DEF DeltasTypeOK
  <2>2. k \in DOMAIN versions' /\ versions'[k] = versions[k]
    BY <1>3, <1>5, <1>6, <2>1
  <2>3. k \in DOMAIN versions /\ k <= k
    BY <1>4
  <2> QED BY <1>5, <1>6, <2>2, <2>3, Zenon
<1>7. ASSUME Replay' = message, live, versions' = versions
      PROVE  \E n \in DOMAIN versions, j \in DOMAIN versions' :
                 n <= j /\ versions[n] = Replay /\ versions'[j] = Replay'
  <2>1. message = versions[Len(versions)]
    BY <1>1, <1>3, <1>7 DEF MemoryInv
  <2>2. k \in DOMAIN versions /\ k <= Len(versions)
    BY <1>4
  <2> QED BY <1>4, <1>5, <1>7, <2>1, <2>2, Zenon
<1>8. ASSUME row' = row, rows' = rows PROVE Replay' = Replay
  BY <1>8 DEF Replay
<1>9. ASSUME NEW d, Record(d)
      PROVE  Replay' = Replay /\ versions' = Append(versions, message')
  BY <1>8, <1>9 DEF Record, durable
<1>10. ASSUME row' = row, rows' = rows, versions' = versions
       PROVE  \E n \in DOMAIN versions, j \in DOMAIN versions' :
                  n <= j /\ versions[n] = Replay /\ versions'[j] = Replay'
  BY <1>6, <1>8, <1>10
<1>11. CASE \E id \in ItemIds, phase \in Phases : AppendText(id, phase)
  BY <1>6, <1>9, <1>11 DEF AppendText
<1>12. CASE \E tag \in Calls \cup {Reasoning} : AppendItem(tag)
  BY <1>6, <1>9, <1>12 DEF AppendItem
<1>13. CASE SetUsage
  BY <1>6, <1>9, <1>13 DEF SetUsage
<1>14. CASE ResetMessage
  BY <1>6, <1>9, <1>14 DEF ResetMessage
<1>15. CASE PublishSeal
  BY <1>10, <1>15 DEF PublishSeal, durable
<1>16. CASE PublishCommit
  <2>1. /\ rows' = Inserted(batch) /\ row' = row /\ versions' = versions /\ batch.stage = "copied"
    BY <1>16 DEF PublishCommit
  <2>2. live /\ cancelling = "no"
    BY <1>1, <2>1 DEF BatchInv
  <2>3. \E n, j \in 1..Len(versions) :
            /\ n <= j /\ versions[n] = Replayed(row.content, rows)
            /\ versions[j] = Replayed(row.content, Inserted(batch))
    BY <1>1, <2>1, <2>2, CommitWalks DEF LiveInv
  <2>4. Replay = Replayed(row.content, rows) /\ Replay' = Replayed(row.content, Inserted(batch))
    BY <2>1 DEF Replay
  <2> QED BY <1>4, <2>1, <2>3, <2>4, Zenon
<1>17. CASE PublishFail
  BY <1>10, <1>17 DEF PublishFail, durable
<1>18. CASE PublishDrain
  BY <1>10, <1>18 DEF PublishDrain, durable
<1>19. CASE CompleteMessage
  <2>1. live /\ versions' = versions /\ row' = [status |-> "complete", content |-> message]
    BY <1>19 DEF CompleteMessage, SavedAs
  <2> QED BY <1>7, <2>1 DEF Replay
<1>20. CASE Abort
  BY <1>20 DEF Abort
<1>21. CASE CancelSave
  <2>1. /\ live /\ versions' = versions /\ rows' = NoRows
        /\ row' = [status |-> "streaming", content |-> message]
    BY <1>21 DEF CancelSave, SavedAs
  <2>2. Replay' = message
    BY <2>1, WholeRead DEF Replay
  <2> QED BY <1>7, <2>1, <2>2
<1>22. CASE CancelAnswer
  BY <1>10, <1>22 DEF CancelAnswer
<1>23. CASE CancelComplete
  <2>1. live /\ versions' = versions /\ row' = [status |-> "complete", content |-> message]
    BY <1>23 DEF CancelComplete, SavedAs
  <2> QED BY <1>7, <2>1 DEF Replay
<1>24. CASE CancelFail
  BY <1>10, <1>24 DEF CancelFail, durable
<1>25. CASE LoseLease
  BY <1>10, <1>25 DEF LoseLease, durable
<1>26. CASE Discard
  BY <1>10, <1>26 DEF Discard, durable
<1>27. CASE OwnerCrash
  BY <1>10, <1>27 DEF OwnerCrash, durable
<1>28. CASE Recover
  <2>1. row' = [status |-> "complete", content |-> Replay] /\ versions' = versions
    BY <1>28 DEF Recover
  <2> QED BY <1>6, <2>1 DEF Replay
<1>29. CASE UNCHANGED deltasVars
  BY <1>10, <1>29 DEF deltasVars, durable
<1> QED
  BY <1>11, <1>12, <1>13, <1>14, <1>15, <1>16, <1>17, <1>18, <1>19, <1>20, <1>21, <1>22, <1>23,
     <1>24, <1>25, <1>26, <1>27, <1>28, <1>29 DEF DeltasNext, Ended

(* What a reader sees of the message while the invariant holds. *)
LEMMA ReplayInvReads == ASSUME ReplayInv PROVE DeltasReplayed
<1>1. StoredInv /\ AnsweredInv /\ MemoryInv /\ DeltasTypeOK
  BY DEF ReplayInv, IInv
<1>2. versions \in Seq(ContentType) /\ versions # <<>> /\ Last(versions) = versions[Len(versions)]
      /\ DOMAIN versions = 1..Len(versions) /\ Len(versions) \in DOMAIN versions
  BY <1>1 DEF DeltasTypeOK, MemoryInv, Last
<1>3. CompleteKeepsAll
  BY <1>1 DEF AnsweredInv, CompleteKeepsAll, Replay
<1>4. ResendAgrees
  BY DEF ReplayInv, IInv, DeltasTypeOK, SealInv, ResendAgrees
<1>5. ReplayIsRecorded
  <2>1. CASE Streaming
    BY <1>1, <1>2, <2>1, StoredRead DEF StoredInv, Replay, Streaming, ReplayIsRecorded
  <2>2. CASE row.status = "complete"
    BY <1>2, <1>3, <2>2 DEF CompleteKeepsAll, ReplayIsRecorded
  <2>3. CASE row.status = "gone"
    BY <2>3 DEF ReplayIsRecorded
  <2> QED BY <1>1, <2>1, <2>2, <2>3 DEF DeltasTypeOK, Streaming
<1> QED BY <1>3, <1>4, <1>5 DEF DeltasReplayed

(* Whoever reads the durable message, whatever was merged, published       *)
(* again, refused or lost before, sees the response as it was after some   *)
(* recorded change, and all of it once it is complete, and what is sent    *)
(* again is what is stored; for any items, phases, calls and number of     *)
(* changes (read_message, append_stream_deltas, queue_delta).              *)
THEOREM DeltasReplayedCorrect ==
    ASSUME ~CancelFaults, Unreadable \notin ContentType
    PROVE  DeltasSpec => []DeltasReplayed
<1>1. DeltasInit => ReplayInv
  BY ReplayInvInit
<1>2. ReplayInv /\ [DeltasNext]_deltasVars => ReplayInv'
  BY ReplayInvStep
<1>3. ReplayInv => DeltasReplayed
  BY ReplayInvReads
<1> QED
  BY <1>1, <1>2, <1>3, PTL DEF DeltasSpec

(* A reader that looks again sees the same version of the response or a    *)
(* later one, until the response is rolled back: no publication, retried   *)
(* publication, save or recovery takes back what was visible.              *)
THEOREM DurableMovesOnCorrect ==
    ASSUME ~CancelFaults, Unreadable \notin ContentType
    PROVE  DeltasSpec => DurableMovesOn
<1>1. DeltasInit => ReplayInv
  BY ReplayInvInit
<1>2. ReplayInv /\ [DeltasNext]_deltasVars => ReplayInv'
  BY ReplayInvStep
<1>3. ReplayInv /\ [DeltasNext]_deltasVars =>
          [row.status = "streaming" /\ row'.status # "gone" =>
              \E k \in DOMAIN versions, j \in DOMAIN versions' :
                  k <= j /\ versions[k] = Replay /\ versions'[j] = Replay']_deltasVars
  BY MovesOn
<1> QED
  BY <1>1, <1>2, <1>3, PTL DEF DeltasSpec, DurableMovesOn
=============================================================================
