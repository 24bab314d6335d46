----------------------------- MODULE HostOutput -----------------------------
(***************************************************************************)
(* How a script's output becomes the text its result shows.  The host      *)
(* writes plain text to its output pipe; a structured value goes as a      *)
(* frame on the host channel, and a marker in the pipe keeps its place.    *)
(* The items of a list that is still being produced are queued in a batch  *)
(* which a flusher thread sends (OutputSink).  The parent splices the two  *)
(* streams together again (rendering::Splice).  The host can be killed     *)
(* between any two of its steps.                                           *)
(*                                                                         *)
(* One output pipe; a unit of output is its number in the order in which   *)
(* the script produced it.  Values are rendered by number.                 *)
(***************************************************************************)
EXTENDS Naturals, Sequences, SequencesExt

CONSTANTS MaxUnits,  \* bound on the units a script produces
          MaxBatch   \* items that fit in a batch

VARIABLES produced,  \* the script's output so far: <<[kind, list]...>>
          host,      \* the script's thread: what it has to do next, see Idle
          list,      \* the list being produced (its first unit), 0 for none
          batch,     \* queued items
          flusher,   \* items the flusher took, being written under the writer lock
          frames,    \* frames on their way to the parent
          pipe,      \* text and markers on their way
          alive,
          ready,     \* parent: frame of each id that awaits its marker
          open,      \* parent: items of the lists that are not closed
          shown,     \* parent: the units rendered
          parent,    \* "splicing" or "done"
          late       \* the parent gave up waiting for frames

vars == <<produced, host, list, batch, flusher, frames, pipe, alive, ready, open, shown, parent,
          late>>

hostVars   == <<produced, host, list, batch, flusher, alive>>
parentVars == <<ready, open, shown, parent, late>>

Idle == [do |-> "run", id |-> 0]

Init == /\ produced = <<>> /\ host = Idle /\ list = 0 /\ batch = <<>> /\ flusher = <<>>
        /\ frames = <<>> /\ pipe = <<>> /\ alive = TRUE
        /\ ready = {} /\ open = <<>> /\ shown = <<>> /\ parent = "splicing" /\ late = FALSE

Unit == Len(produced) + 1
Produces(kind, of) == produced' = Append(produced, [kind |-> kind, list |-> of])
CanProduce == alive /\ host = Idle /\ Unit <= MaxUnits

ItemsFrame(values) == IF values = <<>> THEN <<>> ELSE <<[kind |-> "items", id |-> 0, values |-> values]>>
Frame(kind, id, values) == <<[kind |-> kind, id |-> id, values |-> values]>>

\* The writer lock: the flusher holds it while it sends what it took.
WriterIgnored == TRUE
WriterFree == flusher = <<>>

-----------------------------------------------------------------------------
\* The host.

\* An item joins the batch; a full batch is sent first.
ItemQueued == /\ CanProduce
              /\ LET this == IF list = 0 THEN Unit ELSE list
                 IN Produces("item", this) /\ list' = this
              /\ IF Len(batch) < MaxBatch
                 THEN batch' = Append(batch, Unit) /\ frames' = frames
                 ELSE /\ WriterFree
                      /\ frames' = frames \o ItemsFrame(batch) /\ batch' = <<Unit>>
              /\ UNCHANGED <<host, flusher, pipe, alive, parentVars>>

\* Sends what is queued before anything that follows it.
Flushed == WriterFree /\ batch' = <<>> /\ frames' = frames \o ItemsFrame(batch)
NotFlushed == batch' = batch /\ frames' = frames

\* Text bypasses the frame channel: what is queued goes first.
BeforeTextNothing == NotFlushed
BeforeText == Flushed
PrintText == /\ CanProduce
             /\ BeforeText
             /\ Produces("text", 0)
             /\ host' = [do |-> "write", id |-> Unit]
             /\ UNCHANGED <<list, flusher, pipe, alive, parentVars>>

WriteText == /\ alive /\ host.do = "write"
             /\ pipe' = Append(pipe, [kind |-> "text", id |-> host.id])
             /\ host' = Idle
             /\ UNCHANGED <<produced, list, batch, flusher, frames, alive, parentVars>>

\* A value's frame, and then its marker.
EmitValue == /\ CanProduce
             /\ WriterFree
             /\ frames' = frames \o ItemsFrame(batch) \o Frame("value", Unit, <<Unit>>)
             /\ batch' = <<>>
             /\ Produces("value", 0)
             /\ host' = [do |-> "place", id |-> Unit]
             /\ UNCHANGED <<list, flusher, pipe, alive, parentVars>>

CloseList == /\ CanProduce /\ list # 0
             /\ WriterFree
             /\ frames' = frames \o ItemsFrame(batch) \o Frame("end", Unit, <<list>>)
             /\ batch' = <<>>
             /\ Produces("end", list) /\ list' = 0
             /\ host' = [do |-> "place", id |-> Unit]
             /\ UNCHANGED <<flusher, pipe, alive, parentVars>>

Place == /\ alive /\ host.do = "place"
         /\ pipe' = Append(pipe, [kind |-> "marker", id |-> host.id])
         /\ host' = Idle
         /\ UNCHANGED <<produced, list, batch, flusher, frames, alive, parentVars>>

FlusherTakes == /\ alive /\ flusher = <<>> /\ batch # <<>>
                /\ flusher' = batch /\ batch' = <<>>
                /\ UNCHANGED <<produced, host, list, frames, pipe, alive, parentVars>>
FlusherSends == /\ alive /\ flusher # <<>>
                /\ frames' = frames \o ItemsFrame(flusher) /\ flusher' = <<>>
                /\ UNCHANGED <<produced, host, list, batch, pipe, alive, parentVars>>

\* The script is over, or the host is killed: what it had not written is gone.
HostEnds == /\ alive /\ alive' = FALSE
            /\ UNCHANGED <<produced, host, list, batch, flusher, frames, pipe, parentVars>>

-----------------------------------------------------------------------------
\* The parent.

ListOf(n) == produced[n].list
ItemsOf(items, of) == SelectSeq(items, LAMBDA n : ListOf(n) = of)

Applied(frame) ==
  CASE frame.kind = "items" -> open' = open \o frame.values /\ ready' = ready
    [] frame.kind = "value" -> open' = open /\ ready' = ready \cup {<<frame.id, frame.values>>}
    [] OTHER -> LET of == frame.values[1]
                IN /\ ready' = ready \cup {<<frame.id, ItemsOf(open, of)>>}
                   /\ open' = SelectSeq(open, LAMBDA n : ListOf(n) # of)

TakeFrame == /\ parent = "splicing" /\ frames # <<>>
             /\ Applied(Head(frames)) /\ frames' = Tail(frames)
             /\ UNCHANGED <<hostVars, pipe, shown, parent, late>>

TakeText == /\ parent = "splicing" /\ pipe # <<>> /\ Head(pipe).kind = "text"
            /\ shown' = Append(shown, Head(pipe).id) /\ pipe' = Tail(pipe)
            /\ UNCHANGED <<hostVars, frames, ready, open, parent, late>>

\* A marker waits for its frame, until there can be no more frames.
NoMoreFrames == ~alive /\ frames = <<>>
TakeMarker ==
  /\ parent = "splicing" /\ pipe # <<>> /\ Head(pipe).kind = "marker"
  /\ \/ \E entry \in ready : /\ entry[1] = Head(pipe).id
                             /\ shown' = shown \o entry[2] /\ ready' = ready \ {entry}
     \/ /\ \A entry \in ready : entry[1] # Head(pipe).id
        /\ NoMoreFrames
        /\ UNCHANGED <<shown, ready>>
  /\ pipe' = Tail(pipe)
  /\ UNCHANGED <<hostVars, frames, open, parent, late>>

\* The pipe is closed: the frames still on their way have 100 ms, and the
\* items of lists that were never closed come last, list by list.
Remaining == FlattenSeq([of \in 1..Len(produced) |-> ItemsOf(open, of)])
Finish == /\ parent = "splicing" /\ ~alive /\ pipe = <<>>
          /\ shown' = shown \o Remaining /\ open' = <<>>
          /\ parent' = "done" /\ late' = (late \/ frames # <<>>)
          /\ UNCHANGED <<hostVars, frames, pipe, ready>>

\* A host that was killed has 100 ms, and one that exited its script's own timeout, to have its
\* frames read; then the channel is aborted.
ChannelAborted == /\ parent = "splicing" /\ ~alive /\ frames # <<>>
                  /\ frames' = <<>> /\ late' = TRUE
                  /\ UNCHANGED <<host, produced, list, batch, flusher, pipe, alive,
                                 ready, open, shown, parent>>

Next == \/ ItemQueued \/ PrintText \/ WriteText \/ EmitValue \/ CloseList \/ Place
        \/ FlusherTakes \/ FlusherSends \/ HostEnds
        \/ TakeFrame \/ TakeText \/ TakeMarker \/ Finish \/ ChannelAborted

Spec == Init /\ [][Next]_vars

-----------------------------------------------------------------------------
OutputTypeOK ==
  /\ \A n \in 1..Len(produced) : produced[n] \in
       [kind : {"text", "value", "item", "end"}, list : 0..MaxUnits]
  /\ Len(produced) <= MaxUnits /\ Len(batch) <= MaxBatch
  /\ host.do \in {"run", "write", "place"} /\ list \in 0..MaxUnits
  /\ alive \in BOOLEAN /\ late \in BOOLEAN /\ parent \in {"splicing", "done"}
  /\ \A n \in 1..Len(shown) : shown[n] \in 1..Len(produced)

\* What the script's output should read like: texts and values where they
\* were produced, a list where it ended.
UnitText(n) ==
  CASE produced[n].kind \in {"text", "value"} -> <<n>>
    [] produced[n].kind = "item" -> <<>>
    [] OTHER -> ItemsOf([k \in 1..(n - 1) |-> k], produced[n].list)
Reading == FlattenSeq([n \in 1..Len(produced) |-> UnitText(n)])

\* At every moment, and at the end of a script that was not killed in the
\* middle of something and whose frames were all read in time, the rendered output is the script's own, in its
\* order: no item, value or text is lost, doubled or misplaced, whatever the
\* two streams' delays and the flusher's timing.
ShownInOrder == /\ parent = "splicing" /\ ~late => IsPrefix(shown, Reading)
                /\ parent = "done" /\ host = Idle /\ list = 0 /\ ~late => shown = Reading

\* A script that is killed has lost nothing it produced before a text that
\* is shown (OutputSink::flush, host/sink.rs:111), except for the list whose
\* end it had sent but whose marker it had not written.
KilledKeepsItems ==
  parent = "done" /\ ~late /\ host.do # "place" =>
    \A t \in 1..Len(produced), n \in 1..Len(produced) :
      /\ produced[t].kind = "text" /\ produced[n].kind = "item" /\ n < t
      /\ \E k \in 1..Len(shown) : shown[k] = t
      => \E k \in 1..Len(shown) : shown[k] = n
=============================================================================
