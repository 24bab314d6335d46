---------------------------- MODULE ModelContext ----------------------------
(***************************************************************************)
(* The request a turn sends: the history since the last checkpoint that    *)
(* the model can use, the checkpoint's replacement for what came before,   *)
(* and the current text of every opened file and of the instructions,      *)
(* each placed after the message it is anchored to (AgentManager::         *)
(* build_model_context, refresh_context_state, ContextCompaction).         *)
(*                                                                         *)
(* A text is its version number, 0 for none; a message is its number.  A   *)
(* native checkpoint can be read only by the model that made it.  Usage,   *)
(* images and the wording of notifications are left out.                   *)
(***************************************************************************)
EXTENDS Naturals, Sequences, FiniteSets, SequencesExt

CONSTANTS Files,       \* paths that can be opened
          Models, Native,  \* the models; those with native compaction
          Budget,      \* users' messages that a checkpoint keeps
          MaxMessages, MaxEvents, MaxEdits

VARIABLES history,     \* the messages of the conversation: <<[id, kind]...>>
          nextId,
          model,
          disk,        \* text of each file, 0 when it does not exist
          section,     \* text of the instruction file
          edits,
          pins,        \* opened files in order: <<[path, opened]...>>
          events,      \* context state events so far
          snapshots,   \* stored: <<[path, opened, anchor, text]...>>
          instruction, \* stored: <<>> or <<[anchor, text]>>
          checkpoints, \* stored: {[through, model, users]}
          turn,        \* "idle" or "sent"
          covered,     \* what a compaction of this request would cover, 0: none
          request,     \* the last request
          steady       \* nothing but ordinary turns since the last request

vars == <<history, nextId, model, disk, section, edits, pins, events, snapshots, instruction,
          checkpoints, turn, covered, request, steady>>

context == <<pins, events, snapshots, instruction>>
outside == <<disk, section, edits>>

Init == /\ history = <<>> /\ nextId = 1 /\ model \in Models
        /\ disk = [f \in Files |-> 1] /\ section \in {0, 1} /\ edits = 0
        /\ pins = <<>> /\ events = 0 /\ snapshots = <<>> /\ instruction = <<>>
        /\ checkpoints = {} /\ turn = "idle" /\ covered = 0 /\ request = <<>> /\ steady = FALSE

Ids(seq) == {seq[k].id : k \in 1..Len(seq)}
LastIndex(S) == CHOOSE k \in S : \A other \in S : other <= k

-----------------------------------------------------------------------------
\* The world around the session.

EditFile(f) == /\ edits < MaxEdits /\ edits' = edits + 1
               /\ \E text \in 0..2 : text # disk[f] /\ disk' = [disk EXCEPT ![f] = text]
               /\ UNCHANGED <<history, nextId, model, section, context, checkpoints, turn,
                              covered, request, steady>>
EditSection == /\ edits < MaxEdits /\ edits' = edits + 1
               /\ \E text \in 0..2 : text # section /\ section' = text
               /\ UNCHANGED <<history, nextId, model, disk, context, checkpoints, turn, covered,
                              request, steady>>
ChooseModel == /\ turn = "idle" /\ \E m \in Models : m # model /\ model' = m
               /\ steady' = FALSE
               /\ UNCHANGED <<history, nextId, outside, context, checkpoints, turn, covered,
                              request>>

\* open-files and close-files; opening a file twice keeps its first event.
Pinned == {pins[k].path : k \in 1..Len(pins)}
Pin(f) == /\ turn = "idle" /\ history # <<>> /\ events < MaxEvents
          /\ events' = events + 1
          /\ pins' = IF f \in Pinned THEN pins
                     ELSE Append(pins, [path |-> f, opened |-> events + 1])
          /\ UNCHANGED <<history, nextId, model, outside, snapshots, instruction, checkpoints,
                         turn, covered, request, steady>>
Unpin(f) == /\ turn = "idle" /\ history # <<>> /\ events < MaxEvents
            /\ events' = events + 1
            /\ pins' = SelectSeq(pins, LAMBDA p : p.path # f)
            /\ snapshots' = SelectSeq(snapshots, LAMBDA s : s.path # f)
            /\ UNCHANGED <<history, nextId, model, outside, instruction, checkpoints, turn,
                           covered, request, steady>>

-----------------------------------------------------------------------------
\* What the refresh stores.

\* The checkpoints this model can use, and the latest of them on the path.
Usable == {c \in checkpoints : c.model = model \/ c.model \notin Native}
Boundaries(path) == {k \in 1..Len(path) : \E c \in Usable : c.through = path[k].id}
Boundary(path) == IF Boundaries(path) = {} THEN 0 ELSE LastIndex(Boundaries(path))
Since(path) == SubSeq(path, Boundary(path) + 1, Len(path))
Checkpoint(path) == CHOOSE c \in Usable : c.through = path[Boundary(path)].id

\* Files are read again; a pinned file that is gone is unpinned.
Kept == SelectSeq(pins, LAMBDA p : disk[p.path] # 0)
OldOf(p) == {k \in 1..Len(snapshots) : /\ snapshots[k].path = p.path
                                       /\ snapshots[k].opened = p.opened
                                       /\ snapshots[k].text = disk[p.path]}

\* An unchanged file stays at its message; when that message is not part of
\* the request any more it belongs to what the checkpoint covers.
AnchorLatest(p, path) == path[Len(path)].id
Anchor(p, path) ==
  LET latest == path[Len(path)].id
      old == snapshots[CHOOSE k \in OldOf(p) : TRUE].anchor
  IN IF OldOf(p) = {} THEN latest
     ELSE IF old \in Ids(Since(path)) THEN old
     ELSE IF Boundary(path) = 0 THEN latest ELSE path[Boundary(path)].id

Snapshot(p, path) == [path |-> p.path, opened |-> p.opened, anchor |-> Anchor(p, path),
                      text |-> disk[p.path]]
\* Unchanged files first, in their stored order.
Position(p) == IF OldOf(p) = {} THEN Len(snapshots) + 1 ELSE CHOOSE k \in OldOf(p) : TRUE
Refreshed(path) ==
  LET at(k) == SelectSeq(Kept, LAMBDA p : Position(p) = k)
      order == FlattenSeq([k \in 1..(Len(snapshots) + 1) |-> at(k)])
  IN [k \in 1..Len(order) |-> Snapshot(order[k], path)]

\* The instruction file: unchanged where it was, changed or added last, and
\* before the whole conversation at the first request.
Instructed(path) ==
  LET latest == path[Len(path)].id
      fresh  == \A k \in 1..Len(Since(path)) : Since(path)[k].kind # "assistant"
      anchor == IF instruction # <<>>
                THEN IF instruction[1].text # section THEN latest
                     ELSE IF instruction[1].anchor \in Ids(Since(path)) THEN instruction[1].anchor
                     ELSE 0
                ELSE IF fresh THEN 0 ELSE latest
  IN IF section = 0 THEN <<>> ELSE <<[anchor |-> anchor, text |-> section]>>

-----------------------------------------------------------------------------
\* The request.

User(id) == <<"user", id>>
FileItem(s) == <<"file", s.path, s.opened, s.text>>
FileItems(stored, anchored(_)) ==
  LET some == SelectSeq(stored, LAMBDA s : anchored(s.anchor))
  IN [k \in 1..Len(some) |-> FileItem(some[k])]
InstructionItems(stored, anchored(_)) ==
  IF stored = <<>> \/ ~anchored(stored[1].anchor) THEN <<>> ELSE <<<<"instruction", stored[1].text>>>>

\* The replacement of what a checkpoint covers, what is anchored to nothing
\* that is sent, and then the messages, each followed by what is anchored to it.
NoFrontFiles(path, snaps) == <<>>
FrontFiles(path, snaps) == FileItems(snaps, LAMBDA id : id \notin Ids(path))
Assemble(replacement, snaps, instr, path) ==
  LET lost(id) == id \notin Ids(path)
      after(k) == LET here(id) == id = path[k].id
                  IN InstructionItems(instr, here) \o FileItems(snaps, here)
  IN replacement \o InstructionItems(instr, lost) \o FrontFiles(path, snaps)
       \o FlattenSeq([k \in 1..Len(path) |-> <<<<path[k].kind, path[k].id>>>> \o after(k)])

Replacement(c) == [k \in 1..Len(c.users) |-> User(c.users[k])] \o <<<<"summary", c.through>>>>

\* The user's latest message, when the checkpoint covers it and keeps none.
Users(path) == {k \in 1..Len(path) : path[k].kind = "user"}
PinnedUser(path) ==
  IF Boundary(path) = 0 \/ Checkpoint(path).users # <<>> \/ Users(path) = {} THEN <<>>
  ELSE IF LastIndex(Users(path)) > Boundary(path) THEN <<>>
  ELSE <<User(path[LastIndex(Users(path))].id)>>

RequestFor(path) ==
  PinnedUser(path)
    \o Assemble(IF Boundary(path) = 0 THEN <<>> ELSE Replacement(Checkpoint(path)),
                Refreshed(path), Instructed(path), Since(path))

-----------------------------------------------------------------------------
\* A turn: a new message of the user, or the continuation after a script.

Path(new) == IF new THEN Append(history, [id |-> nextId, kind |-> "user"]) ELSE history
NextAfter(new) == IF new THEN nextId + 1 ELSE nextId
MayPrepare(new) == /\ turn = "idle" /\ Path(new) # <<>>
                   /\ NextAfter(new) <= MaxMessages

\* The anchors and texts are stored before the messages are linked; files
\* that are gone are unpinned by an event of their own.
StoresSnapshots(path) == /\ snapshots' = Refreshed(path) /\ pins' = Kept
                         /\ events' = IF Kept = pins THEN events ELSE events + 1

Send(new) == /\ MayPrepare(new)
             /\ StoresSnapshots(Path(new)) /\ instruction' = Instructed(Path(new))
             /\ request' = RequestFor(Path(new))
             /\ history' = Path(new) /\ nextId' = NextAfter(new)
             /\ turn' = "sent" /\ steady' = TRUE
             /\ covered' = IF Since(Path(new)) = <<>> THEN 0 ELSE Path(new)[Len(Path(new))].id
             /\ UNCHANGED <<model, outside, checkpoints>>

\* The preparation fails between the two writes or after both: no message.
PreparationFails(new) ==
  /\ MayPrepare(new)
  /\ StoresSnapshots(Path(new))
  /\ instruction' \in {instruction, Instructed(Path(new))}
  /\ nextId' = NextAfter(new) /\ steady' = FALSE
  /\ UNCHANGED <<history, model, outside, checkpoints, turn, covered, request>>

\* The request is too large, before or after it is sent: it is summarised.
RetainedOldest(seq) == SubSeq(seq, 1, IF Len(seq) < Budget THEN Len(seq) ELSE Budget)
Retained(seq) == SubSeq(seq, IF Len(seq) < Budget THEN 1 ELSE Len(seq) - Budget + 1, Len(seq))
RequestUsers == LET items == SelectSeq(request, LAMBDA item : item[1] = "user")
                IN [k \in 1..Len(items) |-> items[k][2]]
Compact ==
  /\ turn = "sent" /\ covered # 0
  /\ LET c == [through |-> covered, model |-> model, users |-> Retained(RequestUsers)]
     IN /\ checkpoints' = {d \in checkpoints : d.through # covered} \cup {c}
        /\ request' = Assemble(Replacement(c), snapshots, instruction, <<>>)
  /\ covered' = 0 /\ steady' = FALSE
  /\ UNCHANGED <<history, nextId, model, outside, context, turn>>

Respond == /\ turn = "sent" /\ turn' = "idle"
           /\ history' = Append(history, [id |-> nextId, kind |-> "assistant"])
           /\ nextId' = nextId + 1
           /\ UNCHANGED <<model, outside, context, checkpoints, covered, request, steady>>

\* The last user message and what follows it are taken back.
Undo == /\ turn = "idle" /\ Users(history) # {}
        /\ history' = SubSeq(history, 1, LastIndex(Users(history)) - 1)
        /\ steady' = FALSE
        /\ UNCHANGED <<nextId, model, outside, context, checkpoints, turn, covered, request>>

Next == \/ \E f \in Files : EditFile(f) \/ Pin(f) \/ Unpin(f)
        \/ \E new \in BOOLEAN : Send(new) \/ PreparationFails(new)
        \/ EditSection \/ ChooseModel \/ Compact \/ Respond \/ Undo

Spec == Init /\ [][Next]_vars

-----------------------------------------------------------------------------
ContextTypeOK ==
  /\ nextId \in 1..(MaxMessages + 1) /\ model \in Models /\ disk \in [Files -> 0..2]
  /\ section \in 0..2 /\ turn \in {"idle", "sent"} /\ steady \in BOOLEAN
  /\ \A k \in 1..Len(history) : history[k].kind \in {"user", "assistant"}
  /\ \A c \in checkpoints : c.model \in Models /\ c.through \in 1..MaxMessages

Count(seq, Test(_)) == Cardinality({k \in 1..Len(seq) : Test(seq[k])})

\* A request carries every opened file once, with the text that was read for
\* it, and the text of no other file, wherever its anchor went: through
\* compactions, undone messages, failed preparations and changes of model.
FilesSentOnce ==
  turn = "sent" =>
    /\ \A k \in 1..Len(snapshots) :
         Count(request, LAMBDA item : item = FileItem(snapshots[k])) = 1
    /\ Count(request, LAMBDA item : item[1] = "file") = Len(pins)

\* A request always carries the user's latest message, even when it belongs
\* to what a checkpoint covers.
LatestUserSent ==
  turn = "sent" /\ Users(history) # {} =>
    Count(request, LAMBDA item : item = User(history[LastIndex(Users(history))].id)) = 1

\* Between ordinary turns what both requests contain stays where it was, and
\* everything new comes after it: the provider's cache of the prefix is of use
\* up to the first text that changed.
Common(old, new) == SelectSeq(old, LAMBDA item : Contains(new, item))
PrefixKept == steady /\ turn = "idle" /\ turn' = "sent" =>
                IsPrefix(Common(request, request'), request')
PrefixStable == [][PrefixKept]_vars
=============================================================================
