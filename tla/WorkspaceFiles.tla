---------------------------- MODULE WorkspaceFiles ----------------------------
(* Files the program writes: an agent's edits of workspace files (kraai-workspace-fs and the
   edit command) and the program's own state files (kraai-io's atomic replacement below a
   directory it creates). Every write goes to a temporary file that is renamed into place, the
   directory is synced afterwards, and any sync may fail. A power loss keeps what was synced
   and any prefix of what was not.

   A text is a sequence of lines. The file lies two directories below an anchor that is
   durable; a workspace's directories exist and are durable from the start.  *)
EXTENDS Integers, Sequences, SequencesExt, FiniteSets

CONSTANTS
    Writers,    \* writes that can be in progress at once
    MaxEdits,   \* bound on the writes of a workspace file
    MaxWrites   \* bound on the writes of a state file

VARIABLES
    place,      \* "workspace" or "state": which of the two kinds of file is modelled
    depth,      \* how many of the two directories exist
    kept,       \* for each directory, whether its entry in its parent is synced
    file,       \* the file's directory entry as readers see it
    older,      \* earlier entries a power loss may bring back
    op,         \* the write in progress at each writer
    ready,      \* DirectoryBootstrap's flag, one per writer's process
    acked,      \* the newest version reported durable to a caller
    started     \* writes started so far

vars == <<place, depth, kept, file, older, op, ready, acked, started>>

Levels == 1..2

Bound == IF place = "workspace" THEN MaxEdits ELSE MaxWrites

-----------------------------------------------------------------------------
(* Exact edits: start and end are lines of the original text, `old' what the agent expects to
   find there, `new' the replacement. *)

(* An empty file has one empty line. *)
index_lines(text) == IF text = <<>> THEN 1 ELSE Len(text)

Between(text, first, last) == IF text = <<>> THEN <<>> ELSE SubSeq(text, first, last)

Valid(text, e) ==
    /\ 1 <= e.start /\ e.start <= e.end /\ e.end <= index_lines(text)
    /\ Between(text, e.start, e.end) = e.old

Before(e, f) == e.start < f.start \/ (e.start = f.start /\ e.end <= f.end)

ByLine(edits) == IF Len(edits) = 2 /\ ~ Before(edits[1], edits[2])
                 THEN <<edits[2], edits[1]>>
                 ELSE edits

OverlapsBackwards(sorted) ==
    \E i \in 1..(Len(sorted) - 1) : sorted[i + 1].start < sorted[i].end
Overlaps(sorted) == \E i \in 1..(Len(sorted) - 1) : sorted[i + 1].start <= sorted[i].end

Accepted(text, edits) ==
    /\ \A i \in DOMAIN edits : Valid(text, edits[i])
    /\ ~ Overlaps(ByLine(edits))

(* The edits in line order, each copying the unchanged lines since the one before it. *)
SpliceShifted(text, edits) ==
    LET Step(t, e) == SubSeq(t, 1, e.start - 1) \o e.new \o SubSeq(t, e.end + 1, Len(t))
    IN  FoldLeft(Step, text, ByLine(edits))
Splice(text, edits) ==
    LET Step(acc, e) == [out |-> acc.out \o SubSeq(text, acc.consumed + 1, e.start - 1) \o e.new,
                         consumed |-> e.end]
        end == FoldLeft(Step, [out |-> <<>>, consumed |-> 0], ByLine(edits))
    IN  end.out \o SubSeq(text, end.consumed + 1, Len(text))

(* What the edits mean, line by line and without an order among them. *)
Edited(text, edits) ==
    LET At(i) == {e \in Range(edits) : e.start <= i /\ i <= e.end}
        Piece(i) == IF At(i) = {} THEN Between(text, i, i)
                    ELSE LET e == CHOOSE e \in At(i) : TRUE
                         IN  IF i = e.start THEN e.new ELSE <<>>
    IN  FlattenSeq([i \in 1..index_lines(text) |-> Piece(i)])

(* The edits an agent asks for after it saw `view': one or two, anywhere. *)
Asked(view) ==
    LET Ranges == {<<s, e>> \in (1..4) \X (1..3) : s <= e}
        One == {[start |-> r[1], end |-> r[2], new |-> n,
                 old |-> IF r[2] <= Len(view) THEN SubSeq(view, r[1], r[2]) ELSE <<>>] :
                r \in Ranges, n \in {<<>>, <<"n", "m">>}}
    IN  {<<e>> : e \in One} \union {<<e, f>> : e, f \in One}

-----------------------------------------------------------------------------
Absent(v) == [version |-> v, text |-> <<>>, there |-> FALSE, whole |-> TRUE]
Entry(v, text, whole) == [version |-> v, text |-> text, there |-> TRUE, whole |-> whole]

Idle == [pc |-> "idle", kind |-> "none", text |-> <<>>, view |-> <<>>, whole |-> FALSE,
         created |-> FALSE, exact |-> TRUE, version |-> 0, todo |-> 0]

TypeOfOp ==
    [pc : {"idle", "read", "mkdirs", "chain", "look", "stat", "temp", "sync", "publish", "parent"},
     kind : {"none", "edit", "create", "overwrite", "state", "remove"},
     text : Seq({"a", "b", "c", "n", "m", "w"}), view : Seq({"a", "b", "c", "n", "m", "w"}),
     whole : BOOLEAN, created : BOOLEAN, exact : BOOLEAN, version : Nat, todo : 0..3]

Init ==
    /\ place \in {"workspace", "state"}
    /\ depth = (IF place = "workspace" THEN 2 ELSE 0)
    /\ kept = [i \in Levels |-> i <= depth]
    /\ file \in IF place = "workspace"
                THEN {Absent(0), Entry(0, <<>>, TRUE), Entry(0, <<"a", "b", "c">>, TRUE)}
                ELSE {Absent(0)}
    /\ older = {}
    /\ op = [w \in Writers |-> Idle]
    /\ ready = [w \in Writers |-> FALSE]
    /\ acked = 0
    /\ started = 0

NextVersion == 1 + file.version
Ended(w) == op' = [op EXCEPT ![w] = Idle]

(* The command's arguments choose the operation; --create and --overwrite exclude edits. *)
WriteKinds == IF place = "workspace" THEN {"edit", "create", "overwrite"} ELSE {"state", "remove"}

Start(w, kind) ==
    /\ op[w].pc = "idle" /\ kind \in WriteKinds /\ started < Bound
    /\ started' = started + 1
    /\ op' = [op EXCEPT ![w] = [Idle EXCEPT
                 !.kind = kind,
                 !.pc = CASE kind = "edit" -> "read"
                          [] kind = "overwrite" -> "look"
                          [] kind = "create" -> "temp"
                          [] OTHER -> "mkdirs",
                 !.view = IF kind = "edit" THEN file.text ELSE <<>>,
                 !.text = IF kind = "edit" THEN <<>> ELSE <<"w">>,
                 !.created = (kind = "create")]]
    /\ UNCHANGED <<place, depth, kept, file, older, ready, acked>>

(* edit_text_file: read, check every edit against what is there now, and splice. *)
EditRead(w) ==
    /\ op[w].pc = "read"
    /\ \/ /\ file.there /\ file.whole
          /\ \E edits \in Asked(op[w].view) :
                /\ Accepted(file.text, edits)
                /\ op' = [op EXCEPT ![w].pc = "stat", ![w].view = <<>>,
                                    ![w].text = Splice(file.text, edits),
                                    ![w].exact = (Splice(file.text, edits)
                                                    = Edited(file.text, edits))]
       \/ \* the file is gone, or an edit is out of range, overlaps or does not match
          Ended(w)
    /\ UNCHANGED <<place, depth, kept, file, older, ready, acked, started>>

(* overwrite_text_file: replace what exists, create what does not. *)
Look(w) ==
    /\ op[w].pc = "look"
    /\ op' = [op EXCEPT ![w].pc = IF file.there THEN "stat" ELSE "temp",
                        ![w].created = ~ file.there]
    /\ UNCHANGED <<place, depth, kept, file, older, ready, acked, started>>

(* replace_whole_file, and the end of an edit: the permissions to keep are read. *)
Stat(w) ==
    /\ op[w].pc = "stat"
    /\ IF file.there THEN op' = [op EXCEPT ![w].pc = "temp"] ELSE Ended(w)
    /\ UNCHANGED <<place, depth, kept, file, older, ready, acked, started>>

(* create_directories_with_sync: create what is missing, then sync the whole chain from the
   deepest directory up to the anchor. DirectoryBootstrap skips both once they succeeded. *)
ChainCreated == 2 - depth
Chain == 3

MakeDirectories(w) ==
    /\ op[w].pc = "mkdirs" /\ op[w].kind = "state"
    /\ IF ready[w] /\ depth = 2
       THEN /\ op' = [op EXCEPT ![w].pc = "temp"]
            /\ UNCHANGED <<depth, kept, ready>>
       ELSE /\ depth' = 2
            /\ kept' = [i \in Levels |-> i <= depth /\ kept[i]]
            /\ ready' = [ready EXCEPT ![w] = FALSE]
            /\ op' = [op EXCEPT ![w].pc = "chain", ![w].todo = Chain]
    /\ UNCHANGED <<place, file, older, acked, started>>

(* Syncing a directory makes the entries below it durable: the second directory's sync the
   file's entry, the first's the second's, the anchor's the first's. *)
Synced(level) ==
    IF level = 3 THEN older' = {} /\ UNCHANGED kept
    ELSE kept' = [kept EXCEPT ![level] = TRUE] /\ UNCHANGED older

SyncChain(w) ==
    /\ op[w].pc = "chain"
    /\ IF op[w].todo = 0
       THEN /\ op' = [op EXCEPT ![w].pc = "temp"]
            /\ ready' = [ready EXCEPT ![w] = TRUE]
            /\ UNCHANGED <<kept, older>>
       ELSE /\ op' = [op EXCEPT ![w].todo = @ - 1]
            /\ Synced(op[w].todo)
            /\ UNCHANGED ready
    /\ UNCHANGED <<place, depth, file, acked, started>>

SyncChainFails(w) ==
    /\ op[w].pc = "chain" /\ op[w].todo > 0
    /\ Ended(w)
    /\ UNCHANGED <<place, depth, kept, file, older, ready, acked, started>>

(* write_with_sync: the temporary file is written, synced and renamed. A failure before the
   rename removes it and leaves the file alone. *)
AfterTempUnsynced == "publish"
AfterTemp == "sync"

WriteTemporary(w) ==
    /\ op[w].pc = "temp"
    /\ \/ op' = [op EXCEPT ![w].pc = AfterTemp]
       \/ Ended(w)
    /\ UNCHANGED <<place, depth, kept, file, older, ready, acked, started>>

SyncTemporary(w) ==
    /\ op[w].pc = "sync"
    /\ \/ op' = [op EXCEPT ![w].pc = "publish", ![w].whole = TRUE]
       \/ Ended(w)
    /\ UNCHANGED <<place, depth, kept, file, older, ready, acked, started>>

(* rename, or for a creation renameat with NOREPLACE. A refused creation is an error, or makes
   an overwrite take the replacing path. *)
MayPublishAlways(w) == TRUE
MayPublish(w) == op[w].created => ~ file.there

Publish(w) ==
    /\ op[w].pc = "publish" /\ depth = 2
    /\ IF MayPublish(w)
       THEN /\ file' = Entry(NextVersion, op[w].text, op[w].whole)
            /\ older' = older \union {file}
            /\ op' = [op EXCEPT ![w].pc = "parent", ![w].version = NextVersion]
       ELSE /\ IF op[w].kind = "overwrite"
               THEN op' = [op EXCEPT ![w].pc = "stat", ![w].created = FALSE]
               ELSE Ended(w)
            /\ UNCHANGED <<file, older>>
    /\ UNCHANGED <<place, depth, kept, ready, acked, started>>

PublishFails(w) ==
    /\ op[w].pc = "publish"
    /\ Ended(w)
    /\ UNCHANGED <<place, depth, kept, file, older, ready, acked, started>>

(* The caller is told Durable only after the parent's sync; otherwise it is warned. *)
SyncParent(w) ==
    /\ op[w].pc = "parent"
    /\ older' = {}
    /\ acked' = IF op[w].version > acked THEN op[w].version ELSE acked
    /\ Ended(w)
    /\ UNCHANGED <<place, depth, kept, file, ready, started>>

SyncParentFails(w) ==
    /\ op[w].pc = "parent"
    /\ Ended(w)
    /\ UNCHANGED <<place, depth, kept, file, older, ready, acked, started>>

(* remove_file_durable: a file already gone is synced too, for the sake of an earlier removal
   whose sync failed. *)
AfterRemoveMissing(w) == IF file.there THEN "parent" ELSE "idle"
AfterRemove(w) == "parent"

RemoveFile(w) ==
    /\ op[w].pc = "mkdirs" /\ op[w].kind = "remove"
    /\ IF depth < 2
       THEN Ended(w) /\ UNCHANGED <<file, older, acked>>
       ELSE /\ file' = IF file.there THEN Absent(NextVersion) ELSE file
            /\ older' = IF file.there THEN older \union {file} ELSE older
            /\ IF AfterRemove(w) = "parent"
               THEN /\ op' = [op EXCEPT ![w].pc = "parent", ![w].version = file'.version]
                    /\ UNCHANGED acked
               ELSE /\ Ended(w)
                    /\ acked' = file.version
    /\ UNCHANGED <<place, depth, kept, ready, started>>

(* The user removes the workspace file. *)
UserRemoves ==
    /\ place = "workspace" /\ file.there /\ started < Bound
    /\ started' = started + 1
    /\ file' = Absent(NextVersion)
    /\ older' = older \union {file}
    /\ UNCHANGED <<place, depth, kept, op, ready, acked>>

(* Every process ends; the directories and the file come back as some state between the last
   sync and now, and a file whose own data was not synced comes back torn. *)
Survivors == {d \in 0..depth : d = depth \/ ~ kept[d + 1]}

PowerLoss ==
    \E d \in Survivors :
      /\ depth' = d
      /\ file' \in IF d < 2 THEN {Absent(0)} ELSE older \union {file}
      /\ kept' = [i \in Levels |-> i <= d]
      /\ older' = {}
      /\ op' = [w \in Writers |-> Idle]
      /\ ready' = [w \in Writers |-> FALSE]
      /\ UNCHANGED <<place, acked, started>>

(* Nothing is left to start. *)
Rest ==
    /\ started = Bound /\ \A w \in Writers : op[w].pc = "idle"
    /\ UNCHANGED vars

Step ==
    \/ \E w \in Writers :
         \/ \E kind \in WriteKinds : Start(w, kind)
         \/ EditRead(w) \/ Look(w) \/ Stat(w) \/ MakeDirectories(w) \/ SyncChain(w) \/ SyncChainFails(w)
         \/ WriteTemporary(w) \/ SyncTemporary(w) \/ Publish(w) \/ PublishFails(w)
         \/ SyncParent(w) \/ SyncParentFails(w) \/ RemoveFile(w)
    \/ UserRemoves \/ PowerLoss

Next == Step \/ Rest

Spec == Init /\ [][Next]_vars

-----------------------------------------------------------------------------
FilesTypeOK ==
    /\ place \in {"workspace", "state"}
    /\ depth \in 0..2 /\ kept \in [Levels -> BOOLEAN]
    /\ file.version \in Nat /\ file.there \in BOOLEAN /\ file.whole \in BOOLEAN
    /\ \A e \in older : e.version < file.version
    /\ op \in [Writers -> TypeOfOp]
    /\ ready \in [Writers -> BOOLEAN]
    /\ acked \in Nat /\ started \in 0..Bound

(* A write reported as durable survives every later power loss: neither a directory whose
   creation was not synced, by this process or another, nor a sync that failed before a retry
   can take it back. *)
DurableSurvives == file.version >= acked

(* No reader, before or after a power loss, finds a file cut short. *)
NeverTorn == file.there => file.whole

(* Any set of accepted edits changes exactly the lines it names, as they were numbered in the
   text the agent read, whatever the order of the edits and the length of the replacements. *)
EditsExact == \A w \in Writers : op[w].exact

(* A creation never replaces a file, however the file appeared. *)
NothingReplaced ==
    \A w \in Writers :
        op[w].pc = "publish" /\ op[w].created /\ op'[w].pc = "parent" => ~ file.there
CreationReplacesNothing == [][NothingReplaced]_vars
=============================================================================
