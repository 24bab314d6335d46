---------------------------- MODULE StoredRecords ----------------------------
(***************************************************************************)
(* What the database keeps of every session: its row, its messages linked  *)
(* from the tip to the root, and what hangs on them: checkpoints, usage,   *)
(* context.  Two sessions may share the older part of their histories, and *)
(* two runtimes write.  Every write is one transaction that checks who     *)
(* owns each session the write can be seen from and moves those sessions'  *)
(* revisions; a conversation is read in one transaction, a history in      *)
(* pages of one transaction each.                                          *)
(***************************************************************************)
EXTENDS Naturals, Sequences, FiniteSets

CONSTANTS
    Procs,       \* runtimes that share the database
    MaxMsgs,     \* message ids (bound)
    MaxWork      \* transactions that write, conversations and histories read (bound)

VARIABLES
    rows,        \* per session: whether it exists, tip, metadata revision, revision, lease
    records,     \* per message id: whether it exists, its parent, its session and its content
    extras,      \* what hangs on a session (usage, context) and on a message (checkpoint)
    tokens,      \* per runtime: the sessions it holds a lease token of
    used,        \* message ids given out; an id is never used again
    work,        \* transactions that wrote and reads begun so far
    read,        \* a conversation being read
    walk         \* a history being walked

recordVars == <<rows, records, extras, tokens, used, work, read, walk>>

None == 0
Sessions == {"s", "t"}
Nobody == "nobody"
Ids == 1..MaxMsgs
Absent == [exists |-> FALSE, parent |-> None, session |-> Nobody, content |-> 0]
Quiet == [at |-> "none"]

\* Two sessions that share message 1; s goes on with message 2.
Init ==
    /\ rows = [s \in Sessions |-> [exists |-> TRUE, tip |-> IF s = "s" THEN 2 ELSE 1,
                                   meta |-> 1, revision |-> 1, lease |-> Nobody]]
    /\ records = [i \in Ids |-> IF i > 2 THEN Absent
                    ELSE [exists |-> TRUE, parent |-> i - 1, session |-> "s", content |-> 0]]
    /\ extras = [usage |-> [s \in Sessions |-> 0], context |-> [s \in Sessions |-> 0],
                 checkpoint |-> [i \in Ids |-> 0]]
    /\ tokens = [p \in Procs |-> {}]
    /\ used = 2 /\ work = 0
    /\ read = Quiet /\ walk = Quiet

-----------------------------------------------------------------------------
(* Queries. *)

\* read_history_chain, cut short where a message is missing.
ChainIn(recs, id) ==
    LET step[i \in Ids \cup {None}] ==
            IF i = None \/ ~recs[i].exists THEN << >> ELSE <<i>> \o step[recs[i].parent]
    IN  step[id]

Members(q) == {q[i] : i \in DOMAIN q}

Descends(m) == {i \in Ids : m \in Members(ChainIn(records, i))} \cup {m}

\* Mutant: only the session a message was written for counts.
MessageSessionsRecorded(m, associated) ==
    {s \in Sessions : rows[s].exists /\ s \in {associated, records[m].session}}
\* message_sessions: the sessions whose history holds the message, the one it is written for,
\* and the one it was written for.
MessageSessions(m, associated) ==
    {s \in Sessions : /\ rows[s].exists
                      /\ \/ rows[s].tip \in Descends(m)
                         \/ s = associated
                         \/ records[m].exists /\ s = records[m].session}

\* assert_owner
Owns(p, s) ==
    IF s = Nobody THEN TRUE
    ELSE IF ~rows[s].exists THEN s \notin tokens[p]
    ELSE IF s \in tokens[p] THEN rows[s].lease = p
    ELSE rows[s].lease = Nobody

RecordSession(m) == IF records[m].exists THEN records[m].session ELSE Nobody

\* assert_message_owners climbs towards the root until some session is concerned; it is the
\* sessions it stops at, and whether every session met on the way is this runtime's.
Concerned(p, m, associated) ==
    LET climb[i \in Ids] ==
            LET here == MessageSessions(i, IF i = m THEN associated ELSE Nobody)
                mine == Owns(p, RecordSession(i)) /\ \A s \in here : Owns(p, s)
            IN  IF here # {} \/ records[i].parent = None
                THEN [sessions |-> here, mine |-> mine]
                ELSE LET up == climb[records[i].parent]
                     IN  [sessions |-> up.sessions, mine |-> mine /\ up.mine]
    IN  [climb[m] EXCEPT !.mine = @ /\ Owns(p, associated)]

\* bump_revision of each of these sessions.
Bumped(sessions) ==
    [s \in Sessions |-> IF s \in sessions /\ rows[s].exists
                        THEN [rows[s] EXCEPT !.revision = @ + 1] ELSE rows[s]]

\* write_record: a record keeps the session it was first written for.
Written(recs, m, parent, associated, content) ==
    [recs EXCEPT ![m] =
        [exists |-> TRUE, parent |-> parent, content |-> content,
         session |-> IF recs[m].exists /\ recs[m].session # Nobody
                     THEN recs[m].session ELSE associated]]

-----------------------------------------------------------------------------
(* Transactions that write. *)

MayWork == work < MaxWork
Counted == work' = work + 1
NotReading == UNCHANGED <<read, walk>>

\* Claiming a session's turn, taking over one whose lease ran out, and releasing it.
Claim(p, s) ==
    /\ MayWork /\ rows[s].exists /\ rows[s].lease # p
    /\ rows' = [rows EXCEPT ![s].lease = p]
    /\ tokens' = [tokens EXCEPT ![p] = @ \cup {s}]
    /\ Counted /\ NotReading
    /\ UNCHANGED <<records, extras, used>>

Release(p, s) ==
    /\ s \in tokens[p]
    /\ rows' = IF rows[s].lease = p THEN [rows EXCEPT ![s].lease = Nobody] ELSE rows
    /\ tokens' = [tokens EXCEPT ![p] = @ \ {s}]
    /\ NotReading
    /\ UNCHANGED <<records, extras, used, work>>

\* SqliteMessageStore::save: a response saved again, or a message saved before it is linked.
SaveMessage(p, m, parent) ==
    /\ MayWork
    /\ \/ records[m].exists /\ parent = records[m].parent /\ UNCHANGED used
       \/ m = used + 1 /\ used' = m /\ (parent # None => records[parent].exists)
    /\ LET own == RecordSession(m)
           orphan == own = Nobody \/ ~rows[own].exists
           above == IF parent = None \/ ~orphan THEN [sessions |-> {}, mine |-> TRUE]
                    ELSE Concerned(p, parent, Nobody)
           associated == IF own = Nobody /\ parent # None THEN RecordSession(parent) ELSE own
           check == Concerned(p, m, associated)
       IN  /\ above.mine /\ check.mine
           /\ records' = Written(records, m, parent, associated,
                                 IF records[m].exists THEN records[m].content + 1 ELSE 0)
           /\ rows' = Bumped(check.sessions \cup {associated})
    /\ Counted /\ NotReading
    /\ UNCHANGED <<extras, tokens>>

\* save_linked: the messages and the row in one transaction, after the tip and revision read.
SaveLinked(p, s, m) ==
    /\ MayWork /\ m = used + 1 /\ used' = m
    /\ rows[s].exists /\ Owns(p, s)
    /\ LET check == Concerned(p, m, s) IN
       /\ check.mine
       /\ records' = Written(records, m, rows[s].tip, s, 0)
       /\ rows' = [Bumped(check.sessions \cup {s}) EXCEPT
                       ![s].tip = m, ![s].meta = @ + 1, ![s].revision = @ + 1]
    /\ Counted /\ NotReading
    /\ UNCHANGED <<extras, tokens>>

\* Mutant: a checkpoint moves the revision of its own session only.
CheckpointSeenByOwn(sessions, own) == {own}
\* The sessions told of a changed checkpoint.
CheckpointSeen(sessions, own) == sessions \cup {own}

\* SqliteCompactionStore::save and ::delete (delete_message_record; nothing deletes a message
\* through that operation).
SaveCheckpoint(p, m) ==
    /\ MayWork
    /\ LET own == RecordSession(m)
           check == Concerned(p, m, own)
       IN  /\ check.mine
           /\ rows' = Bumped(CheckpointSeen(check.sessions, own))
    /\ extras' = [extras EXCEPT !.checkpoint[m] = @ + 1]
    /\ Counted /\ NotReading
    /\ UNCHANGED <<records, tokens, used>>

DeleteCheckpoint(p, m) ==
    /\ MayWork /\ extras.checkpoint[m] > 0
    /\ LET check == Concerned(p, m, RecordSession(m)) IN
       /\ check.mine
       /\ rows' = Bumped(check.sessions)
    /\ extras' = [extras EXCEPT !.checkpoint[m] = 0]
    /\ Counted /\ NotReading
    /\ UNCHANGED <<records, tokens, used>>

\* SqliteSessionStore::update: the row with another tip, or with other settings.
UpdateSession(p, s, tip) ==
    /\ MayWork /\ rows[s].exists /\ Owns(p, s)
    /\ tip # None => records[tip].exists
    /\ rows' = [rows EXCEPT ![s].tip = tip, ![s].meta = @ + 1, ![s].revision = @ + 1]
    /\ records' = IF tip # None /\ records[tip].session = Nobody
                  THEN [records EXCEPT ![tip].session = s] ELSE records
    /\ Counted /\ NotReading
    /\ UNCHANGED <<extras, tokens, used>>

\* delete_message_if_unreferenced
DeleteUnreferenced(p, m) ==
    /\ MayWork /\ records[m].exists
    /\ \A s \in Sessions : rows[s].exists => m \notin Members(ChainIn(records, rows[s].tip))
    /\ LET own == records[m].session
       IN  own # Nobody /\ rows[own].exists => Owns(p, own)
    /\ records' = [records EXCEPT ![m] = Absent]
    /\ extras' = [extras EXCEPT !.checkpoint[m] = 0]
    /\ Counted /\ NotReading
    /\ UNCHANGED <<rows, tokens, used>>

\* SqliteRequestUsageStore::save and ::delete
SaveUsage(p, s) ==
    /\ MayWork /\ Owns(p, s) /\ rows[s].exists
    /\ extras' = [extras EXCEPT !.usage[s] = @ + 1]
    /\ rows' = Bumped({s})
    /\ Counted /\ NotReading
    /\ UNCHANGED <<records, tokens, used>>

DeleteUsage(p, s) ==
    /\ MayWork /\ Owns(p, s) /\ rows[s].exists /\ extras.usage[s] > 0
    /\ extras' = [extras EXCEPT !.usage[s] = 0]
    /\ rows' = Bumped({s})
    /\ Counted /\ NotReading
    /\ UNCHANGED <<records, tokens, used>>

\* append_command, append_runtime, save_snapshots and save_instructions: the document that was
\* read in the transaction is written back with one more event, snapshot or instruction.
WriteContext(p, s) ==
    /\ MayWork /\ Owns(p, s) /\ rows[s].exists
    /\ extras' = [extras EXCEPT !.context[s] = @ + 1]
    /\ rows' = Bumped({s})
    /\ Counted /\ NotReading
    /\ UNCHANGED <<records, tokens, used>>

DeleteContext(p, s) ==
    /\ MayWork /\ Owns(p, s) /\ rows[s].exists /\ extras.context[s] > 0
    /\ extras' = [extras EXCEPT !.context[s] = 0]
    /\ rows' = Bumped({s})
    /\ Counted /\ NotReading
    /\ UNCHANGED <<records, tokens, used>>

\* Mutant: what another session's history still holds is not looked at.
RetainedNothing(s) == {}
\* retained_history: what the histories of the other sessions hold.
Retained(s) ==
    UNION {Members(ChainIn(records, rows[t].tip)) : t \in {u \in Sessions \ {s} : rows[u].exists}}

\* SqliteSessionStore::delete: the session, and the messages nobody else's history holds.
DeleteSession(p, s) ==
    /\ MayWork /\ rows[s].exists /\ Owns(p, s)
    /\ LET gone == (Members(ChainIn(records, rows[s].tip))
                     \cup {m \in Ids : records[m].exists /\ records[m].session = s}) \ Retained(s)
           others == {records[m].session : m \in gone} \ {s, Nobody}
       IN  /\ \A t \in others : rows[t].exists => Owns(p, t)
           /\ records' = [m \in Ids |-> IF m \in gone THEN Absent ELSE records[m]]
           /\ extras' = [usage |-> [extras.usage EXCEPT ![s] = 0],
                         context |-> [extras.context EXCEPT ![s] = 0],
                         checkpoint |-> [m \in Ids |-> IF m \in gone THEN 0
                                                       ELSE extras.checkpoint[m]]]
    /\ rows' = [rows EXCEPT ![s] = [exists |-> FALSE, tip |-> None, meta |-> 0,
                                    revision |-> 0, lease |-> Nobody]]
    /\ tokens' = [tokens EXCEPT ![p] = @ \ {s}]
    /\ Counted /\ NotReading
    /\ UNCHANGED used

-----------------------------------------------------------------------------
(* Reading. *)

Commit == [rows |-> rows, records |-> records, usage |-> extras.usage]

\* Mutant: every query of a conversation sees the latest commit.
SeenLatest(snapshot) == Commit
\* Every query of one read transaction sees the commit of its first.
Seen(snapshot) == snapshot

\* SqliteMessageStore::read_conversation: the row, then the history of its tip, then the usage.
ReadSession(s) ==
    /\ MayWork /\ read = Quiet /\ rows[s].exists
    /\ read' = [at |-> "history", session |-> s, snapshot |-> Commit,
                revision |-> rows[s].revision, tip |-> rows[s].tip,
                commits |-> {Commit}]
    /\ Counted
    /\ UNCHANGED <<rows, records, extras, tokens, used, walk>>

Contents(recs, chain) == [i \in DOMAIN chain |-> <<chain[i], recs[chain[i]].content>>]

\* Whether the chain reaches the root: otherwise a message is missing and the read fails.
Whole(recs, id) ==
    LET chain == ChainIn(recs, id)
    IN  id = None \/ (chain # << >> /\ recs[chain[Len(chain)]].parent = None)

ReadConversationHistory ==
    /\ read.at = "history"
    /\ LET now == Seen(read.snapshot) IN
       read' = IF Whole(now.records, read.tip)
               THEN [at |-> "usage", session |-> read.session, snapshot |-> read.snapshot,
                     revision |-> read.revision, tip |-> read.tip,
                     commits |-> read.commits \cup {Commit},
                     history |-> Contents(now.records, ChainIn(now.records, read.tip))]
               ELSE [at |-> "failed", torn |-> Whole(read.snapshot.records, read.tip)]
    /\ UNCHANGED <<rows, records, extras, tokens, used, work, walk>>

ReadConversationUsage ==
    /\ read.at = "usage"
    /\ read' = [at |-> "done", session |-> read.session, revision |-> read.revision,
                tip |-> read.tip, history |-> read.history,
                usage |-> Seen(read.snapshot).usage[read.session],
                commits |-> read.commits \cup {Commit}]
    /\ UNCHANGED <<rows, records, extras, tokens, used, work, walk>>

ReadEnds ==
    /\ read.at \in {"done", "failed"}
    /\ read' = Quiet
    /\ UNCHANGED <<rows, records, extras, tokens, used, work, walk>>

\* capture_in_flight_messages: the response being streamed, which is at the session's tip.
InFlight(s, streaming) == IF streaming THEN rows[s].tip ELSE None

\* HistoryCursor::new, with the response being streamed laid over the store.
BeginWalk(s, streaming, size) ==
    /\ MayWork /\ walk = Quiet /\ rows[s].exists /\ rows[s].tip # None
    /\ walk' = [at |-> "page", next |-> rows[s].tip, size |-> size, got |-> << >>,
                overlay |-> InFlight(s, streaming),
                above |-> records[rows[s].tip].parent,
                all |-> ChainIn(records, rows[s].tip)]
    /\ Counted
    /\ UNCHANGED <<rows, records, extras, tokens, used, read>>

\* Mutant: the next page starts at the last message of this one.
NextStartSame(page) == page[Len(page)]
\* finish_page: the next page starts at the parent of this page's last message.
NextStart(page) ==
    IF page[Len(page)] = walk.overlay THEN walk.above ELSE records[page[Len(page)]].parent

\* next_page: what is laid over the store first, then up to the page's size from the store.
NextPage ==
    /\ walk.at = "page"
    /\ LET over == IF walk.next = walk.overlay THEN <<walk.next>> ELSE << >>
           from == IF over = << >> THEN walk.next ELSE walk.above
           full == over # << >> /\ (walk.above = None \/ walk.size = 1)
           chain == ChainIn(records, from)
           asked == walk.size - Len(over)
           stored == SubSeq(chain, 1, IF asked < Len(chain) THEN asked ELSE Len(chain))
           missing == ~full /\ Len(stored) < asked /\ ~Whole(records, from)
           page == IF full THEN over ELSE over \o stored
           repeats == Members(page) \cap Members(walk.got) # {}
       IN  walk' = IF missing \/ repeats THEN [at |-> "failed", missing |-> missing]
                   ELSE [walk EXCEPT !.got = @ \o page, !.size = @ * 2,
                                     !.next = NextStart(page),
                                     !.at = IF NextStart(page) = None THEN "done" ELSE "page"]
    /\ UNCHANGED <<rows, records, extras, tokens, used, work, read>>

\* A caller that has found what it looks for asks for no further page.
StopWalking ==
    /\ walk.at = "page" /\ walk.got # << >>
    /\ walk' = Quiet
    /\ UNCHANGED <<rows, records, extras, tokens, used, work, read>>

\* A whole history is read, or the first error ends the caller's operation.
WalkEnds ==
    /\ walk.at \in {"done", "failed"}
    /\ walk' = Quiet
    /\ UNCHANGED <<rows, records, extras, tokens, used, work, read>>

-----------------------------------------------------------------------------
Step(p) ==
    \/ \E s \in Sessions : Claim(p, s) \/ Release(p, s) \/ DeleteSession(p, s)
    \/ \E m \in Ids, parent \in Ids \cup {None} : SaveMessage(p, m, parent)
    \/ \E s \in Sessions, m \in Ids : SaveLinked(p, s, m)
    \/ \E m \in Ids :
         \/ DeleteUnreferenced(p, m)
         \/ SaveCheckpoint(p, m) \/ DeleteCheckpoint(p, m)
    \/ \E s \in Sessions, tip \in Ids \cup {None} : UpdateSession(p, s, tip)
    \/ \E s \in Sessions :
         \/ SaveUsage(p, s) \/ DeleteUsage(p, s)
         \/ WriteContext(p, s) \/ DeleteContext(p, s)

Next ==
    \/ \E p \in Procs : Step(p)
    \/ \E s \in Sessions : ReadSession(s)
    \/ \E s \in Sessions, streaming \in BOOLEAN, size \in {1, 2} : BeginWalk(s, streaming, size)
    \/ ReadConversationHistory \/ ReadConversationUsage \/ ReadEnds
    \/ NextPage \/ StopWalking \/ WalkEnds

Spec == Init /\ [][Next]_recordVars

-----------------------------------------------------------------------------
(* What a session shows: the messages of its history and what hangs on them. *)

Shown(rws, recs, xs, s) ==
    LET chain == ChainIn(recs, rws[s].tip)
    IN  [tip |-> rws[s].tip, history |-> Contents(recs, chain),
         checkpoints |-> [i \in DOMAIN chain |-> xs.checkpoint[chain[i]]],
         usage |-> xs.usage[s], context |-> xs.context[s]]

RecordsTypeOK ==
    /\ \A s \in Sessions : rows[s].tip \in Ids \cup {None} /\ rows[s].lease \in Procs \cup {Nobody}
    /\ \A m \in Ids : records[m].parent \in Ids \cup {None}
                      /\ records[m].session \in Sessions \cup {Nobody}
    /\ tokens \in [Procs -> SUBSET Sessions] /\ used \in 0..MaxMsgs

\* Whatever is changed in what a session shows, by whatever operation and through whichever
\* of the sessions that share the message, the session's revision moves on with it: the
\* revision is what every other runtime's observer compares (session_revision).
ChangeMovesRevision ==
    \A s \in Sessions :
        /\ rows[s].exists /\ rows'[s].exists
        /\ Shown(rows, records, extras, s) # Shown(rows', records', extras', s)
        => rows'[s].revision > rows[s].revision

\* A session whose lease a runtime holds shows what that runtime wrote: no operation of a
\* runtime that does not hold the lease changes it, not even through a message it shares
\* with a session of its own, and deleting a session takes nothing out of another's history.
HeldHistoryFenced ==
    \A q \in Procs, s \in Sessions :
        /\ rows[s].exists /\ rows[s].lease \notin {Nobody, q}
        /\ Shown(rows, records, extras, s) # Shown(rows', records', extras', s)
        => ~Step(q)

ChangesSeenAndFenced == [][ChangeMovesRevision /\ HeldHistoryFenced]_recordVars

\* A conversation that is read while others write is one that was committed: the history and
\* the usage belong to the row they are returned with (Database::read runs one transaction).
ConversationOfOneCommit ==
    /\ read.at = "done" =>
         \E c \in read.commits :
            /\ c.rows[read.session].tip = read.tip
            /\ c.rows[read.session].revision = read.revision
            /\ Contents(c.records, ChainIn(c.records, read.tip)) = read.history
            /\ c.usage[read.session] = read.usage
    /\ read.at = "failed" => ~read.torn

\* A history walked in pages while others write is the whole history of the tip the walk
\* began at, or an error: no message is left out or returned twice.
WalkIsWhole ==
    /\ walk.at = "done" => walk.got = walk.all
    /\ walk.at = "failed" => walk.missing
=============================================================================
