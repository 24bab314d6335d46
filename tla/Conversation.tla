---------------------------- MODULE Conversation ----------------------------
(***************************************************************************)
(* A session's row and its chain of messages, written by operations that   *)
(* read the row, compute, and write it back: a turn's preparation and its  *)
(* response in the process that owns the turn, an undo, a change of the    *)
(* session's settings and a deletion in any process.  Every write is one   *)
(* transaction that compares the lease, the tip and the row's metadata     *)
(* revision; cleaning up after an undo takes one transaction per message.  *)
(***************************************************************************)
EXTENDS Naturals, Sequences, FiniteSetTheorems, TLAPS

CONSTANTS
    Procs,       \* runtimes that share the database
    Here,        \* the runtime in which the turn runs
    MaxMsgs,     \* messages that can be created (bound)
    MaxSets,     \* changes of the settings (bound)
    MaxUndos     \* undos (bound)

VARIABLES
    session,     \* the session's row: whether it exists, tip, metadata revision, settings
    records,     \* message records: the parent and the role of each
    owner,       \* the runtime that holds the session's lease
    turn,        \* the turn in Here: how far it is, the row it read, the tip it started from
    active,      \* active_turn_profile is set
    undo,        \* the undo of each runtime: how far it is, the row it read, what it removes
    setting,     \* the change of the settings of each runtime
    created,     \* messages created; an id is never used again
    undos,       \* undos begun
    saved,       \* ghost: the settings last saved and acknowledged
    crossed      \* ghost: an undo that began before the turn was active wrote after it was

conversationVars ==
    <<session, records, owner, turn, active, undo, setting, created, undos, saved, crossed>>

None == 0
NoOne == "nobody"
Ids == 1..MaxMsgs
Message(parent, role) == [parent |-> parent, role |-> role]
With(recs, id, message) ==
    [i \in DOMAIN recs \cup {id} |-> IF i = id THEN message ELSE recs[i]]
Quiet == [at |-> "none"]

TalkInit ==
    /\ session = [exists |-> TRUE, tip |-> 2, revision |-> 1, dir |-> 0]
    /\ records = <<Message(None, "user"), Message(1, "assistant")>>
    /\ owner = NoOne /\ turn = Quiet /\ active = FALSE
    /\ undo = [p \in Procs |-> Quiet] /\ setting = [p \in Procs |-> Quiet]
    /\ created = 2 /\ undos = 0 /\ saved = 0 /\ crossed = FALSE

-----------------------------------------------------------------------------
(* The database. *)

MayWrite(p) == owner \in {NoOne, p}

\* read_history_chain: the messages from id to the root, in order.
Chains(recs) ==
    LET chain[id \in Ids \cup {None}] ==
            IF id = None \/ id \notin DOMAIN recs THEN << >>
            ELSE <<id>> \o chain[recs[id].parent]
    IN  chain
Chain(id) == Chains(records)[id]

Members(s) == {s[i] : i \in DOMAIN s}
Referenced == IF session.exists THEN Members(Chain(session.tip)) ELSE {}

\* Mutant: the row is written over whatever was saved since it was read.
RevisionIgnored(seen) == TRUE
\* assert_session_revision
RevisionMatches(seen) == seen.revision = session.revision

TipMatches(expected) == session.exists /\ session.tip = expected

\* SqliteSessionStore::update and the row's half of save_linked.
SaveRow(seen, tip) ==
    session' = [session EXCEPT !.tip = tip, !.dir = seen.dir, !.revision = @ + 1]

\* delete_message_if_unreferenced
Cleaned(id) ==
    IF id \in Referenced THEN records ELSE [i \in DOMAIN records \ {id} |-> records[i]]

-----------------------------------------------------------------------------
(* The turn, in Here. *)

\* The actor claims the session and spawns the preparation.
BeginTurn ==
    /\ turn = Quiet /\ session.exists /\ owner = NoOne
    /\ owner' = Here /\ turn' = [at |-> "claimed"]
    /\ UNCHANGED <<session, records, active, undo, setting, undos, created, saved, crossed>>

\* The profile of the turn is taken, and only then is the turn active; then the tip is read.
Activate ==
    /\ turn.at = "claimed"
    /\ active' = TRUE /\ turn' = [at |-> "active"]
    /\ UNCHANGED <<session, records, owner, undo, setting, undos, created, saved, crossed>>

ReadTip ==
    /\ turn.at = "active"
    /\ turn' = [at |-> "planned", tip |-> session.tip]
    /\ UNCHANGED <<session, records, owner, active, undo, setting, undos, created, saved, crossed>>

EndTurn == turn' = Quiet /\ active' = FALSE /\ owner' = NoOne

\* append_messages reads the row again and gives up if the tip has moved.
ReadToLink ==
    /\ turn.at = "planned"
    /\ IF session.tip = turn.tip
       THEN /\ turn' = [at |-> "linking", tip |-> turn.tip, seen |-> session]
            /\ UNCHANGED <<active, owner>>
       ELSE EndTurn
    /\ UNCHANGED <<session, records, undo, setting, undos, created, saved, crossed>>

CanCreate(n) == created + n <= MaxMsgs

\* Mutant: the messages are linked after the tip they were planned for, wherever the tip is now.
LinkAllowedAnywhere == MayWrite(Here)
LinkAllowed == MayWrite(Here) /\ TipMatches(turn.tip) /\ RevisionMatches(turn.seen)

\* save_linked: the user's message, if any, and the response's placeholder, or neither.
Link ==
    /\ turn.at = "linking"
    /\ IF ~LinkAllowed
       THEN EndTurn /\ UNCHANGED <<session, records, created>>
       ELSE /\ \/ /\ CanCreate(2)
                  /\ records' = With(With(records, created + 1, Message(turn.tip, "user")),
                                     created + 2, Message(created + 1, "assistant"))
                  /\ SaveRow(turn.seen, created + 2) /\ created' = created + 2
                  /\ turn' = [at |-> "streaming", id |-> created + 2, previous |-> created + 1]
               \/ /\ CanCreate(1) /\ turn.tip # None
                  /\ records' = With(records, created + 1, Message(turn.tip, "assistant"))
                  /\ SaveRow(turn.seen, created + 1) /\ created' = created + 1
                  /\ turn' = [at |-> "streaming", id |-> created + 1, previous |-> turn.tip]
            /\ UNCHANGED <<active, owner>>
    /\ UNCHANGED <<undo, setting, undos, saved, crossed>>

\* complete_message saves the record; nothing looks at the tip.
Complete ==
    /\ turn.at = "streaming"
    /\ records' = With(records, turn.id, Message(turn.previous, "assistant"))
    /\ EndTurn
    /\ UNCHANGED <<session, undo, setting, undos, created, saved, crossed>>

\* abort_streaming_message: the row is read, and the placeholder must be at the tip.
ReadToRestore ==
    /\ turn.at = "streaming"
    /\ IF session.tip = turn.id
       THEN /\ turn' = [at |-> "restoring", id |-> turn.id, previous |-> turn.previous,
                        seen |-> session]
            /\ UNCHANGED <<active, owner>>
       ELSE EndTurn
    /\ UNCHANGED <<session, records, undo, setting, undos, created, saved, crossed>>

\* A rollback that lost a race fails and leaves the response to be aborted again.
Restore ==
    /\ turn.at = "restoring"
    /\ IF MayWrite(Here) /\ TipMatches(turn.id) /\ RevisionMatches(turn.seen)
       THEN /\ SaveRow(turn.seen, turn.previous)
            /\ turn' = [at |-> "cleaning", id |-> turn.id, previous |-> turn.previous]
       ELSE /\ turn' = [at |-> "streaming", id |-> turn.id, previous |-> turn.previous]
            /\ UNCHANGED session
    /\ UNCHANGED <<records, owner, active, undo, setting, undos, created, saved, crossed>>

CleanRestored ==
    /\ turn.at = "cleaning"
    /\ records' = Cleaned(turn.id)
    /\ EndTurn
    /\ UNCHANGED <<session, undo, setting, undos, created, saved, crossed>>

-----------------------------------------------------------------------------
(* undo_last_user_message *)

\* Mutant: an undo does not look whether a turn is active.
UndoFreeAlways(p) == TRUE
\* is_turn_active, in the manager of the runtime asked.
UndoFree(p) == p = Here => ~active

UndoCheck(p) ==
    /\ undo[p] = Quiet /\ undos < MaxUndos /\ UndoFree(p)
    /\ undo' = [undo EXCEPT ![p] = [at |-> "checked", early |-> ~active]]
    /\ undos' = undos + 1
    /\ UNCHANGED <<session, records, owner, turn, active, setting, created, saved, crossed>>

UndoRead(p) ==
    /\ undo[p].at = "checked"
    /\ undo' = [undo EXCEPT ![p] = IF session.exists /\ session.tip # None
                    THEN [at |-> "reading", early |-> undo[p].early, seen |-> session] ELSE Quiet]
    /\ UNCHANGED <<session, records, owner, turn, active, setting, undos, created, saved, crossed>>

\* The history is read from the tip of that moment, and walked from the tip read before.
UndoHistory(p) ==
    /\ undo[p].at = "reading"
    /\ LET from == undo[p].seen.tip
           chain == Chain(from)
           users == {i \in DOMAIN chain : records[chain[i]].role = "user"}
           last == CHOOSE i \in users : \A j \in users : i <= j
       IN  undo' = [undo EXCEPT ![p] =
               IF from \in Referenced /\ users # {}
               THEN [at |-> "saving", early |-> undo[p].early, seen |-> undo[p].seen,
                     removed |-> SubSeq(chain, 1, last), to |-> records[chain[last]].parent]
               ELSE Quiet]
    /\ UNCHANGED <<session, records, owner, turn, active, setting, undos, created, saved, crossed>>

UndoSave(p) ==
    /\ undo[p].at = "saving"
    /\ IF MayWrite(p) /\ TipMatches(undo[p].seen.tip) /\ RevisionMatches(undo[p].seen)
       THEN /\ SaveRow(undo[p].seen, undo[p].to)
            /\ undo' = [undo EXCEPT ![p] = [at |-> "cleaning", removed |-> undo[p].removed]]
            /\ crossed' = (crossed \/ (undo[p].early /\ active))
       ELSE undo' = [undo EXCEPT ![p] = Quiet] /\ UNCHANGED <<session, crossed>>
    /\ UNCHANGED <<records, owner, turn, active, setting, undos, created, saved>>

\* A message that cannot be deleted stays behind as an orphan.
UndoClean(p) ==
    /\ undo[p].at = "cleaning"
    /\ LET id == Head(undo[p].removed) rest == Tail(undo[p].removed) IN
       /\ records' = IF MayWrite(p) THEN Cleaned(id) ELSE records
       /\ undo' = [undo EXCEPT ![p] = IF rest = << >> THEN Quiet
                                           ELSE [at |-> "cleaning", removed |-> rest]]
    /\ UNCHANGED <<session, owner, turn, active, setting, undos, created, saved, crossed>>

-----------------------------------------------------------------------------
(* set_workspace_dir, and the other settings in the same row; delete_session. *)

ReadSettings(p) ==
    /\ setting[p] = Quiet /\ saved < MaxSets /\ session.exists
    /\ setting' = [setting EXCEPT ![p] = [at |-> "saving", seen |-> session]]
    /\ UNCHANGED <<session, records, owner, turn, active, undo, undos, created, saved, crossed>>

SaveSettings(p) ==
    /\ setting[p].at = "saving"
    /\ IF MayWrite(p) /\ RevisionMatches(setting[p].seen) /\ session.exists /\ saved < MaxSets
       THEN /\ SaveRow([setting[p].seen EXCEPT !.dir = saved + 1], setting[p].seen.tip)
            /\ saved' = saved + 1
       ELSE UNCHANGED <<session, saved>>
    /\ setting' = [setting EXCEPT ![p] = Quiet]
    /\ UNCHANGED <<records, owner, turn, active, undo, created, undos, crossed>>

\* Everything of the session goes in one transaction.
DeleteSession(p) ==
    /\ session.exists /\ MayWrite(p) /\ ~active /\ turn = Quiet
    /\ session' = [session EXCEPT !.exists = FALSE] /\ records' = << >>
    /\ UNCHANGED <<owner, turn, active, undo, setting, undos, created, saved, crossed>>

TalkNext ==
    \/ BeginTurn \/ Activate \/ ReadTip \/ ReadToLink \/ Link \/ Complete
    \/ ReadToRestore \/ Restore \/ CleanRestored
    \/ \E p \in Procs : \/ UndoCheck(p) \/ UndoRead(p) \/ UndoHistory(p) \/ UndoSave(p)
                        \/ UndoClean(p) \/ ReadSettings(p) \/ SaveSettings(p) \/ DeleteSession(p)

TalkSpec == TalkInit /\ [][TalkNext]_conversationVars

-----------------------------------------------------------------------------
ConversationTypeOK ==
    /\ session.tip \in Ids \cup {None} /\ DOMAIN records \subseteq Ids
    /\ owner \in {NoOne, Here} /\ active \in BOOLEAN /\ crossed \in BOOLEAN

\* The session's history can always be read to its root: no message on it has been cleaned up by
\* an undo or a rollback, and nothing is linked after a message that was.
HistoryReadable ==
    session.exists => LET chain == Chain(session.tip) IN
        session.tip # None => chain # << >> /\ records[chain[Len(chain)]].parent = None

\* A response being streamed is at the tip, so what it completes to is part of the history: an
\* undo and the turn do not both move the tip.  The exception is an undo that looked for an active
\* turn before the preparation set one and read the row after the preparation had linked it.
StreamAtTip == turn.at = "streaming" /\ ~crossed => session.tip = turn.id

\* Settings whose change was acknowledged stay as they are until they are changed again: no turn,
\* rollback or undo writes back the ones it had read before.
SettingsKept == session.exists => session.dir = saved

\* The three together: what two processes that append, undo and save settings leave intact
\* (SqliteMessageStore::save, assert_session_revision, an undo's clean-up).
ConversationIntact == HistoryReadable /\ StreamAtTip /\ SettingsKept

-----------------------------------------------------------------------------
(* What the proofs below carry through every step. *)

RowState == [exists : BOOLEAN, tip : Nat, revision : Nat, dir : Nat]

\* A message's parent is an older one.
WellFormed(recs) ==
    /\ DOMAIN recs \subseteq Ids
    /\ \A i \in DOMAIN recs : recs[i].parent \in Nat /\ recs[i].parent < i
\* A set of messages that holds the parents of all its members.
Closed(recs, H) ==
    /\ H \subseteq DOMAIN recs
    /\ \A i \in H : recs[i].parent = None \/ recs[i].parent \in H

Typed ==
    /\ session \in RowState /\ active \in BOOLEAN /\ crossed \in BOOLEAN
    /\ saved \in Nat /\ created \in Nat /\ created <= MaxMsgs
    /\ WellFormed(records) /\ DOMAIN records \subseteq 1..created /\ session.tip <= created
    /\ DOMAIN undo = Procs /\ DOMAIN setting = Procs
    /\ \A p \in Procs : undo[p].at \in {"checked", "reading", "saving"} => undo[p].early \in BOOLEAN

\* A row that was read is the present one as long as its revision is.
ReadIn(now, seen) ==
    /\ seen \in RowState /\ seen.revision <= now.revision
    /\ seen.revision = now.revision => seen.dir = now.dir /\ seen.tip = now.tip
RowsRead ==
    /\ turn.at \in {"linking", "restoring"} => ReadIn(session, turn.seen)
    /\ \A p \in Procs : /\ undo[p].at \in {"reading", "saving"} => ReadIn(session, undo[p].seen)
                        /\ setting[p].at = "saving" => ReadIn(session, setting[p].seen)

\* A turn owns the session, and is active once its profile is taken.
TurnOwns ==
    /\ turn.at # "none" => owner = Here
    /\ turn.at \notin {"none", "claimed"} => active
\* An undo that the turn's runtime lets through looked before the turn was active.
UndoneEarly ==
    \A p \in Procs : p = Here /\ undo[p].at \in {"checked", "reading", "saving"} => undo[p].early
\* The placeholder is the turn's own, and answers an older message.
Placeholder ==
    turn.at \in {"streaming", "restoring", "cleaning"} =>
        /\ turn.id \in Nat /\ turn.id > 0 /\ turn.id <= created
        /\ turn.previous \in Nat /\ turn.previous < turn.id
        /\ turn.id \in DOMAIN records => records[turn.id] = Message(turn.previous, "assistant")
PlaceholderAtTip ==
    turn.at \in {"streaming", "restoring"} /\ ~crossed => session.tip = turn.id
\* The tip's history is there.
Rooted ==
    session.exists /\ session.tip # None =>
        \E H \in SUBSET DOMAIN records : Closed(records, H) /\ session.tip \in H
\* An undo moves the tip to a message of the history it read.
UndoneTo ==
    \A p \in Procs :
        undo[p].at = "saving" /\ session.exists /\ undo[p].seen.revision = session.revision =>
            undo[p].to = None \/ undo[p].to \in Referenced

ConversationInv ==
    /\ Typed /\ RowsRead /\ TurnOwns /\ UndoneEarly /\ Placeholder /\ PlaceholderAtTip
    /\ SettingsKept /\ Rooted /\ UndoneTo

-----------------------------------------------------------------------------
(* The chain of a message: a recursive function, so what it is and what it  *)
(* holds follow from the least message of which they would not be true.     *)

ChainAt(recs, chain, id) ==
    IF id = None \/ id \notin DOMAIN recs THEN << >> ELSE <<id>> \o chain[recs[id].parent]

\* A set of numbers has a least member.
LEMMA LeastOne == ASSUME NEW S, S \subseteq Nat, S # {} PROVE \E n \in S : \A k \in S : n <= k
<1>1. \E n \in S : \A k \in S : ~ (<<k, n>> \in OpToRel(<, Nat))
  BY WFMin, NatLessThanWellFounded
<1>2. ASSUME NEW n \in Nat, NEW k \in Nat, k < n PROVE <<k, n>> \in OpToRel(<, Nat)
  BY <1>2, Zenon DEF OpToRel
<1>3. PICK n \in S : \A k \in S : ~ (<<k, n>> \in OpToRel(<, Nat))
  BY <1>1
<1>4. \A k \in S : ~ (k < n)
  BY <1>2, <1>3, Zenon
<1> QED BY <1>4

\* Up to every message there is a function that follows the parents.
LEMMA ChainExists ==
    ASSUME NEW recs, WellFormed(recs), MaxMsgs \in Nat
    PROVE  \E f : f = [id \in Ids \cup {None} |-> ChainAt(recs, f, id)]
<1> DEFINE Upto(n, f) == f = [id \in 0..n |-> ChainAt(recs, f, id)]
           Bad == {n \in 0..MaxMsgs : ~ \E f : Upto(n, f)}
<1>1. Bad = {}
  <2> SUFFICES ASSUME Bad # {} PROVE FALSE OBVIOUS
  <2> Bad \subseteq Nat OBVIOUS
  <2> HIDE DEF Bad
  <2>1. PICK n \in Bad : \A k \in Bad : n <= k
    BY LeastOne
  <2> USE DEF Bad
  <2>2. \E f : Upto(n, f)
    <3>1. CASE n = 0
      <4> DEFINE g == [id \in 0..0 |-> << >>]
      <4>1. \A id \in 0..0 : ChainAt(recs, g, id) = << >>
        BY DEF ChainAt, None
      <4>2. g = [id \in 0..0 |-> ChainAt(recs, g, id)]
        BY <4>1
      <4> QED BY <3>1, <4>2
    <3>2. CASE n # 0
      <4>1. n \in Nat /\ n - 1 \in 0..MaxMsgs /\ n - 1 \notin Bad
        BY <2>1, <3>2
      <4>2. PICK f : Upto(n - 1, f)
        BY <4>1
      <4> DEFINE g == [id \in 0..n |-> IF id = n THEN ChainAt(recs, f, n) ELSE f[id]]
      <4>3. \A id \in 0..n : ChainAt(recs, g, id) = ChainAt(recs, f, id)
        <5> SUFFICES ASSUME NEW id \in 0..n PROVE ChainAt(recs, g, id) = ChainAt(recs, f, id)
          OBVIOUS
        <5>1. ASSUME id \in DOMAIN recs PROVE g[recs[id].parent] = f[recs[id].parent]
          <6>1. recs[id].parent \in 0..n /\ recs[id].parent # n
            BY <4>1, <5>1 DEF WellFormed
          <6> QED BY <6>1
        <5> HIDE DEF g
        <5> QED BY <5>1 DEF ChainAt
      <4>4. \A id \in 0..n : g[id] = ChainAt(recs, f, id)
        <5> SUFFICES ASSUME NEW id \in 0..n, id # n PROVE f[id] = ChainAt(recs, f, id)
          OBVIOUS
        <5>1. id \in 0..(n - 1)
          BY <4>1
        <5> QED BY <4>2, <5>1
      <4>5. g = [id \in 0..n |-> ChainAt(recs, g, id)]
        BY <4>3, <4>4
      <4> QED BY <4>5
    <3> QED BY <3>1, <3>2
  <2> QED BY <2>1, <2>2
<1>2. PICK f : Upto(MaxMsgs, f)
  BY <1>1
<1>3. Ids \cup {None} = 0..MaxMsgs
  BY DEF Ids, None
<1> QED BY <1>2, <1>3

\* The chain of a message is the message, followed by the chain of its parent.
LEMMA ChainStep ==
    ASSUME NEW recs, WellFormed(recs), MaxMsgs \in Nat
    PROVE  /\ Chains(recs)[None] = << >>
           /\ \A id \in DOMAIN recs : Chains(recs)[id] = <<id>> \o Chains(recs)[recs[id].parent]
<1> DEFINE c == CHOOSE g : g = [id \in Ids \cup {None} |->
                   IF id = None \/ id \notin DOMAIN recs THEN << >>
                   ELSE <<id>> \o g[recs[id].parent]]
<1>1. Chains(recs) = c
  BY DEF Chains
<1>2. \E f : f = [id \in Ids \cup {None} |-> IF id = None \/ id \notin DOMAIN recs THEN << >>
                                             ELSE <<id>> \o f[recs[id].parent]]
  BY ChainExists DEF ChainAt
<1>3. c = [id \in Ids \cup {None} |-> IF id = None \/ id \notin DOMAIN recs THEN << >>
                                      ELSE <<id>> \o c[recs[id].parent]]
  BY <1>2
<1> HIDE DEF c
<1>4. None \notin DOMAIN recs /\ DOMAIN recs \subseteq Ids
  BY DEF WellFormed, Ids, None
<1> QED BY <1>1, <1>3, <1>4

Whole(recs, H, id) ==
    LET chain == Chains(recs)[id] IN
    /\ chain \in Seq(H) /\ chain # << >> /\ recs[chain[Len(chain)]].parent = None
    /\ id \in Members(chain) /\ Closed(recs, Members(chain))

\* The chain of a message whose ancestors are all there ends at the root, and holds no other
\* message than they.
LEMMA ChainWhole ==
    ASSUME NEW recs, WellFormed(recs), MaxMsgs \in Nat, NEW H, Closed(recs, H), NEW id \in H
    PROVE  Whole(recs, H, id)
<1> DEFINE Bad == {n \in H : ~ Whole(recs, H, n)}
<1> SUFFICES ASSUME Bad # {} PROVE FALSE OBVIOUS
<1>1. H \subseteq Nat /\ H \subseteq DOMAIN recs /\ None \notin H
  BY DEF Closed, WellFormed, Ids, None
<1>2. PICK n \in Bad : \A k \in Bad : n <= k
  BY <1>1, LeastOne
<1> DEFINE chain == Chains(recs)[n]
           up == recs[n].parent
           rest == Chains(recs)[up]
<1>3. chain = <<n>> \o rest
  BY <1>1, ChainStep
<1>4. up \in Nat /\ up < n /\ (up = None \/ up \in H)
  BY <1>1 DEF WellFormed, Closed
<1>5. CASE up = None
  <2>1. rest = << >>
    BY <1>5, ChainStep
  <2>2. chain = <<n>>
    BY <1>3, <2>1
  <2>3. Members(<<n>>) = {n}
    BY DEF Members
  <2>4. Whole(recs, H, n)
    BY <1>1, <1>5, <2>2, <2>3 DEF Whole, Closed
  <2> QED BY <2>4
<1>6. CASE up # None
  <2>1. up \in H /\ Whole(recs, H, up)
    BY <1>1, <1>2, <1>4, <1>6
  <2>2. /\ rest \in Seq(H) /\ rest # << >> /\ recs[rest[Len(rest)]].parent = None
        /\ up \in Members(rest) /\ Closed(recs, Members(rest))
    BY <2>1 DEF Whole
  <2> HIDE DEF rest
  <2>3. /\ chain \in Seq(H) /\ Len(chain) = Len(rest) + 1 /\ chain[1] = n
        /\ \A i \in 1..Len(rest) : chain[i + 1] = rest[i]
    BY <1>3, <2>2
  <2> HIDE DEF chain
  <2>4. Len(rest) \in Nat /\ Len(rest) > 0
    BY <2>2
  <2>5. chain[Len(chain)] = rest[Len(rest)] /\ chain # << >>
    BY <2>3, <2>4
  <2>6. Members(chain) = {n} \cup Members(rest)
    <3>1. ASSUME NEW i \in 1..Len(chain), i # 1 PROVE chain[i] \in Members(rest)
      <4>1. i - 1 \in 1..Len(rest) /\ (i - 1) + 1 = i
        BY <2>3, <2>4, <3>1
      <4>2. chain[i] = rest[i - 1]
        BY <2>3, <4>1
      <4> QED BY <2>2, <4>1, <4>2 DEF Members
    <3>2. ASSUME NEW i \in 1..Len(rest) PROVE rest[i] \in Members(chain)
      <4>1. i + 1 \in 1..Len(chain)
        BY <2>3, <2>4
      <4> QED BY <2>3, <4>1 DEF Members
    <3>3. n \in Members(chain)
      BY <2>3, <2>4 DEF Members
    <3>4. DOMAIN chain = 1..Len(chain) /\ DOMAIN rest = 1..Len(rest)
      BY <2>2, <2>3
    <3>5. \A x \in Members(chain) : x = n \/ x \in Members(rest)
      BY <2>3, <3>1, <3>4 DEF Members
    <3>6. \A x \in Members(rest) : x \in Members(chain)
      BY <3>2, <3>4 DEF Members
    <3> QED BY <3>3, <3>5, <3>6
  <2>7. Closed(recs, Members(chain))
    BY <1>1, <2>2, <2>6 DEF Closed
  <2>8. Whole(recs, H, n)
    BY <2>2, <2>3, <2>5, <2>6, <2>7 DEF Whole, chain
  <2> QED BY <2>8
<1> QED BY <1>5, <1>6

LEMMA ChainInside ==
    ASSUME NEW recs, WellFormed(recs), MaxMsgs \in Nat, NEW H, Closed(recs, H), NEW id \in H
    PROVE  Members(Chains(recs)[id]) \subseteq H
<1>1. Chains(recs)[id] \in Seq(H)
  BY ChainWhole DEF Whole
<1> QED BY <1>1 DEF Members

\* Records that agree on the chain of a message, and keep it, give it the same members.
LEMMA ChainKept ==
    ASSUME NEW recs, WellFormed(recs), NEW recs2, WellFormed(recs2), MaxMsgs \in Nat,
           NEW H, Closed(recs, H), NEW id \in H,
           Members(Chains(recs)[id]) \subseteq DOMAIN recs2,
           \A i \in Members(Chains(recs)[id]) : recs2[i] = recs[i]
    PROVE  Members(Chains(recs2)[id]) = Members(Chains(recs)[id])
<1> DEFINE R == Members(Chains(recs)[id])
           R2 == Members(Chains(recs2)[id])
<1>1. id \in R /\ Closed(recs, R)
  BY ChainWhole DEF Whole
<1>2. Closed(recs2, R)
  BY <1>1 DEF Closed
<1> HIDE DEF R
<1>3. R2 \subseteq R
  BY <1>1, <1>2, ChainInside
<1>4. id \in R2 /\ Closed(recs2, R2)
  BY <1>1, <1>2, ChainWhole DEF Whole
<1>5. \A i \in R : recs2[i] = recs[i]
  BY DEF R
<1> HIDE DEF R2
<1>6. Closed(recs, R2)
  BY <1>1, <1>3, <1>4, <1>5 DEF Closed
<1>7. Members(Chains(recs)[id]) \subseteq R2
  BY <1>4, <1>6, ChainInside
<1> QED BY <1>3, <1>7 DEF R, R2

-----------------------------------------------------------------------------
Parameters == MaxMsgs \in Nat /\ MaxMsgs >= 2 /\ Here # NoOne

\* The members of the present history are there, with their parents.
LEMMA ReferencedClosed ==
    ASSUME ConversationInv, Parameters, session.exists
    PROVE  /\ Closed(records, Referenced) /\ (session.tip = None => Referenced = {})
           /\ session.tip # None => session.tip \in Referenced
           /\ \A id \in Referenced : Members(Chain(id)) \subseteq Referenced
<1>1. WellFormed(records) /\ MaxMsgs \in Nat
  BY DEF ConversationInv, Typed, Parameters
<1>2. CASE session.tip = None
  <2>1. Members(Chain(session.tip)) = {}
    BY <1>1, <1>2, ChainStep DEF Chain, Members
  <2> QED BY <1>2, <2>1 DEF Referenced, Closed
<1>3. CASE session.tip # None
  <2>1. PICK H \in SUBSET DOMAIN records : Closed(records, H) /\ session.tip \in H
    BY <1>3 DEF ConversationInv, Rooted
  <2>2. Closed(records, Referenced) /\ session.tip \in Referenced
    BY <1>1, <2>1, ChainWhole DEF Whole, Referenced, Chain
  <2>3. ASSUME NEW id \in Referenced PROVE Members(Chain(id)) \subseteq Referenced
    BY <1>1, <2>2, ChainInside DEF Chain
  <2> QED BY <1>3, <2>2, <2>3
<1> QED BY <1>2, <1>3

\* Writing and deleting other records changes nothing of the present history.
LEMMA RecordsKept ==
    ASSUME ConversationInv, Parameters, WellFormed(records'), session' = session,
           \A i \in Referenced : i \in DOMAIN records' /\ records'[i] = records[i]
    PROVE  Rooted' /\ (session.exists => Referenced' = Referenced)
<1> SUFFICES ASSUME session.exists PROVE Rooted' /\ Referenced' = Referenced
  BY DEF Rooted
<1>1. WellFormed(records) /\ MaxMsgs \in Nat
  BY DEF ConversationInv, Typed, Parameters
<1>2. CASE session.tip = None
  <2>1. Chains(records)[None] = << >> /\ Chains(records')[None] = << >>
    BY <1>1, ChainStep
  <2> QED BY <1>2, <2>1 DEF Rooted, Referenced, Chain
<1>3. CASE session.tip # None
  <2>1. Closed(records, Referenced) /\ session.tip \in Referenced
    BY <1>3, ReferencedClosed
  <2>2. Closed(records', Referenced)
    BY <2>1 DEF Closed
  <2>3. Rooted'
    BY <2>1, <2>2 DEF Rooted, Closed
  <2>4. Referenced = Members(Chains(records)[session.tip])
    BY DEF Referenced, Chain
  <2>5. Members(Chains(records')[session.tip]) = Members(Chains(records)[session.tip])
    BY <1>1, <2>1, <2>2, <2>4, ChainKept DEF Closed
  <2>6. Referenced' = Members(Chains(records')[session.tip])
    BY DEF Referenced, Chain
  <2> QED BY <2>3, <2>4, <2>5, <2>6
<1> QED BY <1>2, <1>3

LEMMA ReferencedThere ==
    ASSUME ConversationInv, Parameters PROVE Referenced \subseteq DOMAIN records
<1>1. CASE session.exists BY <1>1, ReferencedClosed DEF Closed
<1>2. CASE ~ session.exists BY <1>2 DEF Referenced
<1> QED BY <1>1, <1>2

LEMMA HistoryKept ==
    ASSUME ConversationInv, Parameters, WellFormed(records'), session' = session, undo' = undo,
           \A i \in Referenced : i \in DOMAIN records' /\ records'[i] = records[i]
    PROVE  Rooted' /\ UndoneTo'
<1>1. Rooted' /\ (session.exists => Referenced' = Referenced)
  BY RecordsKept
<1> QED BY <1>1 DEF ConversationInv, UndoneTo

\* What writing a message changes of the records.
Written(new, recs, id, parent, role) ==
    /\ WellFormed(new) /\ DOMAIN new = DOMAIN recs \cup {id}
    /\ new[id] = Message(parent, role) /\ new[id].parent = parent
    /\ \A i \in DOMAIN recs \ {id} : new[i] = recs[i]

LEMMA WithMessage ==
    ASSUME NEW recs, WellFormed(recs), NEW id \in Ids, NEW parent \in Nat, parent < id, NEW role
    PROVE  Written(With(recs, id, Message(parent, role)), recs, id, parent, role)
<1> DEFINE new == With(recs, id, Message(parent, role))
<1>1. /\ DOMAIN new = DOMAIN recs \cup {id} /\ new[id] = Message(parent, role)
      /\ \A i \in DOMAIN recs \ {id} : new[i] = recs[i]
  BY DEF With
<1>2. Message(parent, role).parent = parent
  BY DEF Message
<1> HIDE DEF new
<1>3. WellFormed(new)
  BY <1>1, <1>2 DEF WellFormed
<1>4. Written(new, recs, id, parent, role)
  BY <1>1, <1>2, <1>3 DEF Written
<1> QED BY <1>4 DEF new

\* What is deleted is not part of the present history.
LEMMA CleanedKeeps ==
    ASSUME ConversationInv, Parameters, NEW id, records' = Cleaned(id)
    PROVE  /\ WellFormed(records') /\ DOMAIN records' \subseteq DOMAIN records
           /\ \A i \in DOMAIN records' : records'[i] = records[i]
           /\ \A i \in Referenced : i \in DOMAIN records'
<1>1. WellFormed(records) /\ Referenced \subseteq DOMAIN records
  BY ReferencedThere DEF ConversationInv, Typed
<1>2. CASE id \in Referenced BY <1>1, <1>2 DEF Cleaned
<1>3. CASE id \notin Referenced
  <2>1. records' = [i \in DOMAIN records \ {id} |-> records[i]]
    BY <1>3 DEF Cleaned
  <2>2. WellFormed(records') BY <1>1, <2>1 DEF WellFormed
  <2> QED BY <1>1, <1>3, <2>1, <2>2
<1> QED BY <1>2, <1>3

\* A row that is saved is a newer one, so what was read of it is out of date.
LEMMA RowSaved ==
    ASSUME session \in RowState, NEW seen, seen \in RowState, NEW tip \in Nat, SaveRow(seen, tip)
    PROVE  /\ session' \in RowState /\ session'.exists = session.exists /\ session'.tip = tip
           /\ session'.dir = seen.dir /\ session'.revision = session.revision + 1
<1>1. /\ session'.exists = session.exists /\ session'.tip = tip
      /\ session'.dir = seen.dir /\ session'.revision = session.revision + 1
  BY DEF SaveRow, RowState
<1>2. session'.revision \in Nat /\ session'.dir \in Nat /\ session'.exists \in BOOLEAN
  BY <1>1 DEF RowState
<1>3. session' = [exists |-> session'.exists, tip |-> session'.tip, revision |-> session'.revision,
              dir |-> session'.dir]
  BY DEF SaveRow, RowState
<1> QED BY <1>1, <1>2, <1>3 DEF RowState

LEMMA ReadsOutdated ==
    ASSUME session \in RowState, session' \in RowState, session'.revision = session.revision + 1,
           NEW seen, ReadIn(session, seen)
    PROVE  ReadIn(session', seen)
BY DEF ReadIn, RowState

LEMMA UndosOutdated ==
    ASSUME ConversationInv, session' \in RowState, session'.revision = session.revision + 1,
           \A p \in Procs : undo'[p].at = "saving" => undo'[p] = undo[p]
    PROVE  UndoneTo'
<1> SUFFICES ASSUME NEW p \in Procs, undo'[p].at = "saving"
             PROVE  undo'[p].seen.revision # session'.revision
  BY DEF UndoneTo
<1>1. ReadIn(session, undo[p].seen) /\ undo'[p] = undo[p] /\ session \in RowState
  BY DEF ConversationInv, RowsRead, Typed
<1> QED BY <1>1 DEF ReadIn, RowState

(* One lemma for each action: the parts it disturbs one by one, then the others. *)

LEMMA BeginTurnKeeps ==
    ASSUME ConversationInv, Parameters, BeginTurn PROVE ConversationInv'
<1>1. RowsRead'
  BY DEF ConversationInv, RowsRead, NoOne, Quiet, ReadIn, RowState, BeginTurn
<1>2. TurnOwns'
  BY DEF ConversationInv, TurnOwns, NoOne, Quiet, BeginTurn
<1>3. Placeholder'
  BY DEF ConversationInv, Placeholder, Message, NoOne, Quiet, BeginTurn
<1>4. PlaceholderAtTip'
  BY DEF ConversationInv, PlaceholderAtTip, NoOne, Quiet, BeginTurn
<1>5. Typed' /\ UndoneEarly' /\ SettingsKept' /\ Rooted' /\ UndoneTo'
  BY DEF ConversationInv, Typed, UndoneEarly, SettingsKept, Rooted, UndoneTo, Referenced, Chain,
      BeginTurn
<1> QED BY <1>1, <1>2, <1>3, <1>4, <1>5 DEF ConversationInv

LEMMA ActivateKeeps ==
    ASSUME ConversationInv, Parameters, Activate PROVE ConversationInv'
<1>1. Typed'
  BY DEF ConversationInv, Typed, Ids, RowState, WellFormed, Activate
<1>2. RowsRead'
  BY DEF ConversationInv, RowsRead, ReadIn, RowState, Activate
<1>3. TurnOwns'
  BY DEF ConversationInv, TurnOwns, Activate
<1>4. Placeholder'
  BY DEF ConversationInv, Placeholder, Message, Activate
<1>5. PlaceholderAtTip'
  BY DEF ConversationInv, PlaceholderAtTip, Activate
<1>6. UndoneEarly' /\ SettingsKept' /\ Rooted' /\ UndoneTo'
  BY DEF ConversationInv, UndoneEarly, SettingsKept, Rooted, UndoneTo, Referenced, Chain,
      Activate
<1> QED BY <1>1, <1>2, <1>3, <1>4, <1>5, <1>6 DEF ConversationInv

LEMMA ReadTipKeeps ==
    ASSUME ConversationInv, Parameters, ReadTip PROVE ConversationInv'
<1>1. RowsRead'
  BY DEF ConversationInv, RowsRead, ReadIn, RowState, ReadTip
<1>2. TurnOwns'
  BY DEF ConversationInv, TurnOwns, ReadTip
<1>3. Placeholder'
  BY DEF ConversationInv, Placeholder, Message, ReadTip
<1>4. PlaceholderAtTip'
  BY DEF ConversationInv, PlaceholderAtTip, ReadTip
<1>5. Typed' /\ UndoneEarly' /\ SettingsKept' /\ Rooted' /\ UndoneTo'
  BY DEF ConversationInv, Typed, UndoneEarly, SettingsKept, Rooted, UndoneTo, Referenced, Chain,
      ReadTip
<1> QED BY <1>1, <1>2, <1>3, <1>4, <1>5 DEF ConversationInv

LEMMA ReadToLinkKeeps ==
    ASSUME ConversationInv, Parameters, ReadToLink PROVE ConversationInv'
<1>1. Typed'
  BY DEF ConversationInv, Typed, EndTurn, Ids, NoOne, Quiet, RowState, WellFormed, ReadToLink
<1>2. RowsRead'
  BY DEF ConversationInv, Typed, RowsRead, EndTurn, NoOne, Quiet, ReadIn, RowState, ReadToLink
<1>3. TurnOwns'
  <2>1. CASE turn'.at = "linking"
    <3>1. owner' = owner /\ active' = active /\ turn.at = "planned"
      BY <2>1 DEF ReadToLink, EndTurn, Quiet
    <3> QED BY <2>1, <3>1 DEF ConversationInv, TurnOwns
  <2>2. CASE turn'.at = "none" BY <2>2 DEF TurnOwns
  <2> QED BY <2>1, <2>2 DEF ReadToLink, EndTurn, Quiet
<1>4. Placeholder'
  BY DEF ConversationInv, Placeholder, EndTurn, Message, NoOne, Quiet, ReadToLink
<1>5. PlaceholderAtTip'
  BY DEF ConversationInv, PlaceholderAtTip, EndTurn, NoOne, Quiet, ReadToLink
<1>6. UndoneEarly' /\ SettingsKept' /\ Rooted' /\ UndoneTo'
  BY DEF ConversationInv, UndoneEarly, SettingsKept, Rooted, UndoneTo, Referenced, Chain,
      ReadToLink
<1> QED BY <1>1, <1>2, <1>3, <1>4, <1>5, <1>6 DEF ConversationInv

LEMMA LinkKeeps ==
    ASSUME ConversationInv, Parameters, Link PROVE ConversationInv'
<1> USE DEF ConversationInv
<1>1. turn.at = "linking" /\ session \in RowState /\ ReadIn(session, turn.seen)
  BY DEF Link, RowsRead, Typed
<1>2. UNCHANGED <<undo, setting, undos, saved, crossed>>
  BY DEF Link
<1>3. CASE ~ LinkAllowed
  <2>1. turn'.at = "none" /\ active' = FALSE /\ UNCHANGED <<session, records, created>>
    BY <1>3 DEF Link, EndTurn, Quiet
  <2> USE <1>2, <2>1
  <2>2. Typed' /\ RowsRead' /\ TurnOwns' /\ UndoneEarly'
    BY DEF Typed, RowsRead, TurnOwns, UndoneEarly
  <2>3. Placeholder' /\ PlaceholderAtTip' /\ SettingsKept'
    BY DEF Placeholder, PlaceholderAtTip, SettingsKept
  <2>4. Rooted' /\ UndoneTo' BY DEF Rooted, UndoneTo, Referenced, Chain
  <2> QED BY <2>2, <2>3, <2>4
<1>4. CASE LinkAllowed
  <2>1. /\ session.exists /\ session.tip = turn.tip /\ turn.seen.revision = session.revision
        /\ session.tip \in Nat /\ session.tip <= created /\ created \in Nat /\ MaxMsgs \in Nat
        /\ WellFormed(records) /\ DOMAIN records \subseteq 1..created
    BY <1>1, <1>4 DEF LinkAllowed, TipMatches, RevisionMatches, Typed, RowState, Parameters
  <2> DEFINE new == (created + 1)..created'
  <2>2. /\ turn'.at = "streaming" /\ turn'.id = created' /\ SaveRow(turn.seen, created')
        /\ created' \in Nat /\ created < created' /\ created' <= MaxMsgs
        /\ UNCHANGED <<active, owner>>
    BY <1>4, <2>1 DEF Link, CanCreate
  <2>3. /\ turn'.previous \in Nat /\ turn'.previous < created'
        /\ records'[created'] = Message(turn'.previous, "assistant")
        /\ WellFormed(records') /\ DOMAIN records' = DOMAIN records \cup new
        /\ \A i \in DOMAIN records : records'[i] = records[i]
        /\ \A i \in new : records'[i].parent = session.tip \/ records'[i].parent \in new
    <3> DEFINE a == created + 1
               b == created + 2
    <3>1. CASE created' = b
      <4> DEFINE first == With(records, a, Message(session.tip, "user"))
      <4>1. /\ CanCreate(2) /\ turn' = [at |-> "streaming", id |-> b, previous |-> a]
            /\ records' = With(first, b, Message(a, "assistant"))
        BY <1>4, <2>1, <3>1 DEF Link
      <4>2. a \in Ids /\ b \in Ids /\ a < b /\ session.tip < a /\ new = {a, b} /\ a \in Nat
        BY <2>1, <3>1, <4>1 DEF CanCreate, Ids
      <4> HIDE DEF a, b, new
      <4>3. /\ WellFormed(first) /\ DOMAIN first = DOMAIN records \cup {a}
            /\ first[a].parent = session.tip
            /\ \A i \in DOMAIN records \ {a} : first[i] = records[i]
        <5>1. Written(first, records, a, session.tip, "user") BY <2>1, <4>2, WithMessage
        <5> HIDE DEF first
        <5> QED BY <5>1 DEF Written
      <4> HIDE DEF first
      <4>4. /\ WellFormed(records') /\ DOMAIN records' = DOMAIN first \cup {b}
            /\ records'[b] = Message(a, "assistant") /\ records'[b].parent = a
            /\ \A i \in DOMAIN first \ {b} : records'[i] = first[i]
        <5>1. WellFormed(first) BY <4>3
        <5>2. Written(With(first, b, Message(a, "assistant")), first, b, a, "assistant")
          BY <4>2, <5>1, WithMessage
        <5> QED BY <4>1, <5>2 DEF Written
      <4>5. a \notin DOMAIN records /\ b \notin DOMAIN records
        BY <2>1 DEF a, b
      <4>6. turn'.previous = a BY <4>1
      <4> QED BY <3>1, <4>2, <4>3, <4>4, <4>5, <4>6
    <3>2. CASE created' # b
      <4>1. /\ CanCreate(1) /\ created' = a
            /\ turn' = [at |-> "streaming", id |-> a, previous |-> session.tip]
            /\ records' = With(records, a, Message(session.tip, "assistant"))
        BY <1>4, <2>1, <3>2 DEF Link
      <4>2. a \in Ids /\ session.tip < a /\ new = {a}
        BY <2>1, <4>1 DEF CanCreate, Ids
      <4>3. a \notin DOMAIN records
        BY <2>1
      <4> HIDE DEF a, new
      <4>4. /\ WellFormed(records') /\ DOMAIN records' = DOMAIN records \cup {a}
            /\ records'[a] = Message(session.tip, "assistant") /\ records'[a].parent = session.tip
            /\ \A i \in DOMAIN records \ {a} : records'[i] = records[i]
        <5>1. Written(With(records, a, Message(session.tip, "assistant")), records, a, session.tip,
                      "assistant")
          BY <2>1, <4>2, WithMessage
        <5> QED BY <4>1, <5>1 DEF Written
      <4>5. turn'.previous = session.tip BY <4>1
      <4> QED BY <2>1, <4>1, <4>2, <4>3, <4>4, <4>5
    <3> QED BY <3>1, <3>2
  <2>4. turn.seen \in RowState /\ turn.seen.dir = session.dir
    BY <1>1, <2>1 DEF ReadIn
  <2>5. /\ session' \in RowState /\ session'.exists = session.exists /\ session'.tip = created'
        /\ session'.dir = session.dir /\ session'.revision = session.revision + 1
    BY <1>1, <2>2, <2>4, RowSaved
  <2> USE <1>2
  <2>6. Typed'
    <3>1. DOMAIN records' \subseteq 1..created' BY <2>1, <2>2, <2>3
    <3> QED BY <2>2, <2>3, <2>5, <3>1 DEF Typed
  <2>7. RowsRead' BY <1>1, <2>2, <2>5, ReadsOutdated DEF RowsRead
  <2>8. TurnOwns' /\ UndoneEarly' BY <1>1, <2>2 DEF TurnOwns, UndoneEarly
  <2>9. Placeholder' /\ PlaceholderAtTip'
    BY <2>2, <2>3, <2>5 DEF Placeholder, PlaceholderAtTip
  <2>10. SettingsKept' BY <2>5 DEF SettingsKept
  <2>11. Rooted'
    <3>1. Closed(records, Referenced) /\ (session.tip = None \/ session.tip \in Referenced)
      BY <2>1, ReferencedClosed
    <3>2. created' \in new BY <2>1, <2>2
    <3> HIDE DEF new
    <3>3. Closed(records', Referenced \cup new)
      BY <2>3, <3>1 DEF Closed
    <3> QED BY <2>5, <3>2, <3>3 DEF Rooted, Closed
  <2>12. UndoneTo' BY <2>5, UndosOutdated
  <2> QED BY <2>6, <2>7, <2>8, <2>9, <2>10, <2>11, <2>12
<1> QED BY <1>3, <1>4

LEMMA CompleteKeeps ==
    ASSUME ConversationInv, Parameters, Complete PROVE ConversationInv'
<1>1. Typed'
  <2>1. /\ turn.id \in Ids /\ turn.id <= created
        /\ turn.previous \in Nat /\ turn.previous < turn.id
    BY DEF Complete, ConversationInv, Typed, Placeholder, Ids, Parameters
  <2>2. WellFormed(records') /\ DOMAIN records' = DOMAIN records \cup {turn.id}
    <3>1. records' = With(records, turn.id, Message(turn.previous, "assistant"))
      BY DEF Complete
    <3>2. WellFormed(records) BY DEF ConversationInv, Typed
    <3>3. Written(records', records, turn.id, turn.previous, "assistant")
      BY <2>1, <3>1, <3>2, WithMessage
    <3> QED BY <3>3 DEF Written
  <2>3. DOMAIN records' \subseteq 1..created
    BY <2>1, <2>2 DEF ConversationInv, Typed, Ids, Parameters
  <2>4. active' \in BOOLEAN BY DEF Complete, EndTurn
  <2> QED BY <2>2, <2>3, <2>4 DEF Complete, ConversationInv, Typed
<1>2. RowsRead'
  BY DEF ConversationInv, RowsRead, EndTurn, Message, NoOne, Quiet, ReadIn, RowState, With,
      Complete
<1>3. TurnOwns'
  BY DEF ConversationInv, TurnOwns, EndTurn, Message, NoOne, Quiet, With, Complete
<1>4. Placeholder'
  BY DEF ConversationInv, Placeholder, EndTurn, Message, NoOne, Quiet, With, Complete
<1>5. PlaceholderAtTip'
  BY DEF ConversationInv, PlaceholderAtTip, EndTurn, Message, NoOne, Quiet, With, Complete
<1>6. Rooted' /\ UndoneTo'
  <2>1. /\ turn.id \in Ids /\ turn.previous \in Nat /\ turn.previous < turn.id
    BY DEF Complete, ConversationInv, Typed, Placeholder, Ids, Parameters
  <2>2. /\ WellFormed(records') /\ DOMAIN records' = DOMAIN records \cup {turn.id}
        /\ records'[turn.id] = Message(turn.previous, "assistant")
        /\ \A i \in DOMAIN records \ {turn.id} : records'[i] = records[i]
    <3>1. records' = With(records, turn.id, Message(turn.previous, "assistant"))
      BY DEF Complete
    <3>2. WellFormed(records) BY DEF ConversationInv, Typed
    <3>3. Written(records', records, turn.id, turn.previous, "assistant")
      BY <2>1, <3>1, <3>2, WithMessage
    <3> QED BY <3>3 DEF Written
  <2>3. turn.id \in DOMAIN records => records[turn.id] = Message(turn.previous, "assistant")
    BY DEF Complete, ConversationInv, Placeholder
  <2>4. \A i \in DOMAIN records : i \in DOMAIN records' /\ records'[i] = records[i]
    BY <2>2, <2>3
  <2> QED BY <2>2, <2>4, ReferencedThere, HistoryKept DEF Complete
<1>7. UndoneEarly' /\ SettingsKept'
  BY DEF ConversationInv, UndoneEarly, SettingsKept, Complete
<1> QED BY <1>1, <1>2, <1>3, <1>4, <1>5, <1>6, <1>7 DEF ConversationInv

LEMMA ReadToRestoreKeeps ==
    ASSUME ConversationInv, Parameters, ReadToRestore PROVE ConversationInv'
<1>1. Typed'
  BY DEF ConversationInv, Typed, EndTurn, Ids, NoOne, Quiet, RowState, WellFormed, ReadToRestore
<1>2. RowsRead'
  BY DEF ConversationInv, Typed, RowsRead, EndTurn, NoOne, Quiet, ReadIn, RowState,
      ReadToRestore
<1>3. TurnOwns'
  <2>1. CASE turn'.at = "restoring"
    <3>1. owner' = owner /\ active' = active /\ turn.at = "streaming"
      BY <2>1 DEF ReadToRestore, EndTurn, Quiet
    <3> QED BY <2>1, <3>1 DEF ConversationInv, TurnOwns
  <2>2. CASE turn'.at = "none" BY <2>2 DEF TurnOwns
  <2> QED BY <2>1, <2>2 DEF ReadToRestore, EndTurn, Quiet
<1>4. Placeholder'
  BY DEF ConversationInv, Placeholder, EndTurn, Message, NoOne, Quiet, ReadToRestore
<1>5. PlaceholderAtTip'
  BY DEF ConversationInv, PlaceholderAtTip, EndTurn, NoOne, Quiet, ReadToRestore
<1>6. UndoneEarly' /\ SettingsKept' /\ Rooted' /\ UndoneTo'
  BY DEF ConversationInv, UndoneEarly, SettingsKept, Rooted, UndoneTo, Referenced, Chain,
      ReadToRestore
<1> QED BY <1>1, <1>2, <1>3, <1>4, <1>5, <1>6 DEF ConversationInv

LEMMA RestoreKeeps ==
    ASSUME ConversationInv, Parameters, Restore PROVE ConversationInv'
<1> USE DEF ConversationInv
<1>1. ReadIn(session, turn.seen) /\ session \in RowState /\ turn.at = "restoring"
  BY DEF Restore, RowsRead, Typed
<1>2. UNCHANGED <<records, owner, active, undo, setting, undos, created, saved, crossed>>
  BY DEF Restore
<1>3. CASE session' = session /\ turn' = [at |-> "streaming", id |-> turn.id, previous |-> turn.previous]
  <2>1. turn'.at = "streaming" /\ turn'.id = turn.id /\ turn'.previous = turn.previous
    BY <1>3
  <2> USE <1>1, <1>2, <1>3, <2>1
  <2>2. Typed' /\ RowsRead' /\ UndoneEarly' /\ SettingsKept'
    BY DEF Typed, RowsRead, UndoneEarly, SettingsKept
  <2>3. TurnOwns' /\ Placeholder' /\ PlaceholderAtTip'
    BY DEF TurnOwns, Placeholder, PlaceholderAtTip
  <2>4. Rooted' /\ UndoneTo' BY DEF Rooted, UndoneTo, Referenced, Chain
  <2> QED BY <2>2, <2>3, <2>4
<1>4. CASE ~ (/\ session' = session
              /\ turn' = [at |-> "streaming", id |-> turn.id, previous |-> turn.previous])
  <2>1. /\ SaveRow(turn.seen, turn.previous) /\ session.exists /\ session.tip = turn.id
        /\ turn.seen.revision = session.revision
        /\ turn' = [at |-> "cleaning", id |-> turn.id, previous |-> turn.previous]
    BY <1>4 DEF Restore, TipMatches, RevisionMatches
  <2>2. turn'.at = "cleaning" /\ turn'.id = turn.id /\ turn'.previous = turn.previous
    BY <2>1
  <2>3. /\ turn.seen \in RowState /\ turn.seen.dir = session.dir
        /\ turn.previous \in Nat /\ turn.previous < turn.id /\ session.tip # None
        /\ turn.previous <= created
    BY <1>1, <2>1 DEF ReadIn, Typed, Placeholder, None
  <2>4. /\ session' \in RowState /\ session'.exists = session.exists /\ session'.tip = turn.previous
        /\ session'.dir = session.dir /\ session'.revision = session.revision + 1
    BY <1>1, <2>1, <2>3, RowSaved
  <2> USE <1>2
  <2>5. Typed' BY <2>3, <2>4 DEF Typed
  <2>6. RowsRead' BY <1>1, <2>2, <2>4, ReadsOutdated DEF RowsRead
  <2>7. TurnOwns' /\ UndoneEarly' /\ Placeholder' /\ PlaceholderAtTip'
    BY <1>1, <2>2 DEF TurnOwns, UndoneEarly, Placeholder, PlaceholderAtTip
  <2>8. SettingsKept' BY <2>4 DEF SettingsKept
  <2>9. Rooted'
    <3>1. Closed(records, Referenced) /\ turn.id \in Referenced
      BY <2>1, <2>3, ReferencedClosed
    <3>2. records[turn.id].parent = turn.previous
      BY <1>1, <3>1 DEF Closed, Placeholder, Message
    <3> QED BY <2>4, <3>1, <3>2 DEF Rooted, Closed
  <2>10. UndoneTo' BY <2>4, UndosOutdated
  <2> QED BY <2>5, <2>6, <2>7, <2>8, <2>9, <2>10
<1> QED BY <1>3, <1>4

LEMMA CleanRestoredKeeps ==
    ASSUME ConversationInv, Parameters, CleanRestored PROVE ConversationInv'
<1>1. Typed'
  BY DEF ConversationInv, Typed, Chain, Cleaned, EndTurn, Ids, NoOne, Quiet, Referenced,
      RowState, WellFormed, CleanRestored
<1>2. RowsRead'
  BY DEF ConversationInv, RowsRead, Chain, Cleaned, EndTurn, NoOne, Quiet, ReadIn, Referenced,
      RowState, CleanRestored
<1>3. TurnOwns'
  BY DEF ConversationInv, TurnOwns, Chain, Cleaned, EndTurn, NoOne, Quiet, Referenced,
      CleanRestored
<1>4. Placeholder'
  BY DEF ConversationInv, Placeholder, Chain, Cleaned, EndTurn, Message, NoOne, Quiet,
      Referenced, CleanRestored
<1>5. PlaceholderAtTip'
  BY DEF ConversationInv, PlaceholderAtTip, Chain, Cleaned, EndTurn, NoOne, Quiet, Referenced,
      CleanRestored
<1>6. Rooted' /\ UndoneTo'
  <2>1. records' = Cleaned(turn.id) /\ session' = session /\ undo' = undo BY DEF CleanRestored
  <2> QED BY <2>1, CleanedKeeps, ReferencedThere, HistoryKept
<1>7. UndoneEarly' /\ SettingsKept'
  BY DEF ConversationInv, UndoneEarly, SettingsKept, CleanRestored
<1> QED BY <1>1, <1>2, <1>3, <1>4, <1>5, <1>6, <1>7 DEF ConversationInv

LEMMA UndoCheckKeeps ==
    ASSUME NEW p \in Procs, ConversationInv, Parameters, UndoCheck(p) PROVE ConversationInv'
<1>1. Typed'
  BY DEF ConversationInv, Typed, Ids, Quiet, RowState, UndoFree, WellFormed, UndoCheck
<1>2. RowsRead'
  BY DEF ConversationInv, RowsRead, Quiet, ReadIn, RowState, UndoFree, UndoCheck
<1>3. UndoneEarly'
  BY DEF ConversationInv, Typed, UndoneEarly, Quiet, UndoFree, UndoCheck
<1>4. UndoneTo'
  BY DEF ConversationInv, UndoneTo, Chain, None, Quiet, Referenced, UndoFree, UndoCheck
<1>5. TurnOwns' /\ Placeholder' /\ PlaceholderAtTip' /\ SettingsKept' /\ Rooted'
  BY DEF ConversationInv, TurnOwns, Placeholder, PlaceholderAtTip, SettingsKept, Rooted,
      UndoCheck
<1> QED BY <1>1, <1>2, <1>3, <1>4, <1>5 DEF ConversationInv

LEMMA UndoReadKeeps ==
    ASSUME NEW p \in Procs, ConversationInv, Parameters, UndoRead(p) PROVE ConversationInv'
<1>1. Typed'
  BY DEF ConversationInv, Typed, Ids, None, Quiet, RowState, WellFormed, UndoRead
<1>2. RowsRead'
  BY DEF ConversationInv, Typed, RowsRead, None, Quiet, ReadIn, RowState, UndoRead
<1>3. UndoneEarly'
  BY DEF ConversationInv, UndoneEarly, None, Quiet, UndoRead
<1>4. UndoneTo'
  BY DEF ConversationInv, UndoneTo, Chain, None, Quiet, Referenced, UndoRead
<1>5. TurnOwns' /\ Placeholder' /\ PlaceholderAtTip' /\ SettingsKept' /\ Rooted'
  BY DEF ConversationInv, TurnOwns, Placeholder, PlaceholderAtTip, SettingsKept, Rooted,
      UndoRead
<1> QED BY <1>1, <1>2, <1>3, <1>4, <1>5 DEF ConversationInv

LEMMA UndoHistoryKeeps ==
    ASSUME NEW p \in Procs, ConversationInv, Parameters, UndoHistory(p) PROVE ConversationInv'
<1>1. Typed'
  BY DEF ConversationInv, Typed, Chain, Ids, Quiet, Referenced, RowState, WellFormed,
      UndoHistory
<1>2. RowsRead'
  BY DEF ConversationInv, Typed, RowsRead, Chain, Quiet, ReadIn, Referenced, RowState,
      UndoHistory
<1>3. UndoneEarly'
  BY DEF ConversationInv, Typed, UndoneEarly, Chain, Quiet, Referenced, UndoHistory
<1>4. UndoneTo'
  <2> DEFINE from == undo[p].seen.tip
             chain == Chain(from)
             users == {i \in DOMAIN chain : records[chain[i]].role = "user"}
             last == CHOOSE i \in users : \A j \in users : i <= j
  <2> SUFFICES ASSUME NEW q \in Procs, undo'[q].at = "saving", session.exists,
                      undo'[q].seen.revision = session.revision
               PROVE  undo'[q].to = None \/ undo'[q].to \in Referenced
    BY DEF UndoHistory, UndoneTo, Referenced, Chain
  <2>1. CASE q # p
    <3>1. undo'[q] = undo[q] BY <2>1 DEF UndoHistory, ConversationInv, Typed
    <3> QED BY <3>1 DEF ConversationInv, UndoneTo
  <2>2. CASE q = p
    <3>1. /\ from \in Referenced /\ users # {} /\ undo'[p].seen = undo[p].seen
          /\ undo'[p].to = records[chain[last]].parent
      <4>1. CASE from \in Referenced /\ users # {}
        BY <2>2, <4>1 DEF UndoHistory, ConversationInv, Typed
      <4>2. CASE ~ (from \in Referenced /\ users # {})
        <5>1. undo'[p] = Quiet
          BY <4>2 DEF UndoHistory, ConversationInv, Typed
        <5>2. undo'[p].at = "none"
          BY <5>1 DEF Quiet
        <5> QED BY <2>2, <5>2
      <4> QED BY <4>1, <4>2
    <3>2. Members(chain) \subseteq Referenced /\ Closed(records, Referenced)
      BY <3>1, ReferencedClosed
    <3>3. last \in users
      <4>1. DOMAIN chain \subseteq Nat
        <5>1. WellFormed(records) /\ MaxMsgs \in Nat BY DEF ConversationInv, Typed, Parameters
        <5>2. Chains(records)[from] \in Seq(Referenced)
          BY <3>1, <3>2, <5>1, ChainWhole DEF Whole
        <5> QED BY <5>2 DEF Chain
      <4> HIDE DEF chain
      <4>2. \E i \in users : \A j \in users : i <= j
        BY <3>1, <4>1, LeastOne
      <4> QED BY <4>2
    <3>4. chain[last] \in Referenced
      BY <3>2, <3>3 DEF Members
    <3> QED BY <2>2, <3>1, <3>2, <3>4 DEF Closed
  <2> QED BY <2>1, <2>2
<1>5. TurnOwns' /\ Placeholder' /\ PlaceholderAtTip' /\ SettingsKept' /\ Rooted'
  BY DEF ConversationInv, TurnOwns, Placeholder, PlaceholderAtTip, SettingsKept, Rooted,
      UndoHistory
<1> QED BY <1>1, <1>2, <1>3, <1>4, <1>5 DEF ConversationInv

LEMMA UndoSaveKeeps ==
    ASSUME NEW p \in Procs, ConversationInv, Parameters, UndoSave(p) PROVE ConversationInv'
<1> USE DEF ConversationInv
<1>1. /\ ReadIn(session, undo[p].seen) /\ session \in RowState /\ undo[p].at = "saving"
      /\ undo[p].early \in BOOLEAN /\ active \in BOOLEAN /\ crossed \in BOOLEAN
  BY DEF UndoSave, RowsRead, Typed
<1>2. UNCHANGED <<records, owner, turn, active, setting, undos, created, saved>>
  BY DEF UndoSave
<1>3. \A q \in Procs : undo'[q].at \in {"checked", "reading", "saving"} => undo'[q] = undo[q]
  BY DEF UndoSave, Typed, Quiet
<1>4. DOMAIN undo' = Procs
  BY DEF UndoSave, Typed
<1>5. UndoneEarly'
  BY <1>2, <1>3 DEF UndoneEarly
<1>6. CASE session' = session /\ crossed' = crossed
  <2> USE <1>2, <1>3, <1>4, <1>6
  <2>1. Typed' BY DEF Typed
  <2>2. RowsRead' BY DEF RowsRead
  <2>3. TurnOwns' /\ Placeholder' /\ PlaceholderAtTip' /\ SettingsKept'
    BY DEF TurnOwns, Placeholder, PlaceholderAtTip, SettingsKept
  <2>4. Rooted' /\ UndoneTo' BY DEF Rooted, UndoneTo, Referenced, Chain
  <2> QED BY <1>5, <2>1, <2>2, <2>3, <2>4
<1>7. CASE ~ (session' = session /\ crossed' = crossed)
  <2>1. /\ SaveRow(undo[p].seen, undo[p].to) /\ session.exists /\ MayWrite(p)
        /\ undo[p].seen.revision = session.revision
        /\ crossed' = (crossed \/ (undo[p].early /\ active))
    BY <1>7 DEF UndoSave, TipMatches, RevisionMatches
  <2>2. undo[p].to = None \/ undo[p].to \in Referenced
    BY <1>1, <2>1 DEF UndoneTo
  <2>3. Closed(records, Referenced)
    BY <2>1, ReferencedClosed
  <2>4. undo[p].to \in Nat /\ undo[p].to <= created
    BY <2>2, <2>3 DEF Closed, Typed, None
  <2>5. undo[p].seen \in RowState /\ undo[p].seen.dir = session.dir
    BY <1>1, <2>1 DEF ReadIn
  <2>6. /\ session' \in RowState /\ session'.exists = session.exists /\ session'.tip = undo[p].to
        /\ session'.dir = session.dir /\ session'.revision = session.revision + 1
    BY <1>1, <2>1, <2>4, <2>5, RowSaved
  <2>7. crossed' \in BOOLEAN
    BY <1>1, <2>1
  <2> USE <1>2
  <2>8. Typed' BY <1>3, <1>4, <2>4, <2>6, <2>7 DEF Typed
  <2>9. RowsRead' BY <1>1, <1>3, <2>6, ReadsOutdated DEF RowsRead
  <2>10. TurnOwns' /\ Placeholder' BY DEF TurnOwns, Placeholder
  <2>11. PlaceholderAtTip'
    <3> SUFFICES ASSUME turn.at \in {"streaming", "restoring"} PROVE crossed'
      BY DEF PlaceholderAtTip
    <3>1. owner = Here /\ active
      BY DEF TurnOwns
    <3>2. p = Here
      BY <2>1, <3>1 DEF MayWrite, Parameters
    <3>3. undo[p].early
      BY <1>1, <3>2 DEF UndoneEarly
    <3> QED BY <2>1, <3>1, <3>3
  <2>12. SettingsKept' BY <2>6 DEF SettingsKept
  <2>13. Rooted' BY <2>2, <2>3, <2>6 DEF Rooted, Closed
  <2>14. UndoneTo' BY <1>3, <2>6, UndosOutdated
  <2> QED BY <1>5, <2>8, <2>9, <2>10, <2>11, <2>12, <2>13, <2>14
<1> QED BY <1>6, <1>7

LEMMA UndoCleanKeeps ==
    ASSUME NEW p \in Procs, ConversationInv, Parameters, UndoClean(p) PROVE ConversationInv'
<1>1. Typed'
  BY DEF ConversationInv, Typed, Chain, Cleaned, Ids, MayWrite, NoOne, Quiet, Referenced,
      RowState, WellFormed, UndoClean
<1>2. RowsRead'
  BY DEF ConversationInv, RowsRead, Chain, Cleaned, MayWrite, NoOne, Quiet, ReadIn, Referenced,
      RowState, UndoClean
<1>3. UndoneEarly'
  BY DEF ConversationInv, UndoneEarly, Chain, Cleaned, MayWrite, NoOne, Quiet, Referenced,
      UndoClean
<1>4. Placeholder'
  BY DEF ConversationInv, Placeholder, Chain, Cleaned, MayWrite, Message, NoOne, Quiet,
      Referenced, UndoClean
<1>5. Rooted' /\ UndoneTo'
  <2>1. /\ WellFormed(records')
        /\ \A i \in Referenced : i \in DOMAIN records' /\ records'[i] = records[i]
    BY CleanedKeeps, ReferencedThere DEF UndoClean, ConversationInv, Typed
  <2>2. Rooted' /\ (session.exists => Referenced' = Referenced)
    BY <2>1, RecordsKept DEF UndoClean
  <2>3. \A q \in Procs : undo'[q].at = "saving" => undo'[q] = undo[q]
    BY DEF UndoClean, ConversationInv, Typed, Quiet
  <2> QED BY <2>2, <2>3 DEF UndoClean, ConversationInv, UndoneTo
<1>6. TurnOwns' /\ PlaceholderAtTip' /\ SettingsKept'
  BY DEF ConversationInv, TurnOwns, PlaceholderAtTip, SettingsKept, UndoClean
<1> QED BY <1>1, <1>2, <1>3, <1>4, <1>5, <1>6 DEF ConversationInv

LEMMA ReadSettingsKeeps ==
    ASSUME NEW p \in Procs, ConversationInv, Parameters, ReadSettings(p) PROVE ConversationInv'
<1>1. Typed'
  BY DEF ConversationInv, Typed, Ids, Quiet, RowState, WellFormed, ReadSettings
<1>2. RowsRead'
  BY DEF ConversationInv, Typed, RowsRead, Quiet, ReadIn, RowState, ReadSettings
<1>3. /\ TurnOwns' /\ UndoneEarly' /\ Placeholder' /\ PlaceholderAtTip'
      /\ SettingsKept' /\ Rooted' /\ UndoneTo'
  BY DEF ConversationInv, TurnOwns, UndoneEarly, Placeholder, PlaceholderAtTip, SettingsKept,
      Rooted, UndoneTo, Referenced, Chain, ReadSettings
<1> QED BY <1>1, <1>2, <1>3 DEF ConversationInv

LEMMA SaveSettingsKeeps ==
    ASSUME NEW p \in Procs, ConversationInv, Parameters, SaveSettings(p) PROVE ConversationInv'
<1> USE DEF ConversationInv
<1>1. ReadIn(session, setting[p].seen) /\ session \in RowState
  BY DEF SaveSettings, RowsRead, Typed
<1>2. /\ setting' = [setting EXCEPT ![p] = Quiet]
      /\ UNCHANGED <<records, owner, turn, active, undo, created, undos, crossed>>
  BY DEF SaveSettings
<1>3. \A q \in Procs : setting'[q].at = "saving" => setting'[q] = setting[q]
  BY <1>2 DEF Typed, Quiet
<1>4. CASE session' = session /\ saved' = saved
  <2> USE <1>2, <1>4
  <2>1. Typed' BY DEF Typed
  <2>2. RowsRead' BY <1>3 DEF RowsRead
  <2>3. TurnOwns' /\ UndoneEarly' /\ Placeholder' /\ PlaceholderAtTip' /\ SettingsKept'
    BY DEF TurnOwns, UndoneEarly, Placeholder, PlaceholderAtTip, SettingsKept
  <2>4. Rooted' /\ UndoneTo' BY DEF Rooted, UndoneTo, Referenced, Chain
  <2> QED BY <2>1, <2>2, <2>3, <2>4
<1>5. CASE ~ (session' = session /\ saved' = saved)
  <2> DEFINE seen == [setting[p].seen EXCEPT !.dir = saved + 1]
  <2>1. /\ SaveRow(seen, setting[p].seen.tip) /\ session.exists /\ saved' = saved + 1
        /\ setting[p].seen.revision = session.revision
    BY <1>5 DEF SaveSettings, RevisionMatches
  <2>2. /\ seen \in RowState /\ seen.dir = saved + 1
        /\ setting[p].seen.tip = session.tip /\ session.tip \in Nat
    BY <1>1, <2>1 DEF ReadIn, RowState, Typed
  <2> HIDE DEF seen
  <2>3. /\ session' \in RowState /\ session'.exists = session.exists /\ session'.tip = session.tip
        /\ session'.dir = saved + 1 /\ session'.revision = session.revision + 1
    BY <1>1, <2>1, <2>2, RowSaved
  <2> USE <1>2
  <2>4. Typed' BY <2>1, <2>3 DEF Typed
  <2>5. RowsRead' BY <1>1, <1>3, <2>3, ReadsOutdated DEF RowsRead
  <2>6. TurnOwns' /\ UndoneEarly' /\ Placeholder' /\ PlaceholderAtTip'
    BY <2>3 DEF TurnOwns, UndoneEarly, Placeholder, PlaceholderAtTip
  <2>7. SettingsKept' BY <2>1, <2>3 DEF SettingsKept
  <2>8. Rooted' BY <2>3 DEF Rooted
  <2>9. UndoneTo' BY <2>3, UndosOutdated
  <2> QED BY <2>4, <2>5, <2>6, <2>7, <2>8, <2>9
<1> QED BY <1>4, <1>5

LEMMA DeleteSessionKeeps ==
    ASSUME NEW p \in Procs, ConversationInv, Parameters, DeleteSession(p) PROVE ConversationInv'
<1>1. Typed'
  <2>1. session' \in RowState /\ session'.tip = session.tip
    BY DEF DeleteSession, ConversationInv, Typed, RowState
  <2>2. WellFormed(records') /\ DOMAIN records' \subseteq 1..created
    BY DEF DeleteSession, WellFormed
  <2> QED BY <2>1, <2>2 DEF DeleteSession, ConversationInv, Typed
<1>2. RowsRead'
  BY DEF ConversationInv, RowsRead, MayWrite, NoOne, Quiet, ReadIn, RowState, DeleteSession
<1>3. Placeholder'
  BY DEF ConversationInv, Placeholder, MayWrite, Message, NoOne, Quiet, DeleteSession
<1>4. PlaceholderAtTip'
  BY DEF ConversationInv, PlaceholderAtTip, MayWrite, NoOne, Quiet, DeleteSession
<1>5. SettingsKept'
  BY DEF ConversationInv, SettingsKept, MayWrite, NoOne, Quiet, DeleteSession
<1>6. Rooted'
  BY DEF ConversationInv, Rooted, MayWrite, NoOne, None, Quiet, DeleteSession
<1>7. UndoneTo'
  BY DEF ConversationInv, UndoneTo, Chain, MayWrite, NoOne, None, Quiet, Referenced,
      DeleteSession
<1>8. TurnOwns' /\ UndoneEarly'
  BY DEF ConversationInv, TurnOwns, UndoneEarly, DeleteSession
<1> QED BY <1>1, <1>2, <1>3, <1>4, <1>5, <1>6, <1>7, <1>8 DEF ConversationInv

LEMMA ConversationInvInit == ASSUME TalkInit, Parameters PROVE ConversationInv
<1>1. /\ session = [exists |-> TRUE, tip |-> 2, revision |-> 1, dir |-> 0]
      /\ turn.at = "none" /\ \A p \in Procs : undo[p].at = "none" /\ setting[p].at = "none"
      /\ created = 2 /\ saved = 0 /\ DOMAIN records = 1..2
      /\ records[1].parent = 0 /\ records[2].parent = 1
  BY DEF TalkInit, Quiet, Message, None
<1>2. WellFormed(records)
  BY <1>1 DEF WellFormed, Ids, Parameters
<1>3. Typed
  <2>1. session \in RowState BY <1>1 DEF RowState
  <2>2. DOMAIN undo = Procs /\ DOMAIN setting = Procs /\ active \in BOOLEAN /\ crossed \in BOOLEAN
    BY DEF TalkInit
  <2>3. session.tip <= created BY <1>1
  <2> QED BY <1>1, <1>2, <2>1, <2>2, <2>3 DEF Typed, Parameters
<1>4. RowsRead /\ TurnOwns /\ UndoneEarly /\ Placeholder /\ PlaceholderAtTip
  BY <1>1 DEF RowsRead, TurnOwns, UndoneEarly, Placeholder, PlaceholderAtTip
<1>5. SettingsKept /\ UndoneTo
  BY <1>1 DEF SettingsKept, UndoneTo
<1>6. Rooted
  <2>1. Closed(records, 1..2) BY <1>1 DEF Closed, None
  <2> QED BY <1>1, <2>1 DEF Rooted, Closed
<1> QED BY <1>3, <1>4, <1>5, <1>6 DEF ConversationInv

LEMMA ConversationInvNext ==
    ASSUME ConversationInv, [TalkNext]_conversationVars, Parameters
    PROVE  ConversationInv'
<1>1. CASE UNCHANGED conversationVars
  BY <1>1 DEF conversationVars, ConversationInv, Typed, RowsRead, TurnOwns, UndoneEarly,
     Placeholder, PlaceholderAtTip, SettingsKept, Rooted, UndoneTo, Referenced, Chain
<1>2. CASE \/ BeginTurn \/ Activate \/ ReadTip \/ ReadToLink \/ Link \/ Complete
           \/ ReadToRestore \/ Restore \/ CleanRestored
  BY <1>2, BeginTurnKeeps, ActivateKeeps, ReadTipKeeps, ReadToLinkKeeps, LinkKeeps,
     CompleteKeeps, ReadToRestoreKeeps, RestoreKeeps, CleanRestoredKeeps
<1>3. ASSUME NEW p \in Procs,
             \/ UndoCheck(p) \/ UndoRead(p) \/ UndoHistory(p) \/ UndoSave(p)
             \/ UndoClean(p) \/ ReadSettings(p) \/ SaveSettings(p) \/ DeleteSession(p)
      PROVE  ConversationInv'
  BY <1>3, UndoCheckKeeps, UndoReadKeeps, UndoHistoryKeeps, UndoSaveKeeps, UndoCleanKeeps,
     ReadSettingsKeeps, SaveSettingsKeeps, DeleteSessionKeeps
<1> QED BY <1>1, <1>2, <1>3 DEF TalkNext

(* For any number of runtimes, messages, undos and changes of the settings, and whatever order  *)
(* their reads and transactions come in: the history of a session can be read to its root       *)
(* (read_history_chain finds every parent, although delete_unreferenced runs message by message *)
(* after an undo), a response being streamed is the tip but for the undo named at StreamAtTip,  *)
(* and acknowledged settings are never written back to older ones (assert_session_revision).    *)
THEOREM ConversationCorrect ==
    ASSUME MaxMsgs \in Nat, MaxMsgs >= 2, Here # NoOne
    PROVE  TalkSpec => []ConversationIntact
<1>1. Parameters
  BY DEF Parameters
<1>2. TalkInit => ConversationInv
  BY <1>1, ConversationInvInit
<1>3. ConversationInv /\ [TalkNext]_conversationVars => ConversationInv'
  BY <1>1, ConversationInvNext
<1>4. ConversationInv => HistoryReadable /\ StreamAtTip /\ SettingsKept
  <2> SUFFICES ASSUME ConversationInv PROVE HistoryReadable /\ StreamAtTip /\ SettingsKept
    OBVIOUS
  <2>1. StreamAtTip /\ SettingsKept
    BY DEF ConversationInv, PlaceholderAtTip, StreamAtTip
  <2>2. ASSUME session.exists, session.tip # None
        PROVE  Chain(session.tip) # << >> /\ records[Chain(session.tip)[Len(Chain(session.tip))]].parent = None
    <3>1. PICK H \in SUBSET DOMAIN records : Closed(records, H) /\ session.tip \in H
      BY <2>2 DEF ConversationInv, Rooted
    <3>2. WellFormed(records)
      BY DEF ConversationInv, Typed
    <3> QED BY <3>1, <3>2, ChainWhole DEF Whole, Chain
  <2> QED BY <2>1, <2>2 DEF HistoryReadable
<1>5. ConversationInv => ConversationIntact
  BY <1>4 DEF ConversationIntact
<1> QED BY <1>2, <1>3, <1>5, PTL DEF TalkSpec
=============================================================================
