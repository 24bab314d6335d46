------------------------------- MODULE ChatView -------------------------------
(***************************************************************************)
(* The terminal's transcript of the open session: the messages it has      *)
(* loaded, page by page, the echoes of messages sent and not yet stored,   *)
(* the list of script executions, and the lines rendered from them.        *)
(* Rendering is cached twice: all sections for one epoch and width, and    *)
(* the lines of each message for one fingerprint.  The order of events     *)
(* and snapshots is the subject of ClientView; here an event is received   *)
(* in order or lost, and a lost one is followed by a snapshot.             *)
(***************************************************************************)
EXTENDS Naturals, Sequences, FiniteSets, SequencesExt

CONSTANTS
    Page,          \* messages of one snapshot or history page (SNAPSHOT_HISTORY_LIMIT)
    Widths,        \* columns the terminal may have for prose
    Height,        \* lines of the viewport
    MaxSize,       \* columns of prose in an answer
    MaxIds,        \* messages created
    MaxSends,      \* messages the user sends
    MaxKeys,       \* keys, resizes and screens the user opens
    MaxFaults      \* events lost, requests that fail

VARIABLES
    talk,      \* the stored conversation, oldest message first
    nextId,    \* the next message id
    client,    \* loaded messages, tip, echoes, requests under way
    ui,        \* mode, selection, expanded executions, scrolling, width, whether the epoch moved
    cache,     \* the render cache
    done,      \* sends, keys and faults so far
    ghost      \* messages still to be stored; whether the transcript has a gap that nothing asks
               \* for, or messages of a page older than an undo; and whether an echo may be
               \* counted too low or too high

Ids == 1..MaxIds
None == 0

-----------------------------------------------------------------------------
(* Messages.  Every user message carries the same text; an answer carries prose of some    *)
(* size and perhaps a script call; a result answers the call of its parent.                *)

Message(id, parent, kind, size, call) ==
    [id |-> id, parent |-> parent, kind |-> kind, size |-> size, call |-> call]
IsResult(m) == m.kind = "result"

HasId(ms, id) == \E m \in ms : m.id = id
WithId(ms, id) == CHOOSE m \in ms : m.id = id
Tip(s) == IF s = << >> THEN None ELSE Last(s).id
LastN(s, n) == SubSeq(s, IF Len(s) > n THEN Len(s) - n + 1 ELSE 1, Len(s))

\* The newest page, the page that ends at a message, and the message before a page.
LatestPage == LastN(talk, Page)
PageTo(id) == LastN(SelectSeq(talk, LAMBDA m : m.id <= id), Page)
OlderThan(page) == IF page = << >> THEN None ELSE Head(page).parent

\* The turn is over: nothing is queued behind it in the process.
Quiet == talk # << >> => Last(talk).kind = "answer" /\ ~ Last(talk).call

-----------------------------------------------------------------------------
(* What is shown. *)

Leaves(ms) == {m.id : m \in ms} \ {m.parent : m \in ms}

\* The named tip when it is a leaf, else the oldest leaf.
TipOf(ms, tip) ==
    IF tip \in Leaves(ms) THEN tip
    ELSE CHOOSE id \in Leaves(ms) : \A other \in Leaves(ms) : id <= other

\* From the tip upwards, as far as the parents are loaded.
build_tip_chain(c) ==
    LET up[id \in Ids] ==
            IF ~ HasId(c.loaded, id) THEN << >>
            ELSE LET m == WithId(c.loaded, id)
                 IN IF m.parent = None THEN <<m>> ELSE Append(up[m.parent], m)
    IN IF c.loaded = {} THEN << >> ELSE up[TipOf(c.loaded, c.tip)]

Echo(local) == Message(MaxIds + local, None, "user", 1, FALSE)
rendered_messages(c) == build_tip_chain(c) \o [i \in DOMAIN c.echoes |-> Echo(c.echoes[i].local)]

Results(c) == SelectSeq(rendered_messages(c), IsResult)
Completed(c) == {m.parent : m \in ToSet(Results(c))}

without_completed_calls(m, completed) ==
    IF m.kind = "answer" /\ m.id \in completed THEN [m EXCEPT !.call = FALSE] ELSE m

IsBlank(m) == m.kind = "answer" /\ m.size = 0 /\ ~ m.call

\* The list shows results only; an answer with nothing left to show has no section.
Projected(c, mode) ==
    LET kept == SelectSeq(rendered_messages(c), LAMBDA m : mode # "Executions" \/ IsResult(m))
        completed == Completed(c)
    IN SelectSeq([i \in DOMAIN kept |-> without_completed_calls(kept[i], completed)],
                 LAMBDA m : ~ IsBlank(m))

\* Neighbouring results share a section of the chat and have one each in the list.
Groups(ms, mode) ==
    LET starts == {i \in DOMAIN ms : \/ i = 1 \/ mode = "Executions"
                                     \/ ~ (IsResult(ms[i - 1]) /\ IsResult(ms[i]))}
        firsts == SetToSortSeq(starts, <)
        end(k) == IF k = Len(firsts) THEN Len(ms) ELSE firsts[k + 1] - 1
    IN [k \in DOMAIN firsts |-> SubSeq(ms, firsts[k], end(k))]

-----------------------------------------------------------------------------
(* Lines. *)

wrap(size, width) == (size + width - 1) \div width

\* What is drawn for a section; a card shows its source when the call is loaded.
Drawn(group, c, u, width) ==
    LET m == Head(group)
        what == IF ~ IsResult(m) THEN "message" ELSE IF u.mode = "Executions" THEN "card" ELSE "group"
    IN [what |-> what, of |-> group, width |-> width,
        source |-> what = "card" /\ HasId(ToSet(build_tip_chain(c)), m.parent),
        open |-> what = "card" /\ m.id \in u.expanded,
        selected |-> what = "card" /\ m.id = u.selected]

build_message_lines(m, width) ==
    CASE m.kind = "user" -> 2 + wrap(m.size, width)
      [] m.kind = "answer" -> wrap(m.size, width) + (IF m.call THEN 2 ELSE 0)
                              + (IF m.call /\ m.size > 0 THEN 1 ELSE 0)

build_execution_lines(d) == IF d.open THEN 4 + wrap(1, d.width) ELSE 1

Lines(d) == IF d.what = "message" THEN build_message_lines(Head(d.of), d.width)
            ELSE build_execution_lines(d)

\* What the cached lines of a section are compared by; the width is compared for all of them.
FingerprintUnselected(group, c, u) == [Drawn(group, c, u, 0) EXCEPT !.selected = FALSE]
Fingerprint(group, c, u) == Drawn(group, c, u, 0)

\* The cached lines of a section when its fingerprint is the same, else new ones.
Entry(group, old, c, u, width) ==
    LET print == Fingerprint(group, c, u)
        hit == {e \in old : e.key = Head(group).id /\ e.print = print}
    IN [key |-> Head(group).id, print |-> print,
        lines |-> IF hit # {} THEN (CHOOSE e \in hit : TRUE).lines ELSE Drawn(group, c, u, width)]

PriorEntriesAny(k, width) == k.entries
PriorEntries(k, width) == IF k.width = width THEN k.entries ELSE {}

Total(sections) ==
    FoldLeft(LAMBDA n, d : n + (IF n = 0 THEN 0 ELSE 1) + Lines(d), 0, sections)

\* Where the card of each execution starts.
Offsets(sections) ==
    {[id |-> Head(sections[i].of).id,
      at |-> Total(SubSeq(sections, 1, i - 1)) + (IF i = 1 THEN 0 ELSE 1)] :
        i \in {j \in DOMAIN sections : sections[j].what = "card"}}

\* The cache after a refresh.
refresh_chat_render_cache(c, u, k, width) ==
    IF ~ u.dirty /\ k.width = width THEN k
    ELSE LET groups == Groups(Projected(c, u.mode), u.mode)
             entries == [i \in DOMAIN groups |->
                           Entry(groups[i], PriorEntries(k, width), c, u, width)]
         IN [sections |-> [i \in DOMAIN entries |-> entries[i].lines],
             entries |-> ToSet(entries), width |-> width]

-----------------------------------------------------------------------------
(* Scrolling. *)

Least(a, b) == IF a < b THEN a ELSE b
Minus(a, b) == IF a > b THEN a - b ELSE 0

chat_max_scroll(k) == Minus(Total(k.sections), Height)
effective_chat_scroll(u, k) ==
    IF u.auto THEN chat_max_scroll(k) ELSE Least(u.scroll, chat_max_scroll(k))
clamp_chat_scroll(u, k) == [u EXCEPT !.scroll = effective_chat_scroll(u, k)]
invalidate_chat_cache(u) == [u EXCEPT !.dirty = TRUE]
Changed(u, k) == clamp_chat_scroll(invalidate_chat_cache(u), k)

-----------------------------------------------------------------------------
(* Echoes. *)

visible_user_message_count(c) ==
    Len(SelectSeq(build_tip_chain(c), LAMBDA m : m.kind = "user"))

reconcile_optimistic_messages(c) ==
    [c EXCEPT !.echoes = SelectSeq(@, LAMBDA e : visible_user_message_count(c) < e.occurrence)]

OccurrenceVisible(c) == visible_user_message_count(c) + 1
Occurrence(c) == visible_user_message_count(c) + Len(c.echoes) + 1

-----------------------------------------------------------------------------
Nothing == [loaded |-> {}, tip |-> None, echoes |-> << >>, asks |-> FALSE, pages |-> {}]
NoGhost == [waiting |-> << >>, gap |-> FALSE, stale |-> FALSE, low |-> FALSE, high |-> FALSE]
FirstUi(w) == [mode |-> "Chat", selected |-> None, expanded |-> {}, scroll |-> 0, auto |-> TRUE,
               width |-> w, dirty |-> FALSE, settings |-> FALSE]

Init ==
    /\ talk = << >> /\ nextId = 1
    /\ client = Nothing
    /\ LET w == CHOOSE v \in Widths : TRUE
       IN ui = FirstUi(w) /\ cache = [sections |-> << >>, entries |-> {}, width |-> w]
    /\ done = [sends |-> 0, keys |-> 0, faults |-> 0]
    /\ ghost = NoGhost

-----------------------------------------------------------------------------
(* Events. *)

\* The messages of ms are new in the conversation or replace what was stored.
upsert_message(m) ==
    LET kept == {n \in client.loaded : n.id # m.id}
    IN /\ client' = reconcile_optimistic_messages([client EXCEPT !.loaded = kept \union {m}])
       /\ ui' = Changed(ui, cache)
       /\ UNCHANGED done

\* A lost event is reported to the terminal, which asks for a snapshot.
Missed ==
    /\ done.faults < MaxFaults
    /\ done' = [done EXCEPT !.faults = @ + 1]
    /\ client' = [client EXCEPT !.asks = TRUE]
    /\ UNCHANGED ui

Stored(m) == /\ nextId <= MaxIds
             /\ nextId' = nextId + 1
             /\ talk' = Append(talk, m)
             /\ upsert_message(m) \/ Missed

\* The oldest message sent is stored once the turn is over.
Accept ==
    /\ ghost.waiting # << >> /\ Quiet
    /\ Stored(Message(nextId, Tip(talk), "user", 1, FALSE))
    /\ ghost' = [ghost EXCEPT !.waiting = Tail(@)]
    /\ UNCHANGED cache

Answer ==
    /\ talk # << >> /\ Last(talk).kind # "answer"
    /\ Stored(Message(nextId, Tip(talk), "answer", 0, FALSE))
    /\ UNCHANGED <<cache, ghost>>

\* A stream item or a piece of its text: a message the terminal has not loaded needs a snapshot.
apply_item(m) ==
    IF HasId(client.loaded, m.id)
    THEN /\ client' = [client EXCEPT !.loaded = {n \in @ : n.id # m.id} \union {m}]
         /\ ui' = Changed(ui, cache)
         /\ UNCHANGED done
    ELSE /\ client' = [client EXCEPT !.asks = TRUE]
         /\ UNCHANGED <<ui, done>>

Stream ==
    /\ talk # << >> /\ Last(talk).kind = "answer" /\ ~ Last(talk).call
    /\ \E call \in BOOLEAN :
         LET m == [Last(talk) EXCEPT !.size = IF call THEN @ ELSE @ + 1, !.call = call]
         IN /\ m.size <= MaxSize
            /\ talk' = Append(Front(talk), m)
            /\ apply_item(m) \/ Missed
    /\ UNCHANGED <<nextId, cache, ghost>>

ScriptResult ==
    /\ talk # << >> /\ Last(talk).kind = "answer" /\ Last(talk).call
    /\ Stored(Message(nextId, Tip(talk), "result", 1, FALSE))
    /\ UNCHANGED <<cache, ghost>>

\* The last user message and what follows it are removed; the terminal then synchronizes.
Undo ==
    /\ Quiet /\ talk # << >> /\ ghost.waiting = << >> /\ done.keys < MaxKeys
    /\ LET last == CHOOSE i \in DOMAIN talk :
                     /\ talk[i].kind = "user"
                     /\ \A j \in (i + 1)..Len(talk) : talk[j].kind # "user"
           gone == {talk[i].id : i \in last..Len(talk)}
       IN /\ talk' = SubSeq(talk, 1, last - 1)
          /\ client' = [client EXCEPT !.loaded = {m \in @ : m.id \notin gone}, !.asks = TRUE]
    /\ ghost' = [ghost EXCEPT !.high = @ \/ client.echoes # << >>]
    /\ ui' = Changed(ui, cache)
    /\ done' = [done EXCEPT !.keys = @ + 1]
    /\ UNCHANGED <<nextId, cache>>

-----------------------------------------------------------------------------
(* Answers of the runtime. *)

\* Messages before the page that is older than the snapshot's are kept.
KeptBelowAny(c, page) == IF OlderThan(page) = None THEN {} ELSE c.loaded
KeptBelow(c, page) ==
    IF OlderThan(page) = None THEN {} ELSE {m \in c.loaded : m.id < Head(page).id}

Asked(c, older) ==
    IF older = None \/ HasId(c.loaded, older) THEN c
    ELSE [c EXCEPT !.pages = @ \union {[from |-> older, read |-> FALSE, got |-> << >>]}]

install_latest_history ==
    LET page == LatestPage
        next == [client EXCEPT !.loaded = KeptBelow(client, page) \union ToSet(page),
                               !.tip = Tip(talk), !.asks = FALSE]
    IN reconcile_optimistic_messages(Asked(next, OlderThan(page)))

\* A page of messages came between what is loaded and the snapshot: the page before the
\* snapshot is not asked for when its last message is loaded, whether what precedes it is or not.
Beyond(older) ==
    /\ HasId(client.loaded, older)
    /\ \E m \in ToSet(talk) : /\ m.id <= older /\ m \notin client.loaded
                             /\ \A p \in client.pages : p.from < m.id

Snapshot ==
    /\ client.asks
    /\ client' = install_latest_history
    /\ ghost' = [ghost EXCEPT !.gap = @ \/ Beyond(OlderThan(LatestPage))]
    /\ ui' = Changed(ui, cache)
    /\ UNCHANGED <<talk, nextId, cache, done>>

\* A page is read in the process; its answer is applied later.
ReadPage ==
    /\ \E p \in client.pages :
         /\ ~ p.read /\ HasId(ToSet(talk), p.from)
         /\ client' = [client EXCEPT !.pages = (@ \ {p})
                         \union {[p EXCEPT !.read = TRUE, !.got = PageTo(p.from)]}]
    /\ UNCHANGED <<talk, nextId, ui, cache, done, ghost>>

\* A page that ends at a message that is gone, or that cannot be read, is reported only.
PageFails ==
    /\ \E p \in client.pages :
         /\ ~ p.read
         /\ HasId(ToSet(talk), p.from) => done.faults < MaxFaults
         /\ client' = [client EXCEPT !.pages = @ \ {p}]
         /\ done' = [done EXCEPT !.faults = IF HasId(ToSet(talk), p.from) THEN @ + 1 ELSE @]
         /\ ghost' = [ghost EXCEPT !.gap = @ \/ HasId(ToSet(talk), p.from)]
    /\ UNCHANGED <<talk, nextId, ui, cache>>

install_older_history ==
    /\ \E p \in client.pages :
         LET new == {m \in ToSet(p.got) : ~ HasId(client.loaded, m.id)}
             next == [client EXCEPT !.loaded = @ \union new, !.pages = @ \ {p}]
         IN /\ p.read
            /\ client' = reconcile_optimistic_messages(Asked(next, OlderThan(p.got)))
            /\ ghost' = [ghost EXCEPT
                  !.stale = @ \/ ~ (new \subseteq ToSet(talk)),
                  !.low = @ \/ (client.echoes # << >> /\ \E m \in new : m.kind = "user")]
    /\ ui' = Changed(ui, cache)
    /\ UNCHANGED <<talk, nextId, cache, done>>

\* The session is opened again, from the list of sessions.
LoadSession ==
    /\ done.keys < MaxKeys /\ ui.mode = "Menu"
    /\ done' = [done EXCEPT !.keys = @ + 1]
    /\ client' = [Nothing EXCEPT !.asks = TRUE, !.pages = client.pages]
    /\ ui' = Changed([ui EXCEPT !.mode = "Chat", !.selected = None, !.expanded = {},
                                !.auto = TRUE, !.scroll = 0], cache)
    /\ ghost' = [NoGhost EXCEPT !.waiting = ghost.waiting, !.low = ghost.waiting # << >>]
    /\ UNCHANGED <<talk, nextId, cache>>

-----------------------------------------------------------------------------
(* Sending. *)

\* The number the next message of the same text has in the conversation.
TrueOccurrence ==
    Len(SelectSeq(talk, LAMBDA m : m.kind = "user")) + Len(ghost.waiting) + 1

dispatch_send_message ==
    /\ ui.mode = "Chat" /\ done.sends < MaxSends
    /\ done' = [done EXCEPT !.sends = @ + 1]
    /\ LET local == done.sends + 1 IN
       /\ client' = [client EXCEPT !.tip = None,
                       !.echoes = Append(@, [local |-> local, occurrence |-> Occurrence(client)])]
       /\ ghost' = [ghost EXCEPT !.waiting = Append(@, local),
                                 !.low = @ \/ Occurrence(client) < TrueOccurrence]
    /\ ui' = invalidate_chat_cache([ui EXCEPT !.auto = TRUE])
    /\ UNCHANGED <<talk, nextId, cache>>

\* The request fails: its echo goes, and the terminal synchronizes.
SendFails ==
    /\ ghost.waiting # << >> /\ done.faults < MaxFaults
    /\ done' = [done EXCEPT !.faults = @ + 1]
    /\ \E local \in ToSet(ghost.waiting) :
         /\ client' = [client EXCEPT !.asks = TRUE,
                         !.echoes = SelectSeq(@, LAMBDA e : e.local # local)]
         /\ ghost' = [ghost EXCEPT !.waiting = SelectSeq(@, LAMBDA w : w # local),
                                   !.high = @ \/ local # Last(ghost.waiting)]
    /\ ui' = invalidate_chat_cache(ui)
    /\ UNCHANGED <<talk, nextId, cache>>

-----------------------------------------------------------------------------
(* The list of executions. *)

Key == done.keys < MaxKeys /\ done' = [done EXCEPT !.keys = @ + 1]
Still == UNCHANGED <<talk, nextId, client, ghost>>

ClosedQuietly(u) == [u EXCEPT !.expanded = {}, !.selected = None, !.mode = "Chat", !.auto = TRUE]
close_executions(u) ==
    invalidate_chat_cache([u EXCEPT !.expanded = {}, !.selected = None, !.mode = "Chat",
                                    !.auto = TRUE])

\* The selected card is scrolled to the top, or as far up as there are lines below it.
reveal_selected_execution(u) ==
    LET k == refresh_chat_render_cache(client, u, cache, cache.width)
        at == {o.at : o \in {p \in Offsets(k.sections) : p.id = u.selected}}
    IN /\ cache' = k
       /\ ui' = IF at = {} THEN [u EXCEPT !.dirty = FALSE]
                ELSE [u EXCEPT !.dirty = FALSE, !.auto = FALSE,
                               !.scroll = Least(CHOOSE n \in at : TRUE, chat_max_scroll(k))]

NextSelected(u, forward) ==
    LET ids == [i \in DOMAIN Results(client) |-> Results(client)[i].id]
        at == {i \in DOMAIN ids : ids[i] = u.selected}
        index == CHOOSE i \in at : TRUE
    IN IF at = {} THEN Last(ids)
       ELSE IF forward THEN ids[(index % Len(ids)) + 1]
            ELSE ids[((index + Len(ids) - 2) % Len(ids)) + 1]

select_execution(u, forward) ==
    IF Results(client) = << >>
    THEN /\ ui' = IF u.selected # None THEN invalidate_chat_cache([u EXCEPT !.selected = None])
                  ELSE u
         /\ UNCHANGED cache
    ELSE reveal_selected_execution(
           invalidate_chat_cache([u EXCEPT !.selected = NextSelected(u, forward)]))

open_executions ==
    /\ ui.mode = "Chat" /\ Key /\ Still
    /\ select_execution(invalidate_chat_cache([ui EXCEPT !.mode = "Executions",
                                                         !.selected = None]), FALSE)

Select(forward) == ui.mode = "Executions" /\ Key /\ Still /\ select_execution(ui, forward)

\* A selection that is gone is replaced before it is toggled.
toggle_execution ==
    /\ ui.mode = "Executions" /\ Key /\ Still
    /\ LET there == \E m \in ToSet(Results(client)) : m.id = ui.selected
           id == IF there THEN ui.selected
                 ELSE IF Results(client) = << >> THEN None ELSE NextSelected(ui, FALSE)
           open == IF id \in ui.expanded THEN ui.expanded \ {id} ELSE ui.expanded \union {id}
       IN IF id = None
          THEN /\ ui' = IF ui.selected # None
                        THEN invalidate_chat_cache([ui EXCEPT !.selected = None]) ELSE ui
               /\ UNCHANGED cache
          ELSE reveal_selected_execution(
                 invalidate_chat_cache([ui EXCEPT !.selected = id, !.expanded = open]))

Close == /\ ui.mode = "Executions" /\ Key /\ Still
         /\ ui' = close_executions(ui)
         /\ UNCHANGED cache

-----------------------------------------------------------------------------
(* Scrolling, screens and drawing. *)

scroll_chat_by(down) ==
    /\ ui.mode \in {"Chat", "Executions"} /\ Key /\ Still
    /\ LET most == chat_max_scroll(cache)
           now == effective_chat_scroll(ui, cache)
           next == IF down THEN Least(now + 1, most) ELSE Minus(now, 1)
       IN ui' = [ui EXCEPT !.scroll = next, !.auto = down /\ next = most]
    /\ UNCHANGED cache

\* A screen over the chat: the providers screen asks for the settings, others do not.
OpenMenu ==
    /\ ui.mode = "Chat" /\ Key /\ Still
    /\ \E settings \in BOOLEAN :
         ui' = [ui EXCEPT !.mode = "Menu", !.settings = @ \/ settings]
    /\ UNCHANGED cache

EscapeMenu == /\ ui.mode = "Menu" /\ Still
              /\ ui' = [ui EXCEPT !.mode = "Chat"]
              /\ UNCHANGED <<cache, done>>

\* The settings, and the answer to a profile change, may come after the screen was left.
LeaveExecutionsQuietly(u) == IF u.mode = "Executions" THEN ClosedQuietly(u) ELSE u
LeaveExecutions(u) == IF u.mode = "Executions" THEN close_executions(u) ELSE u

SettingsReply ==
    /\ ui.settings /\ Still
    /\ ui' = [LeaveExecutions(ui) EXCEPT !.mode = "Menu", !.settings = FALSE]
    /\ UNCHANGED <<cache, done>>

\* A script asks for a decision: the chat is shown.
enter_script_decision_phase ==
    /\ talk # << >> /\ Last(talk).call /\ ui.mode # "Chat" /\ Still
    /\ ui' = [LeaveExecutions(ui) EXCEPT !.mode = "Chat"]
    /\ UNCHANGED <<cache, done>>

Resize == /\ Key /\ Still
          /\ \E w \in Widths \ {ui.width} : ui' = [ui EXCEPT !.width = w]
          /\ UNCHANGED cache

Draw ==
    /\ ui.dirty \/ cache.width # ui.width
    /\ LET k == refresh_chat_render_cache(client, ui, cache, ui.width)
           u == [ui EXCEPT !.dirty = FALSE]
       IN /\ cache' = k
          /\ ui' = IF ui.mode = "Menu" THEN u ELSE clamp_chat_scroll(u, k)
    /\ UNCHANGED <<talk, nextId, client, done, ghost>>

-----------------------------------------------------------------------------
Next ==
    \/ Accept \/ Answer \/ Stream \/ ScriptResult \/ Undo
    \/ Snapshot \/ ReadPage \/ PageFails \/ install_older_history \/ LoadSession
    \/ dispatch_send_message \/ SendFails
    \/ open_executions \/ Select(TRUE) \/ Select(FALSE) \/ toggle_execution \/ Close
    \/ scroll_chat_by(TRUE) \/ scroll_chat_by(FALSE)
    \/ OpenMenu \/ EscapeMenu \/ SettingsReply \/ enter_script_decision_phase \/ Resize \/ Draw

vars == <<talk, nextId, client, ui, cache, done, ghost>>
Spec == Init /\ [][Next]_vars

-----------------------------------------------------------------------------
(* Properties. *)

(* The state is well typed. *)
ChatTypeOK ==
    /\ nextId \in 1..(MaxIds + 1) /\ Len(talk) < nextId
    /\ client.tip \in Ids \union {None} /\ client.asks \in BOOLEAN
    /\ ui.mode \in {"Chat", "Executions", "Menu"} /\ ui.selected \in Ids \union {None}
    /\ ui.expanded \subseteq Ids /\ ui.width \in Widths /\ ui.scroll \in Nat
    /\ {ui.auto, ui.dirty, ui.settings} \subseteq BOOLEAN
    /\ done.sends <= MaxSends /\ done.keys <= MaxKeys /\ done.faults <= MaxFaults

(* What is on the screen is what rendering everything anew would give: no handler changes the
   messages, the echoes, the mode, the selection or an expansion without moving the epoch, and
   no section keeps lines that another state of its messages produced. *)
ScreenIsCurrent ==
    ~ ui.dirty =>
        LET groups == Groups(Projected(client, ui.mode), ui.mode)
        IN cache.sections = [i \in DOMAIN groups |-> Drawn(groups[i], client, ui, cache.width)]

(* Once every request is answered, the terminal shows the whole conversation and nothing else,
   although pages are loaded newest first, between events that were lost.  Two gaps are left
   out, which last until the session is opened again: a page that could not be read is not
   asked for again, and a snapshot asks for no page when the last message of the page before it
   is loaded, also when messages between were lost with their events.  And a page read before
   the last message was undone brings messages back when it comes in after. *)
TranscriptWhole ==
    ~ client.asks /\ client.pages = {} /\ ~ ghost.gap /\ ~ ghost.stale =>
        build_tip_chain(client) = talk

(* A message the user sent is echoed until it is stored, also when the same text is sent again.
   Echoes are dropped by counting the loaded messages of that text, so this is not claimed of a
   message sent while some of them were not loaded, when a page that holds one comes in while
   an echo is shown, nor of what waited when the session was opened again. *)
EchoKept ==
    ~ ghost.low => ToSet(ghost.waiting) \subseteq {e.local : e \in ToSet(client.echoes)}

(* And no longer, once every request is answered: but the count is too low for an echo behind
   one that was refused, for an echo shown when the last message was undone, and in a transcript
   with a gap or with messages that a late page brought back. *)
EchoGone ==
    ~ client.asks /\ client.pages = {} /\ ~ ghost.gap /\ ~ ghost.stale /\ ~ ghost.high =>
        {e.local : e \in ToSet(client.echoes)} \subseteq ToSet(ghost.waiting)

EchoUntilStored == EchoKept /\ EchoGone
====
