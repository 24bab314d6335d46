---------------------------- MODULE SettingsEditor ----------------------------
(* The terminal's provider settings: a draft of the whole document, edited key by key and saved
   after every change, the ordered bridge that carries requests to the runtime one at a time,
   and the runtime, which validates and stores the document. A reply arrives while the user
   goes on typing.

   A document has providers [id, type] and models [id, provider]; the values of their fields
   are left out, every field edit taking the path of the edits modelled here. *)
EXTENDS Integers, Sequences, SequencesExt, FiniteSets

CONSTANTS
    Ids,         \* names a user gives a provider
    MaxEdits,    \* bound on changes of the draft and of the sign-in status
    MaxOpens,    \* bound on the times the screen is opened
    MaxReplies   \* bound on the replies not yet handled

VARIABLES
    draft,   \* the document edited, or None
    ui,      \* [open, view, focus, prov, model, armed, editor]; armed remembers for what
    lane,    \* requests waiting for the bridge, oldest first
    replies, \* responses the terminal has not handled
    file,    \* the stored document
    auth,    \* [now, shown, events, opened]: sign-in statuses sent and shown
    ghost,   \* [raced, rejected, wrong]: for the properties only
    edits, opens

vars == <<draft, ui, lane, replies, file, auth, ghost, edits, opens>>

None == [providers |-> <<>>, models |-> <<>>, loaded |-> FALSE]
Types == {"t", "u"}
Disarmed == <<"no", 0>>
Views == {"list", "connect", "detail", "advanced"}

-----------------------------------------------------------------------------
(* validate_entries: provider ids are present and unique, models refer to a provider. *)
ValidDoc(d) ==
    /\ \A i, j \in DOMAIN d.providers : i # j => d.providers[i].id # d.providers[j].id
    /\ \A i \in DOMAIN d.models : \E j \in DOMAIN d.providers :
         d.providers[j].id = d.models[i].provider

Doc(ps, ms) == [providers |-> ps, models |-> ms, loaded |-> TRUE]

Keep(seq, Test(_)) == SelectSeq(seq, Test)

current_provider == draft.providers[ui.prov]
HasProvider == ui.prov \in DOMAIN draft.providers
current_model_indices ==
    IF HasProvider
    THEN {i \in DOMAIN draft.models : draft.models[i].provider = current_provider.id}
    ELSE {}
HasModel == ui.model <= Cardinality(current_model_indices)
current_model_index ==
    CHOOSE i \in current_model_indices :
        Cardinality({j \in current_model_indices : j <= i}) = ui.model

adjust_index(current, len, delta) ==
    IF len = 0 THEN 1
    ELSE IF delta < 0 THEN (IF current > 1 THEN current - 1 ELSE 1)
    ELSE IF current + 1 < len THEN current + 1 ELSE len

Init ==
    /\ file \in {Doc(<<>>, <<>>),
                 Doc(<<[id |-> "p", type |-> "t"], [id |-> "q", type |-> "u"]>>,
                     <<[id |-> 1, provider |-> "p"]>>)}
    /\ draft = None
    /\ ui = [open |-> FALSE, view |-> "list", focus |-> "provider", prov |-> 1, model |-> 1,
             armed |-> Disarmed, editor |-> FALSE]
    /\ lane = <<>> /\ replies = <<>>
    /\ auth = [now |-> [seq |-> 0, target |-> 0], shown |-> [seq |-> 0, target |-> 0],
               events |-> <<>>, opened |-> <<>>]
    /\ ghost = [raced |-> FALSE, rejected |-> FALSE, wrong |-> FALSE]
    /\ edits = 0 /\ opens = 0

Ask(r) == lane' = Append(lane, r)
Get == [kind |-> "get", doc |-> None]
Statuses == [kind |-> "auth", doc |-> None]
SaveBefore(d) == [kind |-> "save", doc |-> draft]
Save(d) == [kind |-> "save", doc |-> d]

(* A change of the draft is saved at once, as a whole. *)
Changed(d) ==
    /\ edits < MaxEdits /\ edits' = edits + 1
    /\ draft' = d
    /\ Ask(Save(d))

-----------------------------------------------------------------------------
(* /providers shows the draft of an earlier visit until the answer comes. *)
OpenScreen ==
    /\ ~ ui.open /\ opens < MaxOpens
    /\ opens' = opens + 1
    /\ ui' = [ui EXCEPT !.open = TRUE, !.view = "list"]
    /\ lane' = lane \o <<Get, Statuses>>
    /\ UNCHANGED <<draft, replies, file, auth, ghost, edits>>

(* What is armed stays armed in another panel, for whatever is selected there. *)
Elsewhere == IF ui.armed = Disarmed THEN Disarmed ELSE <<"anything", 0>>

Switched(view) == ui' = [ui EXCEPT !.view = view, !.armed = Elsewhere] /\ UNCHANGED ghost

Escape ==
    /\ ui.open
    /\ IF ui.editor THEN ui' = [ui EXCEPT !.editor = FALSE] /\ UNCHANGED ghost
       ELSE CASE ui.view = "list" -> ui' = [ui EXCEPT !.open = FALSE, !.armed = Elsewhere]
                                     /\ UNCHANGED ghost
              [] ui.view \in {"connect", "detail"} -> Switched("list")
              [] ui.view = "advanced" ->
                   ui' = [ui EXCEPT !.view = "detail", !.armed = Disarmed] /\ UNCHANGED ghost
    /\ UNCHANGED <<draft, lane, replies, file, auth, edits, opens>>

(* Backspace leaves a panel without disarming a deletion. *)
Backspace ==
    /\ ui.open /\ ~ ui.editor /\ ui.view \in {"detail", "advanced"}
    /\ Switched(IF ui.view = "detail" THEN "list" ELSE "detail")
    /\ UNCHANGED <<draft, lane, replies, file, auth, edits, opens>>

ListEnter ==
    /\ ui.open /\ ~ ui.editor /\ ui.view = "list" /\ draft.providers # <<>>
    /\ Switched("detail")
    /\ Ask(Statuses)
    /\ lane = <<>>   \* bounds the lane
    /\ UNCHANGED <<draft, replies, file, auth, edits, opens>>

OpenConnect ==
    /\ ui.open /\ ~ ui.editor /\ ui.view = "list"
    /\ Switched("connect")
    /\ UNCHANGED <<draft, lane, replies, file, auth, edits, opens>>

OpenAdvanced ==
    /\ ui.open /\ ~ ui.editor /\ ui.view = "detail"
    /\ ui' = [ui EXCEPT !.view = "advanced", !.focus = "provider", !.armed = Elsewhere]
    /\ UNCHANGED <<draft, lane, replies, file, auth, ghost, edits, opens>>

Tab ==
    /\ ui.open /\ ~ ui.editor /\ ui.view = "advanced"
    /\ ui' = [ui EXCEPT !.armed = Disarmed,
                        !.focus = IF @ = "provider" THEN "models" ELSE "provider"]
    /\ UNCHANGED <<draft, lane, replies, file, auth, ghost, edits, opens>>

Move(delta) ==
    /\ ui.open /\ ~ ui.editor
    /\ \/ /\ ui.view = "list"
          /\ ui' = [ui EXCEPT !.armed = Disarmed, !.model = 1,
                              !.prov = adjust_index(@, Len(draft.providers), delta)]
       \/ /\ ui.view = "advanced" /\ ui.focus = "models"
          /\ ui' = [ui EXCEPT !.armed = Disarmed,
                      !.model = adjust_index(@, Cardinality(current_model_indices), delta)]
    /\ UNCHANGED <<draft, lane, replies, file, auth, ghost, edits, opens>>

(* next_provider_id: a free name; the screen then shows the new provider. *)
CreateProvider ==
    /\ ui.open /\ ui.view = "connect" /\ draft.loaded
    /\ \E id \in Ids, type \in Types :
         /\ \A i \in DOMAIN draft.providers : draft.providers[i].id # id
         /\ Changed([draft EXCEPT !.providers = Append(@, [id |-> id, type |-> type])])
    /\ ui' = [ui EXCEPT !.view = "detail", !.prov = Len(draft.providers) + 1, !.model = 1,
                        !.armed = Elsewhere]
    /\ ghost' = [ghost EXCEPT !.rejected = FALSE]
    /\ UNCHANGED <<replies, file, auth, opens>>

AddModel ==
    /\ ui.open /\ ~ ui.editor /\ ui.view = "advanced" /\ ui.focus = "models" /\ HasProvider
    /\ LET count == Cardinality(current_model_indices) IN
       /\ Changed([draft EXCEPT !.models =
                     Append(@, [id |-> count + 1, provider |-> current_provider.id])])
       /\ ui' = [ui EXCEPT !.armed = Disarmed, !.model = count + 1]
    /\ ghost' = [ghost EXCEPT !.rejected = FALSE]
    /\ UNCHANGED <<replies, file, auth, opens>>

CycleType ==
    /\ ui.open /\ ~ ui.editor /\ ui.view = "advanced" /\ ui.focus = "provider" /\ HasProvider
    /\ LET type == CHOOSE t \in Types : t # current_provider.type
       IN  Changed([draft EXCEPT !.providers[ui.prov].type = type])
    /\ ghost' = [ghost EXCEPT !.rejected = FALSE]
    /\ UNCHANGED <<ui, replies, file, auth, opens>>

StartEditor ==
    /\ ui.open /\ ~ ui.editor /\ ui.view = "advanced" /\ ui.focus = "provider" /\ HasProvider
    /\ ui' = [ui EXCEPT !.armed = Disarmed, !.editor = TRUE]
    /\ UNCHANGED <<draft, lane, replies, file, auth, ghost, edits, opens>>

(* A provider's new id is given to its models too. *)
RenamedModelsUnchanged(models, old, new) == models
RenamedModels(models, old, new) ==
    [i \in DOMAIN models |-> IF models[i].provider = old THEN [models[i] EXCEPT !.provider = new]
                             ELSE models[i]]

CommitEditor ==
    /\ ui.open /\ ui.editor
    /\ ui' = [ui EXCEPT !.editor = FALSE]
    /\ IF HasProvider
       THEN /\ \E id \in Ids :
                 Changed([draft EXCEPT !.providers[ui.prov].id = id,
                                       !.models = RenamedModels(@, current_provider.id, id)])
            /\ ghost' = [ghost EXCEPT !.rejected = FALSE]
       ELSE UNCHANGED <<draft, lane, ghost, edits>>
    /\ UNCHANGED <<replies, file, auth, opens>>

(* The first d arms the deletion, the second deletes what is selected then. *)
Selected ==
    IF ui.view = "list" \/ ui.focus = "provider"
    THEN IF HasProvider THEN <<"provider", current_provider.id>> ELSE <<"none", 0>>
    ELSE IF HasModel THEN <<"model", draft.models[current_model_index].id>> ELSE <<"none", 0>>

Arm ==
    /\ ui.open /\ ~ ui.editor /\ ui.view \in {"list", "advanced"} /\ ui.armed = Disarmed
    /\ ui' = [ui EXCEPT !.armed = Selected]
    /\ UNCHANGED <<draft, lane, replies, file, auth, ghost, edits, opens>>

WithoutProviderOnly(id) ==
    LET Other(p) == p.id # id IN Doc(Keep(draft.providers, Other), draft.models)
WithoutProvider(id) ==
    LET Other(p) == p.id # id
        Others(mo) == mo.provider # id
    IN  Doc(Keep(draft.providers, Other), Keep(draft.models, Others))
WithoutModel(m) ==
    LET Other(mo) == ~ (mo.provider = m.provider /\ mo.id = m.id)
    IN  Doc(draft.providers, Keep(draft.models, Other))

Delete ==
    /\ ui.open /\ ~ ui.editor /\ ui.view \in {"list", "advanced"}
    /\ ui.armed # Disarmed
    /\ IF Selected[1] = "none"
       THEN /\ ui' = [ui EXCEPT !.armed = Disarmed]
            /\ UNCHANGED <<draft, lane, edits, ghost>>
       ELSE /\ IF Selected[1] = "provider"
               THEN LET d == WithoutProvider(current_provider.id) IN
                    /\ Changed(d)
                    /\ ui' = [ui EXCEPT !.armed = Disarmed, !.model = 1,
                         !.prov = LET up == IF @ > 1 THEN @ - 1 ELSE 1
                                      last == IF d.providers = <<>> THEN 1 ELSE Len(d.providers)
                                  IN  IF up < last THEN up ELSE last]
               ELSE /\ Changed(WithoutModel(draft.models[current_model_index]))
                    /\ ui' = [ui EXCEPT !.armed = Disarmed, !.model = IF @ > 1 THEN @ - 1 ELSE 1]
            /\ ghost' = [ghost EXCEPT
                 !.wrong = @ \/ (ui.armed \notin {Selected, <<"anything", 0>>}),
                 !.rejected = FALSE]
    /\ UNCHANGED <<replies, file, auth, opens>>

-----------------------------------------------------------------------------
(* The bridge executes one request after the other. *)
Execute ==
    /\ lane # <<>> /\ Len(replies) < MaxReplies
    /\ LET r == Head(lane) IN
       /\ lane' = Tail(lane)
       /\ CASE r.kind = "get" ->
                 /\ replies' = Append(replies, [kind |-> "settings", doc |-> file,
                                                ok |-> TRUE, status |-> auth.now])
                 /\ UNCHANGED file
            [] r.kind = "auth" ->
                 /\ replies' = Append(replies, [kind |-> "status", doc |-> None,
                                                ok |-> TRUE, status |-> auth.now])
                 /\ UNCHANGED file
            [] r.kind = "save" ->
                 /\ file' = IF ValidDoc(r.doc) THEN r.doc ELSE file
                 /\ replies' = Append(replies, [kind |-> "saved", doc |-> None,
                                                ok |-> ValidDoc(r.doc), status |-> auth.now])
    /\ UNCHANGED <<draft, ui, auth, ghost, edits, opens>>

(* An older status never replaces a newer one; a new target opens the browser. *)
NewerAny(status) == TRUE
Newer(status) == status.seq >= auth.shown.seq

Shown(a, status) ==
    IF ~ Newer(status) THEN a
    ELSE [a EXCEPT !.shown = status,
            !.opened = IF status.target # 0 /\ status.target # a.shown.target
                       THEN Append(@, status.target) ELSE @]

(* The settings reply starts the screen afresh, whatever the user did since asking. *)
AfterLoadArmed(u) == u.armed
AfterLoad(u) == Disarmed

SettingsReply ==
    /\ replies # <<>> /\ Head(replies).kind = "settings"
    /\ LET saving == {i \in DOMAIN lane : lane[i].kind = "save"}
                       \union {i \in DOMAIN replies : replies[i].kind = "saved"} IN
       /\ draft' = Head(replies).doc
       /\ ui' = [open |-> TRUE, view |-> "list", focus |-> "provider", prov |-> 1, model |-> 1,
                 armed |-> AfterLoad(ui), editor |-> FALSE]
       /\ ghost' = [ghost EXCEPT !.raced = @ \/ saving # {}, !.rejected = FALSE]
    /\ replies' = Tail(replies)
    /\ UNCHANGED <<lane, file, auth, edits, opens>>

SaveReply ==
    /\ replies # <<>> /\ Head(replies).kind = "saved"
    /\ IF Head(replies).ok
       THEN /\ ui' = [ui EXCEPT !.armed = Disarmed, !.editor = FALSE]
            /\ UNCHANGED ghost
       ELSE /\ ghost' = [ghost EXCEPT !.rejected = TRUE]
            /\ UNCHANGED ui
    /\ replies' = Tail(replies)
    /\ UNCHANGED <<draft, lane, file, auth, edits, opens>>

StatusReply ==
    /\ replies # <<>> /\ Head(replies).kind = "status"
    /\ auth' = Shown(auth, Head(replies).status)
    /\ replies' = Tail(replies)
    /\ UNCHANGED <<draft, ui, lane, file, ghost, edits, opens>>

(* Sign-in at the runtime: every change of status is an event, on a path of its own. *)
StatusChanges ==
    /\ Len(auth.events) < 2 /\ edits < MaxEdits
    /\ edits' = edits + 1
    /\ LET next == [seq |-> auth.now.seq + 1,
                    target |-> IF auth.now.target = 0 THEN auth.now.seq + 1 ELSE 0]
       IN  auth' = [auth EXCEPT !.now = next, !.events = Append(@, next)]
    /\ UNCHANGED <<draft, ui, lane, replies, file, ghost, opens>>

StatusEvent ==
    /\ auth.events # <<>>
    /\ auth' = [Shown(auth, Head(auth.events)) EXCEPT !.events = Tail(auth.events)]
    /\ UNCHANGED <<draft, ui, lane, replies, file, ghost, edits, opens>>

Next ==
    \/ OpenScreen \/ Escape \/ Backspace \/ ListEnter \/ OpenConnect \/ OpenAdvanced \/ Tab
    \/ Move(1) \/ Move(-1) \/ CreateProvider \/ AddModel \/ CycleType \/ StartEditor
    \/ CommitEditor \/ Arm \/ Delete \/ Execute \/ SettingsReply \/ SaveReply \/ StatusReply
    \/ StatusChanges \/ StatusEvent

Spec == Init /\ [][Next]_vars

-----------------------------------------------------------------------------
EditorTypeOK ==
    /\ ui.view \in Views /\ ui.focus \in {"provider", "models"}
    /\ ui.prov \in Nat \ {0} /\ ui.model \in Nat \ {0}
    /\ \A i \in DOMAIN draft.providers : draft.providers[i].type \in Types
    /\ \A i \in DOMAIN lane : lane[i].kind \in {"get", "auth", "save"}
    /\ edits \in 0..MaxEdits /\ opens \in 0..MaxOpens

(* Whatever is renamed and deleted, no model is left in the draft without its provider, so that
   no later save is refused for a model the user cannot see. *)
NoOrphans ==
    \A i \in DOMAIN draft.models : \E j \in DOMAIN draft.providers :
        draft.providers[j].id = draft.models[i].provider

(* Once every request is answered the stored document is the one shown, unless the last save
   was refused or a reply overtaken by the user's edits replaced the draft. *)
SavedIsShown ==
    lane = <<>> /\ replies = <<>> /\ draft.loaded /\ ~ ghost.raced /\ ~ ghost.rejected
        => file = draft

(* The second d deletes what the first one named, whatever replies came between the two, as
   long as the user stayed in the panel. *)
DeletesWhatWasArmed == ~ ghost.wrong

(* The terminal ends up with the newest sign-in status, and opens each sign-in page once. *)
StatusSettles ==
    /\ \A i, j \in DOMAIN auth.opened : i # j => auth.opened[i] # auth.opened[j]
    /\ auth.events = <<>> => auth.shown.seq = auth.now.seq
=============================================================================
