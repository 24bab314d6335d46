----------------------------- MODULE AcpSessions -----------------------------
(***************************************************************************)
(* The sessions of one ACP connection (kraai-acp Server): they are created *)
(* or loaded by concurrent handlers, prompted, configured and cancelled,   *)
(* until the client closes.  A handler holds the session's turn lock, but  *)
(* the stored conversation, its model and the configured models also       *)
(* change elsewhere.  A session may bring MCP servers of its own, which    *)
(* live in an overlay over the configured ones (kraai-mcp McpManager).     *)
(* What a prompt shows is AcpPrompt; what the client is told about the     *)
(* configuration is ModelsShown.                                           *)
(***************************************************************************)
EXTENDS Naturals, FiniteSets, SequencesExt

CONSTANTS
    Models,      \* models a provider may offer, ordered by their numbers
    Override,    \* the models --provider and --model allow: all, or those they name
    Page,        \* HISTORY_PAGE
    MaxRequests, \* requests of the client (bound)
    MaxLoads,    \* load requests among them (bound)
    MaxPrompts,  \* prompts among them (bound)
    MaxAppends,  \* messages stored (bound)
    MaxFaults    \* changes from elsewhere and failed calls (bound)

VARIABLES
    row,         \* stored sessions: tip and model
    parents,     \* the message each message follows
    stored,      \* the messages in the store
    offered,     \* the models the configuration offers now
    overlays,    \* AgentManager.session_mcp: the overlay installed for a session
    alive,       \* MCP server groups whose processes run: the configured servers and overlays
    turn,        \* the turn of a session in the runtime: none, or the server groups it uses
    server,      \* initialized, closed, and the sessions of the connection
    create,      \* the handler of session/new
    load,        \* the handlers of session/load
    config,      \* the handler of session/set_config_option
    prompt,      \* the handlers of session/prompt
    counts,      \* messages stored and faults so far
    ghost        \* models the client chose last, prompts the client cancelled while they ran

acpSessionVars == <<row, parents, stored, offered, overlays, alive, turn, server, create, load, config,
                    prompt, counts, ghost>>

Ids == {"old", "new"}
Base == 0
NoModel == 0
NoMessage == 0
NoRow == [tip |-> NoMessage, model |-> NoModel, exists |-> FALSE]
NoSession == [known |-> FALSE, ready |-> FALSE, holder |-> << >>, token |-> 0]

-----------------------------------------------------------------------------
(* Conversations and models. *)

\* The messages from one up to the root, newest first, among those in `have`.
Walk(have, from) ==
    LET down[m \in 0..MaxAppends] ==
            IF m \notin have THEN << >> ELSE <<m>> \o down[parents[m]]
    IN down[from]

\* HistoryCursor::read_page: at most Page messages; a message that is gone ends it.
PageFrom(from) == LET walk == Walk(stored, from)
                  IN SubSeq(walk, 1, IF Len(walk) < Page THEN Len(walk) ELSE Page)

\* Where the next older page starts.
OlderThan(page) == IF page = << >> THEN NoMessage ELSE parents[page[Len(page)]]

\* The lowest model that the configuration offers and the command line allows.
First == LET fitting == offered \cap Override
         IN IF fitting = {} THEN NoModel ELSE CHOOSE m \in fitting : \A n \in fitting : m <= n

\* select_model: the saved model if it is allowed and offered, else the first; a saved model
\* that is gone is replaced only when the command line names another.
select_model(saved) ==
    IF saved \in Override \cap offered THEN saved
    ELSE IF saved \in Override /\ Override = Models THEN NoModel
    ELSE First

ReselectsAlways(id) == TRUE

\* Only a session that was not yet answered for gets a model.
Reselects(id) == ~server.sessions[id].ready

-----------------------------------------------------------------------------
Init ==
    /\ row = [id \in Ids |-> IF id = "old" THEN [tip |-> 2, model |-> 1, exists |-> TRUE]
                             ELSE NoRow]
    /\ parents = <<NoMessage, 1>> /\ stored = {1, 2}
    /\ offered = Models
    /\ overlays = [id \in Ids |-> 0] /\ alive = {Base} /\ turn = [id \in Ids |-> << >>]
    /\ server = [initialized |-> FALSE, closed |-> "no",
                 sessions |-> [id \in Ids |-> NoSession]]
    /\ create = [at |-> "idle"]
    /\ load = [l \in 1..MaxLoads |-> [at |-> "idle"]]
    /\ config = [at |-> "idle"]
    /\ prompt = [p \in 1..MaxPrompts |-> [at |-> "idle", id |-> "old", cancelled |-> FALSE]]
    /\ counts = [messages |-> 2, faults |-> 0, overlays |-> 0]
    /\ ghost = [chosen |-> [id \in Ids |-> NoModel], wanted |-> {}]

Begun == (IF create.at = "idle" THEN 0 ELSE 1) + (IF config.at = "idle" THEN 0 ELSE 1)
         + Cardinality({l \in DOMAIN load : load[l].at # "idle"})
         + Cardinality({p \in DOMAIN prompt : prompt[p].at # "idle"})
Open == server.initialized /\ server.closed = "no"
Request == Open /\ Begun < MaxRequests
Up == server.closed # "down"
Fault == counts.faults < MaxFaults /\ counts' = [counts EXCEPT !.faults = @ + 1]
Session(id) == server.sessions[id]
Unlocked(id) == Session(id).holder = << >>

Takes(id, who) == server' = [server EXCEPT !.sessions[id].known = TRUE,
                                           !.sessions[id].holder = who]
Frees(id) == server' = [server EXCEPT !.sessions[id].holder = << >>]

Initialize ==
    /\ ~server.initialized /\ server' = [server EXCEPT !.initialized = TRUE]
    /\ UNCHANGED <<row, parents, stored, offered, overlays, alive, turn, create, load, config, prompt,
                   counts, ghost>>

-----------------------------------------------------------------------------
(* MCP servers of a session: with_session_servers builds an overlay that also names the
   configured servers, but owns only its own. *)

OwnsAll(n) == IF n = 0 THEN {} ELSE {Base, n}

\* McpManager::shutdown stops owned_servers.
Owns(n) == IF n = 0 THEN {} ELSE {n}

\* set_mcp_servers: refused while the session has work.
Idle(id) == turn[id] = << >>

Without(set, n) == set \ Owns(n)

\* The request may bring no server, which removes the overlay.
SetServers(id) ==
    \E n \in {0, counts.overlays + 1} :
        /\ n <= MaxLoads + 1
        /\ overlays' = [overlays EXCEPT ![id] = n]
        /\ alive' = Without(alive, overlays[id]) \cup (IF n = 0 THEN {} ELSE {n})
        /\ counts' = [counts EXCEPT !.overlays = IF n = 0 THEN @ ELSE n]

KeepMcp == UNCHANGED <<overlays, alive>>

-----------------------------------------------------------------------------
(* session/load: look the session up, take its turn lock, read a snapshot, choose a model,
   install the servers, read the rest of the history, send it and answer. *)

LoadTo(l, at) == load' = [load EXCEPT ![l] = at]

\* A client names a session it was told of.
LoadChecks(l) ==
    /\ load[l].at = "idle" /\ Request /\ \A k \in 1..(l - 1) : load[k].at # "idle"
    /\ \E id \in Ids : /\ row[id].exists
                       /\ id = "new" => create.at \in {"answered", "done"}
                       /\ LoadTo(l, [at |-> "checked", id |-> id])
    /\ UNCHANGED <<row, parents, stored, offered, overlays, alive, turn, server, create, config, prompt,
                   counts, ghost>>

LoadLocks(l) ==
    /\ load[l].at = "checked"
    /\ LET id == load[l].id
       IN \/ Unlocked(id) /\ Takes(id, <<"load", l>>) /\ LoadTo(l, [at |-> "locked", id |-> id])
          \/ /\ ~Unlocked(id) /\ LoadTo(l, [at |-> "over"])
             /\ server' = [server EXCEPT !.sessions[id].known = TRUE]
    /\ UNCHANGED <<row, parents, stored, offered, overlays, alive, turn, create, config, prompt, counts,
                   ghost>>

\* load_session and get_session_snapshot: the newest page and where the older one starts.
LoadSnapshot(l) ==
    LET id == load[l].id
        page == PageFrom(row[id].tip)
    IN /\ load[l].at = "locked" /\ Up /\ row[id].exists /\ turn[id] = << >>
       /\ LoadTo(l, [at |-> IF Reselects(id) THEN "model" ELSE "servers", id |-> id,
                     tip |-> row[id].tip, have |-> Range(page), older |-> OlderThan(page),
                     saved |-> row[id].model])
       /\ UNCHANGED <<row, parents, stored, offered, overlays, alive, turn, server, create,
                      config, prompt, counts, ghost>>

LoadModel(l) ==
    LET id == load[l].id
        model == select_model(load[l].saved)
    IN /\ load[l].at = "model" /\ Up /\ row[id].exists /\ model # NoModel
       /\ row' = [row EXCEPT ![id].model = model]
       /\ LoadTo(l, [load[l] EXCEPT !.at = "servers"])
       /\ UNCHANGED <<parents, stored, offered, overlays, alive, turn, server, create, config, prompt,
                      counts, ghost>>

LoadServers(l) ==
    /\ load[l].at = "servers" /\ Up /\ row[load[l].id].exists /\ Idle(load[l].id)
    /\ SetServers(load[l].id)
    /\ LoadTo(l, [load[l] EXCEPT !.at = "pages"])
    /\ UNCHANGED <<row, parents, stored, offered, turn, server, create, config, prompt, ghost>>

\* replay: pages are read until none is older.
LoadPage(l) ==
    LET page == PageFrom(load[l].older)
    IN /\ load[l].at = "pages" /\ Up /\ load[l].older # NoMessage
       /\ LoadTo(l, [load[l] EXCEPT !.have = @ \cup Range(page), !.older = OlderThan(page)])
       /\ UNCHANGED <<row, parents, stored, offered, overlays, alive, turn, server, create,
                      config, prompt, counts, ghost>>

ReachesRootAlways(walk) == TRUE

\* The walk from the tip ends at the root, not at a message that was not read.
ReachesRoot(walk) == OlderThan(walk) = NoMessage

\* The history goes out oldest first, the turn lock is released and the answer sent.
LoadReplays(l) ==
    LET walk == Walk(load[l].have, load[l].tip)
    IN /\ load[l].at = "pages" /\ load[l].older = NoMessage /\ ReachesRoot(walk)
       /\ LoadTo(l, [at |-> "answered", id |-> load[l].id, tip |-> load[l].tip,
                     shown |-> Reverse(walk)])
       /\ Frees(load[l].id)
       /\ UNCHANGED <<row, parents, stored, offered, overlays, alive, turn, create, config,
                      prompt, counts, ghost>>

\* PreparedSession::respond
LoadReady(l) ==
    /\ load[l].at = "answered"
    /\ server' = [server EXCEPT !.sessions[load[l].id].ready = TRUE]
    /\ LoadTo(l, [at |-> "over"])
    /\ UNCHANGED <<row, parents, stored, offered, overlays, alive, turn, create, config, prompt, counts,
                   ghost>>

\* Any of the calls refuses: the session is gone, runs, has no model, or its history changed.
LoadFails(l) ==
    LET id == load[l].id
        at == load[l].at
    IN /\ at \in {"locked", "model", "servers", "pages"}
       /\ \/ ~Up \/ ~row[id].exists
          \/ at = "locked" /\ turn[id] # << >>
          \/ at = "model" /\ select_model(load[l].saved) = NoModel
          \/ at = "servers" /\ ~Idle(id)
          \/ /\ at = "pages" /\ load[l].older = NoMessage
             /\ ~ReachesRoot(Walk(load[l].have, load[l].tip))
       /\ LoadTo(l, [at |-> "over"]) /\ Frees(id)
       /\ UNCHANGED <<row, parents, stored, offered, overlays, alive, turn, create, config, prompt,
                      counts, ghost>>

-----------------------------------------------------------------------------
(* session/new: choose a model, store the session, give it the model and the servers; when one
   of these fails the session is deleted again.  The session is entered and then answered. *)

CreateTo(at) == create' = [at |-> at]
OnlyCreate == UNCHANGED <<parents, stored, offered, turn, load, config, prompt, ghost>>

CreateStores ==
    /\ create.at = "idle" /\ Request /\ First # NoModel
    /\ row' = [row EXCEPT !["new"] = [NoRow EXCEPT !.exists = TRUE]]
    /\ create' = [at |-> "stored", model |-> First]
    /\ OnlyCreate /\ KeepMcp /\ UNCHANGED <<server, counts>>

CreateModel ==
    /\ create.at = "stored" /\ Up
    /\ row' = [row EXCEPT !["new"].model = create.model] /\ CreateTo("servers")
    /\ OnlyCreate /\ KeepMcp /\ UNCHANGED <<server, counts>>

CreateServers ==
    /\ create.at = "servers" /\ Up /\ SetServers("new") /\ CreateTo("configured")
    /\ OnlyCreate /\ UNCHANGED <<row, server>>

AfterFailureLeft == "failed"

AfterFailure == "delete"

\* The model was removed meanwhile, or an alias of the request is already configured.
CreateRefused ==
    /\ create.at \in {"stored", "servers"} /\ Up /\ Fault /\ CreateTo(AfterFailure)
    /\ OnlyCreate /\ KeepMcp /\ UNCHANGED <<row, server>>

\* delete_session also shuts the session's servers down.
CreateDeletes ==
    /\ create.at = "delete" /\ Up
    /\ row' = [row EXCEPT !["new"] = NoRow] /\ CreateTo("failed")
    /\ alive' = Without(alive, overlays["new"]) /\ overlays' = [overlays EXCEPT !["new"] = 0]
    /\ OnlyCreate /\ UNCHANGED <<server, counts>>

CreateAnswers ==
    /\ create.at = "configured"
    /\ server' = [server EXCEPT !.sessions["new"] = [NoSession EXCEPT !.known = TRUE]]
    /\ CreateTo("answered")
    /\ OnlyCreate /\ KeepMcp /\ UNCHANGED <<row, counts>>

CreateReady ==
    /\ create.at = "answered" /\ CreateTo("done")
    /\ server' = [server EXCEPT !.sessions["new"].ready = TRUE]
    /\ OnlyCreate /\ KeepMcp /\ UNCHANGED <<row, counts>>

-----------------------------------------------------------------------------
(* session/set_config_option: the model of a ready session, under its turn lock. *)

ConfigLocks ==
    /\ config.at = "idle" /\ Request
    /\ \E id \in Ids, m \in offered :
          /\ Session(id).ready /\ Unlocked(id) /\ Takes(id, <<"config">>)
          /\ config' = [at |-> "locked", id |-> id, model |-> m]
    /\ UNCHANGED <<row, parents, stored, offered, overlays, alive, turn, create, load, prompt,
                   counts, ghost>>

ConfigSets ==
    LET id == config.id
        fits == Up /\ row[id].exists /\ config.model \in offered
    IN /\ config.at = "locked" /\ Frees(id) /\ config' = [at |-> "over"]
       /\ row' = IF fits THEN [row EXCEPT ![id].model = config.model] ELSE row
       /\ ghost' = IF fits THEN [ghost EXCEPT !.chosen[id] = config.model] ELSE ghost
       /\ UNCHANGED <<parents, stored, offered, overlays, alive, turn, create, load, prompt,
                      counts>>

-----------------------------------------------------------------------------
(* session/prompt and session/cancel.  A prompt takes the turn lock and its token while the
   connection dispatches it, so that a cancellation received later finds the token. *)

PromptTo(p, at) == prompt' = [prompt EXCEPT ![p].at = at]
OnlyPrompt == UNCHANGED <<row, parents, stored, offered, overlays, alive, create, load, config,
                          counts>>

\* Session::begin_turn
BeginTurn(p) ==
    /\ prompt[p].at = "idle" /\ Request /\ \A q \in 1..(p - 1) : prompt[q].at # "idle"
    /\ \E id \in Ids :
          /\ Session(id).ready /\ Unlocked(id)
          /\ server' = [server EXCEPT !.sessions[id].holder = <<"prompt", p>>,
                                      !.sessions[id].token = p]
          /\ prompt' = [prompt EXCEPT ![p] = [at |-> "begun", id |-> id, cancelled |-> FALSE]]
    /\ OnlyPrompt /\ UNCHANGED <<turn, ghost>>

\* run: a cancelled prompt sends nothing; a turn uses the servers the session has now.
PromptSends(p) ==
    LET id == prompt[p].id
    IN /\ prompt[p].at = "begun" /\ Up
       /\ \/ /\ ~prompt[p].cancelled /\ row[id].exists /\ turn[id] = << >>
             /\ turn' = [turn EXCEPT ![id] = <<{Base} \cup Owns(overlays[id])>>]
             /\ PromptTo(p, "running")
          \/ (prompt[p].cancelled \/ ~row[id].exists) /\ PromptTo(p, "ending") /\ UNCHANGED turn
       /\ OnlyPrompt /\ UNCHANGED <<server, ghost>>

\* The turn ends: it stored a message, or was cancelled.
TurnEnds(p) ==
    LET id == prompt[p].id
        m == counts.messages + 1
    IN /\ prompt[p].at = "running" /\ PromptTo(p, "ending") /\ turn' = [turn EXCEPT ![id] = << >>]
       /\ \/ /\ prompt[p].cancelled \/ ~Up \/ m > MaxAppends \/ ~row[id].exists
             /\ UNCHANGED <<row, parents, stored, counts>>
          \/ /\ Up /\ m <= MaxAppends /\ row[id].exists
             /\ parents' = Append(parents, row[id].tip) /\ stored' = stored \cup {m}
             /\ row' = [row EXCEPT ![id].tip = m]
             /\ counts' = [counts EXCEPT !.messages = m]
       /\ UNCHANGED <<offered, overlays, alive, server, create, load, config, ghost>>

DropOrderPermitFirst == <<"release", "take">>

\* ActiveTurn: its drop takes the token, then its permit is dropped.
DropOrder == <<"take", "release">>

Drop(p, step) ==
    LET id == prompt[p].id
    IN server' = IF step = "take" THEN [server EXCEPT !.sessions[id].token = 0]
                 ELSE [server EXCEPT !.sessions[id].holder = << >>]

PromptDrops(p) ==
    /\ \/ prompt[p].at = "ending" /\ Drop(p, DropOrder[1]) /\ PromptTo(p, "dropping")
       \/ prompt[p].at = "dropping" /\ Drop(p, DropOrder[2]) /\ PromptTo(p, "over")
    /\ OnlyPrompt /\ UNCHANGED <<turn, ghost>>

\* The prompts of some sessions whose handler still works on them.
ActiveIn(ids) ==
    {p \in 1..MaxPrompts : prompt[p].at \in {"begun", "running"} /\ prompt[p].id \in ids}

\* Session::cancel
CancelAll(ids) ==
    /\ prompt' = [p \in 1..MaxPrompts |->
                     IF \E id \in ids : Session(id).token = p
                     THEN [prompt[p] EXCEPT !.cancelled = TRUE] ELSE prompt[p]]
    /\ ghost' = [ghost EXCEPT !.wanted = @ \cup ActiveIn(ids)]

Cancel ==
    /\ Open
    /\ \E id \in Ids : Session(id).ready /\ ActiveIn({id}) \ ghost.wanted # {} /\ CancelAll({id})
    /\ UNCHANGED <<row, parents, stored, offered, overlays, alive, turn, server, create, load,
                   config, counts>>

\* on_close: cancel every session's prompt, then shut the runtime down with all MCP servers.
Close ==
    /\ Open /\ CancelAll(Ids) /\ server' = [server EXCEPT !.closed = "cancelled"]
    /\ UNCHANGED <<row, parents, stored, offered, overlays, alive, turn, create, load, config,
                   counts>>

Shutdown ==
    /\ server.closed = "cancelled" /\ server' = [server EXCEPT !.closed = "down"]
    /\ alive' = {} /\ overlays' = [id \in Ids |-> 0] /\ turn' = [id \in Ids |-> << >>]
    /\ UNCHANGED <<row, parents, stored, offered, create, load, config, prompt, counts, ghost>>

-----------------------------------------------------------------------------
(* What happens elsewhere: a terminal undoes messages or chooses a model, and the configuration
   loses a model. *)

Ancestors(m) == Range(Walk(stored, m))

UndoElsewhere ==
    /\ Fault /\ turn["old"] = << >>
    /\ \E to \in (Ancestors(row["old"].tip) \cup {NoMessage}) \ {row["old"].tip} :
          /\ row' = [row EXCEPT !["old"].tip = to]
          /\ stored' = stored \ (Ancestors(row["old"].tip) \ Ancestors(to))
    /\ UNCHANGED <<parents, offered, overlays, alive, turn, server, create, load, config, prompt,
                   ghost>>

ModelElsewhere ==
    /\ Fault /\ \E m \in Models : row' = [row EXCEPT !["old"].model = m]
    /\ ghost' = [ghost EXCEPT !.chosen["old"] = NoModel]
    /\ UNCHANGED <<parents, stored, offered, overlays, alive, turn, server, create, load, config,
                   prompt>>

ModelRemoved ==
    /\ Fault /\ \E m \in offered : offered' = offered \ {m}
    /\ UNCHANGED <<row, parents, stored, overlays, alive, turn, server, create, load, config,
                   prompt, ghost>>

LoadStep(l) ==
    \/ LoadChecks(l) \/ LoadLocks(l) \/ LoadSnapshot(l) \/ LoadModel(l) \/ LoadServers(l)
    \/ LoadPage(l) \/ LoadReplays(l) \/ LoadReady(l) \/ LoadFails(l)

CreateStep ==
    \/ CreateStores \/ CreateModel \/ CreateServers \/ CreateRefused \/ CreateDeletes
    \/ CreateAnswers \/ CreateReady

PromptStep(p) == BeginTurn(p) \/ PromptSends(p) \/ TurnEnds(p) \/ PromptDrops(p)

Next ==
    \/ Initialize \/ CreateStep \/ ConfigLocks \/ ConfigSets
    \/ \E l \in 1..MaxLoads : LoadStep(l)
    \/ \E p \in 1..MaxPrompts : PromptStep(p)
    \/ Cancel \/ Close \/ Shutdown \/ UndoElsewhere \/ ModelElsewhere \/ ModelRemoved

Spec == Init /\ [][Next]_acpSessionVars

-----------------------------------------------------------------------------
\* The types of the state.
AcpSessionsTypeOK ==
    /\ \A id \in Ids : /\ row[id].tip \in 0..MaxAppends
                       /\ row[id].model \in Models \cup {NoModel}
                       /\ overlays[id] \in 0..(MaxLoads + 1)
    /\ stored \subseteq 1..Len(parents) /\ offered \subseteq Models
    /\ alive \subseteq {Base} \cup {overlays[id] : id \in Ids} \cup (1..(MaxLoads + 1))

\* An answered load has sent the client the whole conversation of its snapshot, oldest first,
\* although pages of it were read after messages were undone elsewhere (history.rs replay).
ReplayWhole ==
    \A l \in 1..MaxLoads :
        load[l].at = "answered" => Reverse(load[l].shown) = Walk(1..MaxAppends, load[l].tip)

\* Server processes run for the configured servers and the installed overlays and for nothing
\* else, and no turn loses a server it uses before the runtime shuts down.
ServersSound ==
    Up => /\ alive = {Base} \cup {overlays[id] : id \in {i \in Ids : overlays[i] # 0}}
          /\ \A id \in Ids : turn[id] # << >> => turn[id][1] \subseteq alive

\* The model the client chose stays the session's model, whatever is loaded again.
ChosenModelKept ==
    \A id \in Ids :
        ghost.chosen[id] # NoModel /\ row[id].exists => row[id].model = ghost.chosen[id]

\* A stored session has a model and was given its servers, unless its creation still runs or the
\* connection ended under it.
NoHalfSession ==
    create.at \in {"failed", "done"} /\ row["new"].exists =>
        row["new"].model # NoModel /\ create.at = "done"

\* A cancellation, or the end of the connection, reaches every prompt that was active.
CancelReaches == \A p \in ghost.wanted : prompt[p].cancelled
====
