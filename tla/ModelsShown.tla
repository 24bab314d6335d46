---------------------------- MODULE ModelsShown ----------------------------
(***************************************************************************)
(* From the model catalog to what clients show.  A provider resolves its   *)
(* own model list with the catalog and caches the result under the         *)
(* catalog's revision; a replaced catalog, an installed list or a reloaded *)
(* configuration is announced by an event; the terminal asks for the       *)
(* models again, and the ACP agent compares what it published for a        *)
(* session and publishes again, next to the requests that publish a        *)
(* session's configuration themselves.                                     *)
(*                                                                         *)
(* A list of models is what it was resolved from: the provider manager,    *)
(* the provider's own list and the catalog's revision.  Listing does not   *)
(* fail and no client loses an event (the agent takes a loss for an        *)
(* update; the terminal does not, see the README).                         *)
(***************************************************************************)
EXTENDS Naturals, Sequences

CONSTANTS
    MaxReloads,     \* bound on reloaded configurations
    MaxChanges      \* bound on reloads, replaced catalogs, installed lists and requests together

Managers == 1..MaxReloads + 1

VARIABLES
    manager,        \* the provider manager in use; a reload makes another
    catalog,        \* revision of each manager's catalog
    native,         \* version of the list installed in its provider; 0 is none
    cache,          \* what its provider resolved, and the revision it is labelled with
    reload,         \* load_providers_config_and_emit: how far it has come
    source,         \* the manager whose catalog the runtime announces
    forwarder,      \* forward_model_catalog_updates: the catalog it watches and what it saw
    unsaid,         \* lists installed whose event is still to be sent
    terminal,       \* events, the listing in progress and what is shown
    agent,          \* the agent's updater: events (drained together), wake permit, step, listing
    session,        \* configuration lock, generation, ready, stored setting
    handler,        \* the request that publishes the session's configuration
    client,         \* the configuration the ACP client was sent last
    changes,        \* how many of those there were
    watched         \* the kind of client this behaviour is about

shownVars == <<manager, catalog, native, cache, reload, source, forwarder, unsaid, terminal,
               agent, session, handler, client, changes, watched>>
providerVars == <<manager, catalog, native, reload, source, forwarder, unsaid, changes, watched>>

Nothing == [manager |-> 0, native |-> 0, revision |-> 0]
Resolved(m) == [manager |-> m, native |-> native[m], revision |-> catalog[m]]
Idle == [step |-> "idle", manager |-> 0, label |-> 0]
NoConfig == [models |-> Nothing, setting |-> 0]

Init ==
    /\ manager = 1 /\ catalog = [m \in Managers |-> 1] /\ native = [m \in Managers |-> 0]
    /\ cache = [m \in Managers |-> [label |-> 0, models |-> Nothing]]
    /\ reload = "none" /\ source = 1 /\ forwarder = [at |-> 1, seen |-> 1] /\ unsaid = 0
    /\ terminal = [events |-> 0, call |-> Idle, shows |-> Nothing]
    /\ agent = [events |-> FALSE, wake |-> FALSE, step |-> "wait", generation |-> 0, call |-> Idle,
                models |-> Nothing]
    /\ session = [lock |-> "free", generation |-> 0, ready |-> FALSE, setting |-> 0,
                  published |-> NoConfig]
    /\ handler = [step |-> "idle", dropped |-> 0, call |-> Idle]
    /\ client = NoConfig /\ changes = 0 /\ watched \in {"terminal", "agent"}

Change == changes < MaxChanges /\ changes' = changes + 1

(* Event::ModelsUpdated and Event::ConfigLoaded: every client lists the models again. *)
Announce ==
    /\ terminal' = IF watched = "terminal" THEN [terminal EXCEPT !.events = @ + 1] ELSE terminal
    /\ agent' = IF watched = "agent" THEN [agent EXCEPT !.events = TRUE] ELSE agent

-----------------------------------------------------------------------------
(* ModelMetadataCache::models: the revision is read first, then compared with the label under
   the cache's lock; when they differ the models are resolved again from a view of the catalog,
   whose revision cannot change while the view is held. *)
Started == [step |-> "read", manager |-> manager, label |-> catalog[manager]]

CacheFilled(call) ==
    IF cache[call.manager].label # 0 THEN cache
    ELSE [cache EXCEPT ![call.manager] = [label |-> catalog[call.manager],
                                          models |-> Resolved(call.manager)]]
CacheAfter(call) ==
    IF cache[call.manager].label \in {call.label, catalog[call.manager]} THEN cache
    ELSE [cache EXCEPT ![call.manager] = [label |-> catalog[call.manager],
                                          models |-> Resolved(call.manager)]]

Listed(call) == CacheAfter(call)[call.manager].models

-----------------------------------------------------------------------------
(* replace_snapshot: catalog and revision change under the write lock of the catalog. *)
ReplaceCatalog ==
    /\ Change
    /\ catalog' = [catalog EXCEPT ![manager] = @ + 1]
    /\ UNCHANGED <<manager, native, cache, reload, source, forwarder, unsaid, terminal, agent,
                   session, handler, client, watched>>

(* A polled list is installed: resolved with the catalog at once; the event follows. *)
Installs(m) ==
    /\ native' = [native EXCEPT ![m] = @ + 1]
    /\ cache' = [cache EXCEPT ![m] = [label |-> catalog[m],
                                      models |-> [Resolved(m) EXCEPT !.native = @ + 1]]]

InstallList ==
    /\ Change /\ reload = "none"
    /\ Installs(manager) /\ unsaid' = unsaid + 1
    /\ UNCHANGED <<manager, catalog, reload, source, forwarder, terminal, agent, session, handler,
                   client, watched>>

SayInstalled ==
    /\ unsaid > 0 /\ unsaid' = unsaid - 1 /\ Announce
    /\ UNCHANGED <<manager, catalog, native, cache, reload, source, forwarder, session, handler,
                   client, changes, watched>>

(* A reload: the new manager is in place, its stored lists are installed, the announcing task is
   given its catalog, and ConfigLoaded is sent unless the lists could not be synchronised. *)
SetProviders ==
    /\ reload = "none" /\ manager <= MaxReloads /\ Change
    /\ manager' = manager + 1 /\ reload' = "providers"
    /\ UNCHANGED <<catalog, native, cache, source, forwarder, unsaid, terminal, agent, session,
                   handler, client, watched>>

SyncLists ==
    /\ reload = "providers"
    /\ \/ Installs(manager) /\ reload' = "synced"
       \/ reload' = "failed" /\ UNCHANGED <<native, cache>>
    /\ UNCHANGED <<manager, catalog, source, forwarder, unsaid, terminal, agent, session, handler,
                   client, changes, watched>>

SwapCatalog ==
    /\ reload \in {"synced", "failed"} /\ source # manager
    /\ source' = manager
    /\ UNCHANGED <<manager, catalog, native, cache, reload, forwarder, unsaid, terminal, agent,
                   session, handler, client, changes, watched>>

ReloadEnds ==
    /\ reload \in {"synced", "failed"} /\ source = manager
    /\ reload' = "none"
    /\ IF reload = "synced" THEN Announce ELSE UNCHANGED <<terminal, agent>>
    /\ UNCHANGED <<manager, catalog, native, cache, source, forwarder, unsaid, session, handler,
                   client, changes, watched>>

(* The announcing task: another catalog first, and what it holds is announced as well. *)
SwapQuietly == UNCHANGED <<terminal, agent>>
SwapSaid == Announce

ForwardSwap ==
    /\ forwarder.at # source
    /\ forwarder' = [at |-> source, seen |-> catalog[source]] /\ SwapSaid
    /\ UNCHANGED <<manager, catalog, native, cache, reload, source, unsaid, session, handler,
                   client, changes, watched>>

ForwardUpdate ==
    /\ forwarder.at = source /\ forwarder.seen # catalog[source]
    /\ forwarder' = [forwarder EXCEPT !.seen = catalog[source]] /\ Announce
    /\ UNCHANGED <<manager, catalog, native, cache, reload, source, unsaid, session, handler,
                   client, changes, watched>>

-----------------------------------------------------------------------------
(* The first listing of the terminal, when it starts, needs no event. *)
TerminalStarts ==
    /\ watched = "terminal" /\ terminal.call.step = "idle" /\ terminal.shows = Nothing
    /\ terminal' = [terminal EXCEPT !.call = Started]
    /\ UNCHANGED <<providerVars, cache, agent, session, handler, client>>

(* Another client lists the models meanwhile: all it leaves behind is the cache. *)
SomeoneLists ==
    /\ cache' = CacheAfter(Started) /\ cache' # cache
    /\ UNCHANGED <<providerVars, terminal, agent, session, handler, client>>

(* The terminal: one request at a time, in the order of the events. *)
TerminalAsks ==
    /\ terminal.events > 0 /\ terminal.call.step = "idle"
    /\ terminal' = [terminal EXCEPT !.events = @ - 1, !.call = Started]
    /\ UNCHANGED <<providerVars, cache, agent, session, handler, client>>

TerminalShows ==
    /\ terminal.call.step = "read"
    /\ cache' = CacheAfter(terminal.call)
    /\ terminal' = [terminal EXCEPT !.call = Idle, !.shows = Listed(terminal.call)]
    /\ UNCHANGED <<providerVars, agent, session, handler, client>>

-----------------------------------------------------------------------------
(* The agent's updater. *)
UpdaterWakes ==
    /\ agent.step = "wait" /\ (agent.wake \/ agent.events)
    /\ \/ agent.wake /\ agent' = [agent EXCEPT !.wake = FALSE, !.events = FALSE, !.step = "collect"]
       \/ agent.events /\ agent' = [agent EXCEPT !.events = FALSE, !.step = "collect"]
    /\ UNCHANGED <<providerVars, cache, terminal, session, handler, client>>

UpdaterCollects ==
    /\ agent.step = "collect"
    /\ agent' = IF session.ready
                THEN [agent EXCEPT !.step = "list", !.generation = session.generation]
                ELSE [agent EXCEPT !.step = "wait"]
    /\ UNCHANGED <<providerVars, cache, terminal, session, handler, client>>

UpdaterAsks ==
    /\ agent.step = "list" /\ agent.call.step = "idle"
    /\ agent' = [agent EXCEPT !.call = Started]
    /\ UNCHANGED <<providerVars, cache, terminal, session, handler, client>>

UpdaterLists ==
    /\ agent.call.step = "read"
    /\ cache' = CacheAfter(agent.call)
    /\ agent' = [agent EXCEPT !.call = Idle, !.models = Listed(agent.call), !.step = "publish"]
    /\ UNCHANGED <<providerVars, terminal, session, handler, client>>

(* A session whose configuration is locked, or was published meanwhile, is left to the one who
   did it: it wakes the updater again. *)
Unchanged == session.lock = "free" /\ session.generation = agent.generation

UpdaterPublishes ==
    /\ agent.step = "publish"
    /\ LET config == [models |-> agent.models, setting |-> session.setting]
       IN IF Unchanged /\ session.published # config
          THEN session' = [session EXCEPT !.published = config] /\ client' = config
          ELSE UNCHANGED <<session, client>>
    /\ agent' = [agent EXCEPT !.step = "wait", !.models = Nothing, !.generation = 0]
    /\ UNCHANGED <<providerVars, cache, terminal, handler>>

-----------------------------------------------------------------------------
(* A request that creates the session or changes one of its settings. *)
HandlerLocks ==
    /\ watched = "agent" /\ handler.step = "idle" /\ session.lock = "free" /\ Change
    /\ session' = [session EXCEPT !.lock = "handler"]
    /\ handler' = [handler EXCEPT !.step = "locked"]
    /\ UNCHANGED <<manager, catalog, native, reload, source, forwarder, unsaid, watched, cache,
                   terminal, agent, client>>

HandlerStores ==
    /\ handler.step = "locked"
    /\ session' = [session EXCEPT !.setting = IF session.ready THEN @ + 1 ELSE @]
    /\ handler' = [handler EXCEPT !.step = "stored"]
    /\ UNCHANGED <<providerVars, cache, terminal, agent, client>>

HandlerAsks ==
    /\ handler.step = "stored" /\ handler.call.step = "idle"
    /\ handler' = [handler EXCEPT !.call = Started]
    /\ UNCHANGED <<providerVars, cache, terminal, agent, session, client>>

(* The configuration is published, sent, and the session is ready ... *)
HandlerPublishes ==
    /\ handler.call.step = "read"
    /\ cache' = CacheAfter(handler.call)
    /\ LET config == [models |-> Listed(handler.call), setting |-> session.setting]
       IN session' = [session EXCEPT !.published = config, !.ready = TRUE] /\ client' = config
    /\ handler' = [handler EXCEPT !.step = "drop", !.call = Idle]
    /\ UNCHANGED <<providerVars, terminal, agent>>

(* ... or an error is answered after the setting was stored. *)
HandlerFails ==
    /\ handler.step = "stored" /\ session.ready
    /\ handler' = [handler EXCEPT !.step = "drop", !.call = Idle]
    /\ UNCHANGED <<providerVars, cache, terminal, agent, session, client>>

(* Publication's drop: the generation, then the lock, then the updater is woken. *)
DropOrderWakeFirst == <<"generation", "wake", "lock">>
DropOrder == <<"generation", "lock", "wake">>

HandlerDrops ==
    /\ handler.step = "drop"
    /\ LET what == DropOrder[handler.dropped + 1]
       IN /\ session' = CASE what = "generation" -> [session EXCEPT !.generation = @ + 1]
                          [] what = "lock"       -> [session EXCEPT !.lock = "free"]
                          [] OTHER               -> session
          /\ agent' = IF what = "wake" THEN [agent EXCEPT !.wake = TRUE] ELSE agent
    /\ handler' = IF handler.dropped = 2 THEN [handler EXCEPT !.step = "idle", !.dropped = 0]
                                         ELSE [handler EXCEPT !.dropped = @ + 1]
    /\ UNCHANGED <<providerVars, cache, terminal, client>>

Next ==
    \/ ReplaceCatalog \/ InstallList \/ SayInstalled
    \/ SetProviders \/ SyncLists \/ SwapCatalog \/ ReloadEnds \/ ForwardSwap \/ ForwardUpdate
    \/ TerminalStarts \/ SomeoneLists \/ TerminalAsks \/ TerminalShows
    \/ UpdaterWakes \/ UpdaterCollects \/ UpdaterAsks \/ UpdaterLists \/ UpdaterPublishes
    \/ HandlerLocks \/ HandlerStores \/ HandlerAsks \/ HandlerPublishes \/ HandlerFails
    \/ HandlerDrops

Spec == Init /\ [][Next]_shownVars

-----------------------------------------------------------------------------
ShownTypeOK ==
    /\ manager \in Managers /\ source \in Managers /\ \A m \in Managers : catalog[m] \in Nat
    /\ reload \in {"none", "providers", "synced", "failed"} /\ unsaid \in Nat
    /\ session.lock \in {"free", "handler"} /\ session.generation \in Nat
    /\ agent.step \in {"wait", "collect", "list", "publish"}

Announced == /\ reload = "none" /\ unsaid = 0
             /\ forwarder = [at |-> manager, seen |-> catalog[manager]]

(* Once everything is announced and asked for, the terminal shows the models of the provider     *)
(* manager in use, resolved with its catalog, whatever was replaced while they were listed.      *)
TerminalSettles ==
    Announced /\ terminal.events = 0 /\ terminal.call = Idle /\ terminal.shows # Nothing
       => terminal.shows = Resolved(manager)

(* And an ACP client was last sent the current models and the stored setting, although the       *)
(* updater skips a session that a request is publishing, and a request may fail half-way.        *)
ClientSettles ==
    /\ Announced /\ session.ready /\ handler.step = "idle"
    /\ ~agent.events /\ ~agent.wake /\ agent.step = "wait"
    => client = [models |-> Resolved(manager), setting |-> session.setting]
=============================================================================
