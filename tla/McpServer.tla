----------------------------- MODULE McpServer ------------------------------
(***************************************************************************)
(* One MCP server as a runtime uses it (kraai-mcp Server): a connection    *)
(* made when it is needed, a cached tool catalog and the notifications     *)
(* that make it stale.  Several tasks ask for the catalog or call tools at *)
(* once; a sign-in or a sign-out drops the connection under them.  The     *)
(* protocol library and the server itself are external.                    *)
(***************************************************************************)
EXTENDS Naturals, FiniteSets

CONSTANTS
    Tasks,            \* tasks of the runtime that use the server
    MaxConnections,   \* connections made (bound)
    MaxVersions,      \* changes of the server's tools (bound)
    MaxCalls          \* tool calls made (bound)

VARIABLES
    peer,       \* State.connection: the number of the connection, 0 for none
    open,       \* connections whose transport is not closed
    doomed,     \* connections taken from the state whose cancellation is still to be made
    made,       \* connections made so far
    generation, \* the shared counter
    catalog,    \* State.tools, expires and catalog_generation
    failures,   \* State.failure and State.catalog_failure, while they last
    mutex,      \* the task that holds State across an await
    task,       \* what each task does
    version,    \* the tools the server has
    notices,    \* list-changed notifications on their way, by connection
    calls,      \* the calls the server knows: running, answered or cancelled, and what became
                \* of the notice that the caller is gone: none, due, over, or never to be sent
    misled      \* ghost: the catalog was listed on a connection already replaced

serverVars == <<peer, open, doomed, made, generation, catalog, failures, mutex, task, version,
                notices, calls, misled>>

NoTask == "none"
ASSUME NoTaskAssumption == NoTask \notin Tasks

Unasked == [at |-> "idle"]
NoCatalog == [version |-> 0, generation |-> 0, valid |-> FALSE]

ServerInit ==
    /\ peer = 0 /\ open = {} /\ doomed = {} /\ made = 0 /\ generation = 1
    /\ catalog = NoCatalog /\ failures = {} /\ mutex = NoTask
    /\ task = [t \in Tasks |-> Unasked] /\ version = 1 /\ notices = {} /\ calls = << >>
    /\ misled = FALSE

StateFree == mutex = NoTask
Goes(t, next) == task' = [task EXCEPT ![t] = next]
Connected == peer # 0 /\ peer \in open

-----------------------------------------------------------------------------
(* Server::peer: reuse the connection, refuse for ten seconds after a failure, or connect. *)

Asks(t, for) ==
    /\ task[t] = Unasked /\ StateFree
    /\ \/ Connected /\ Goes(t, [at |-> "peer", for |-> for, on |-> peer])
          /\ UNCHANGED <<peer, mutex, generation, made>>
       \/ /\ ~Connected /\ "connect" \notin failures /\ made < MaxConnections
          /\ peer' = 0 /\ generation' = generation + 1 /\ made' = made + 1
          /\ mutex' = t /\ Goes(t, [at |-> "connecting", for |-> for, on |-> made + 1])
    /\ UNCHANGED <<open, doomed, catalog, failures, version, notices, calls, misled>>

Connects(t) ==
    /\ task[t].at = "connecting" /\ mutex' = NoTask
    /\ \/ /\ peer' = task[t].on /\ open' = open \cup {task[t].on} /\ failures' = {}
          /\ Goes(t, [task[t] EXCEPT !.at = "peer"])
       \/ /\ failures' = failures \cup {"connect"} /\ Goes(t, Unasked) /\ UNCHANGED <<peer, open>>
    /\ UNCHANGED <<doomed, made, generation, catalog, version, notices, calls, misled>>

-----------------------------------------------------------------------------
(* Server::tools. *)

\* Mutant: the counter is read once the list has been fetched.
CatalogGenerationLate(t) == generation
\* The generation the listing began in.
CatalogGeneration(t) == task[t].generation

Cached == catalog.valid /\ catalog.generation = generation

\* The catalog is served from the cache or listed anew, unless listing failed lately.
Tools(t) ==
    /\ task[t].at = "peer" /\ task[t].for = "tools" /\ StateFree
    /\ IF Cached \/ "list" \in failures
       THEN Goes(t, Unasked) /\ UNCHANGED mutex
       ELSE /\ mutex' = t
            /\ Goes(t, [at |-> "listing", on |-> task[t].on, generation |-> generation])
    /\ UNCHANGED <<peer, open, doomed, made, generation, catalog, failures, version, notices,
                   calls, misled>>

Lists(t) ==
    /\ task[t].at = "listing" /\ task[t].on \in open
    /\ Goes(t, [at |-> "listed", on |-> task[t].on, generation |-> task[t].generation,
                version |-> version])
    /\ UNCHANGED <<peer, open, doomed, made, generation, catalog, failures, mutex, version,
                   notices, calls, misled>>

Keeps(t) ==
    /\ task[t].at = "listed" /\ mutex' = NoTask /\ Goes(t, Unasked)
    /\ catalog' = [version |-> task[t].version, generation |-> CatalogGeneration(t), valid |-> TRUE]
    /\ misled' = (task[t].on # peer) /\ failures' = failures \ {"list"}
    /\ UNCHANGED <<peer, open, doomed, made, generation, version, notices, calls>>

\* A closed transport, a server error, a duplicate name, a limit or the timeout.
ListFails(t) ==
    /\ task[t].at = "listing" /\ mutex' = NoTask /\ Goes(t, Unasked)
    /\ failures' = failures \cup {"list"}
    /\ UNCHANGED <<peer, open, doomed, made, generation, catalog, version, notices, calls, misled>>

Expires == /\ catalog.valid /\ catalog' = [catalog EXCEPT !.valid = FALSE]
           /\ UNCHANGED <<peer, open, doomed, made, generation, failures, mutex, task, version,
                          notices, calls, misled>>

BackoffEnds == /\ failures # {} /\ \E f \in failures : failures' = failures \ {f}
               /\ UNCHANGED <<peer, open, doomed, made, generation, catalog, mutex, task, version,
                              notices, calls, misled>>

-----------------------------------------------------------------------------
(* Server::call, and CancelOnDrop when the script that made it is stopped. A stopped script    *)
(* drops the call wherever it waits.                                                            *)

Calls(t) ==
    /\ task[t].at = "peer" /\ task[t].for = "call" /\ Cardinality(DOMAIN calls) < MaxCalls
    /\ IF task[t].on \in open
       THEN LET c == Cardinality(DOMAIN calls) + 1
                k == [on |-> task[t].on, at |-> "running", notice |-> "none"]
            IN /\ calls' = [i \in 1..c |-> IF i = c THEN k ELSE calls[i]]
               /\ Goes(t, [at |-> "sending", call |-> c])
       ELSE Goes(t, Unasked) /\ UNCHANGED calls
    /\ UNCHANGED <<peer, open, doomed, made, generation, catalog, failures, mutex, version,
                   notices, misled>>

\* The request is on its way: from here on a drop of the call is noticed.
Sent(t) ==
    /\ task[t].at = "sending" /\ Goes(t, [task[t] EXCEPT !.at = "calling"])
    /\ UNCHANGED <<peer, open, doomed, made, generation, catalog, failures, mutex, version,
                   notices, calls, misled>>

\* Stopped, or failed, before that: nobody will tell a server that has the request.
Unsent(t) ==
    /\ task[t].at = "sending" /\ Goes(t, Unasked)
    /\ calls' = [calls EXCEPT ![task[t].call].notice = "never"]
    /\ UNCHANGED <<peer, open, doomed, made, generation, catalog, failures, mutex, version,
                   notices, misled>>

\* The answer, the timeout (the library tells the server itself), or the end of the connection:
\* not retried.
CallEnds(t) ==
    /\ task[t].at = "calling" /\ Goes(t, Unasked)
    /\ \/ calls[task[t].call].on \in open /\ calls' = [calls EXCEPT ![task[t].call].at = "answered"]
       \/ calls' = [calls EXCEPT ![task[t].call].notice = "over"]
       \/ calls[task[t].call].on \notin open /\ UNCHANGED calls
    /\ UNCHANGED <<peer, open, doomed, made, generation, catalog, failures, mutex, version,
                   notices, misled>>

\* Mutant: a dropped call leaves the server working on it.
AfterDropForgotten(k) == k
\* The drop spawns a task that is to tell the server.
AfterDrop(k) == [k EXCEPT !.notice = "due"]

Dropped(t) ==
    /\ task[t].at = "calling" /\ Goes(t, Unasked)
    /\ calls' = [calls EXCEPT ![task[t].call] = AfterDrop(@)]
    /\ UNCHANGED <<peer, open, doomed, made, generation, catalog, failures, mutex, version,
                   notices, misled>>

\* The notice arrives, or is given up after a second or an error, which nobody hears of.
NoticeEnds(c) ==
    /\ calls[c].notice = "due"
    /\ \/ calls' = [calls EXCEPT ![c].notice = "over"]
       \/ /\ calls[c].at = "running" /\ calls[c].on \in open
          /\ calls' = [calls EXCEPT ![c].notice = "over", ![c].at = "cancelled"]
    /\ UNCHANGED <<peer, open, doomed, made, generation, catalog, failures, mutex, task, version,
                   notices, misled>>

\* The server finishes a call that nobody waits for.
EndsUnheard(c) ==
    /\ calls[c].at = "running" /\ calls[c].on \in open /\ calls[c].notice # "none"
    /\ calls' = [calls EXCEPT ![c].at = "answered"]
    /\ UNCHANGED <<peer, open, doomed, made, generation, catalog, failures, mutex, task, version,
                   notices, misled>>

-----------------------------------------------------------------------------
(* Server::invalidate, on a sign-in, a sign-out or the shutdown: the state is reset under the  *)
(* lock and the connection cancelled after it.                                                 *)

Invalidate ==
    /\ StateFree /\ peer # 0
    /\ doomed' = doomed \cup {peer} /\ peer' = 0 /\ catalog' = NoCatalog /\ failures' = {}
    /\ generation' = generation + 1
    /\ UNCHANGED <<open, made, mutex, task, version, notices, calls, misled>>

CancelConnection(c) ==
    /\ c \in doomed /\ doomed' = doomed \ {c} /\ open' = open \ {c}
    /\ notices' = notices \ {c}
    /\ UNCHANGED <<peer, made, generation, catalog, failures, mutex, task, version, calls, misled>>

-----------------------------------------------------------------------------
(* The server: it changes its tools and notifies, or goes away. *)

ToolsChange ==
    /\ version < MaxVersions /\ version' = version + 1 /\ notices' = notices \cup open
    /\ UNCHANGED <<peer, open, doomed, made, generation, catalog, failures, mutex, task, calls,
                   misled>>

\* Handler::on_tool_list_changed
ToolListChanged(c) ==
    /\ c \in notices /\ notices' = notices \ {c} /\ generation' = generation + 1
    /\ UNCHANGED <<peer, open, doomed, made, catalog, failures, mutex, task, version, calls,
                   misled>>

TransportCloses ==
    /\ Connected /\ open' = open \ {peer} /\ notices' = notices \ {peer}
    /\ UNCHANGED <<peer, doomed, made, generation, catalog, failures, mutex, task, version, calls,
                   misled>>

ServerNext ==
    \/ \E t \in Tasks : \/ \E for \in {"tools", "call"} : Asks(t, for)
                        \/ Connects(t) \/ Tools(t) \/ Lists(t) \/ Keeps(t) \/ ListFails(t)
                        \/ Calls(t) \/ Sent(t) \/ Unsent(t) \/ CallEnds(t) \/ Dropped(t)
    \/ \E c \in DOMAIN calls : NoticeEnds(c) \/ EndsUnheard(c)
    \/ Expires \/ BackoffEnds \/ Invalidate \/ ToolsChange \/ TransportCloses
    \/ \E c \in open \cup doomed : CancelConnection(c) \/ ToolListChanged(c)

ServerSpec == ServerInit /\ [][ServerNext]_serverVars

-----------------------------------------------------------------------------
ServerTypeOK ==
    /\ peer \in 0..made /\ open \subseteq 1..made /\ doomed \subseteq 1..made
    /\ mutex \in Tasks \cup {NoTask} /\ catalog.version \in 0..MaxVersions

\* A cached catalog that would be served lists the tools the server has now, once every
\* notification has been handled: a change during a listing, a reconnection or a sign-in is
\* never hidden by the cache.  The exception is a listing over a connection already replaced.
CatalogFresh ==
    Connected /\ Cached /\ peer \notin notices /\ ~misled => catalog.version = version

Waits(t, c) == task[t].at \in {"sending", "calling"} /\ task[t].call = c

\* A call left running on a live connection is waited for, or a notice was spawned to tell the
\* server, unless its script was stopped before the request was sent; and a server is never
\* told that a call is cancelled which a task still waits for.  The notice is only tried: that
\* the server gets it, or stops, is not claimed.
CallsAccounted ==
    \A c \in DOMAIN calls :
        LET waited == \E t \in Tasks : Waits(t, c)
        IN /\ calls[c].at = "running" /\ calls[c].on \in open /\ calls[c].notice = "none" => waited
           /\ waited => calls[c].notice = "none" /\ calls[c].at = "running"

\* The two together: what a task may rely on of the server's connection (Server::tools,
\* Server::call, Server::invalidate).
ServersSound == CatalogFresh /\ CallsAccounted
=============================================================================
