--------------------------- MODULE McpCredentials ---------------------------
(***************************************************************************)
(* The OAuth credentials of one MCP server, kept in a file that several    *)
(* runtimes share under a file lock.  A sign-in or a sign-out starts a new *)
(* generation of the file; a sign-in, a client's token refresh and a       *)
(* dynamic registration write only into the generation they began in.  A   *)
(* commit that is under way when its caller is cancelled still happens.    *)
(* Token handling inside the OAuth library is external: it takes the       *)
(* store's refresh guard, reloads, refreshes and saves.                    *)
(***************************************************************************)
EXTENDS Naturals

CONSTANTS
    Sharers,          \* runtimes that share the file
    MaxResets,        \* sign-ins and sign-outs (bound)
    MaxTokens         \* tokens the server issues (bound)

VARIABLES
    kept,        \* generation, token and registration secret (with the generation of their writer)
    fileLock,    \* the holder of the file lock: a runtime and what it holds it for
    login,       \* the sign-in or sign-out under way in each runtime
    status,      \* the McpAuthState each runtime publishes
    client,      \* the connection's store generation in each runtime
    renewal,     \* the token task of each runtime
    gated,       \* whether each runtime's token gate is closed
    refused,     \* tokens the server no longer accepts
    given,       \* tokens issued
    mine,        \* ghost: the generation of each runtime's sign-in, once completed
    abandoned    \* ghost: runtimes whose attempt was stopped without a new status

credentialsVars ==
    <<kept, fileLock, login, status, client, renewal, gated, refused, given, mine, abandoned>>

Nothing == [generation |-> 0, number |-> 0]
NoHolder == << >>
Quiet == [at |-> "none"]

McpInit ==
    /\ kept = [generation |-> 0, token |-> Nothing, secret |-> 0]
    /\ fileLock = NoHolder
    /\ login = [p \in Sharers |-> Quiet] /\ renewal = [p \in Sharers |-> Quiet]
    /\ status = [p \in Sharers |-> "SignedOut"] /\ client = [p \in Sharers |-> Quiet]
    /\ gated = [p \in Sharers |-> FALSE] /\ refused = {} /\ given = 0
    /\ mine = [p \in Sharers |-> 0] /\ abandoned = {}

Holds(p, what) == fileLock = <<p, what>>
Say(p, state) == status' = [status EXCEPT ![p] = state]
InGeneration(g) == kept.generation = g
\* Dropping a task that holds the lock for an exchange releases it; a commit keeps it.
LockAfterStop(p) == IF Holds(p, "exchange") THEN NoHolder ELSE fileLock

-----------------------------------------------------------------------------
(* FileStore::reset, in a blocking task that outlives its caller. *)

Resetting(p) == login[p].at \in {"reset", "signingOut"}

BeginReset(p) ==
    /\ Resetting(p) /\ fileLock = NoHolder /\ kept.generation < MaxResets
    /\ fileLock' = <<p, "reset">>
    /\ UNCHANGED <<kept, login, status, client, renewal, gated, refused, given, mine, abandoned>>

\* The connection is dropped, and the sign-in goes on with its generation or the sign-out is told.
CommitReset(p) ==
    /\ Holds(p, "reset") /\ fileLock' = NoHolder
    /\ kept' = [generation |-> kept.generation + 1, token |-> Nothing, secret |-> 0]
    /\ CASE login[p].at = "reset" ->
              login' = [login EXCEPT ![p] = [at |-> "discovering", generation |-> kept'.generation]]
              /\ client' = [client EXCEPT ![p] = Quiet] /\ UNCHANGED status
         [] login[p].at = "signingOut" ->
              login' = [login EXCEPT ![p] = Quiet] /\ Say(p, "SignedOut")
              /\ client' = [client EXCEPT ![p] = Quiet]
         [] OTHER -> UNCHANGED <<login, client, status>>
    /\ UNCHANGED <<renewal, gated, refused, given, mine, abandoned>>

-----------------------------------------------------------------------------
(* Auth::start, login and cancel. *)

\* A new sign-in first stops the one under way.
StartSignIn(p) ==
    /\ ~gated[p] /\ login[p].at # "signingOut" /\ kept.generation < MaxResets
    /\ login' = [login EXCEPT ![p] = [at |-> "reset"]]
    /\ fileLock' = LockAfterStop(p) /\ Say(p, "Starting")
    /\ abandoned' = abandoned \ {p} /\ mine' = [mine EXCEPT ![p] = 0]
    /\ UNCHANGED <<kept, client, renewal, gated, refused, given>>

\* Discovery, with a dynamic registration that saves its secret, or without.
Discovered(p) ==
    /\ login[p].at = "discovering" /\ fileLock = NoHolder
    /\ \/ InGeneration(login[p].generation)
          /\ kept' = [kept EXCEPT !.secret = login[p].generation]
       \/ UNCHANGED kept
    /\ login' = [login EXCEPT ![p].at = "pending"] /\ Say(p, "Pending")
    /\ UNCHANGED <<fileLock, client, renewal, gated, refused, given, mine, abandoned>>

\* The browser comes back with the expected state; others are answered and ignored.
SignInCallback(p) ==
    /\ login[p].at = "pending" /\ fileLock = NoHolder
    /\ fileLock' = <<p, "exchange">> /\ login' = [login EXCEPT ![p].at = "exchanging"]
    /\ UNCHANGED <<kept, status, client, renewal, gated, refused, given, mine, abandoned>>

\* Mutant: credentials are saved into whatever generation the file has now.
SaveAllowedAlways(g) == TRUE
\* FileStore::save
SaveAllowed(g) == InGeneration(g)

NewToken(g) == [generation |-> g, number |-> given + 1]

Exchanged(p) ==
    /\ login[p].at = "exchanging" /\ given < MaxTokens
    /\ given' = given + 1 /\ fileLock' = NoHolder
    /\ login' = [login EXCEPT ![p] = Quiet] /\ client' = [client EXCEPT ![p] = Quiet]
    /\ IF SaveAllowed(login[p].generation)
       THEN /\ kept' = [kept EXCEPT !.token = NewToken(login[p].generation)]
            /\ mine' = [mine EXCEPT ![p] = login[p].generation] /\ Say(p, "Authenticated")
       ELSE UNCHANGED <<kept, mine>> /\ Say(p, "SignedOut")
    /\ UNCHANGED <<renewal, gated, refused, abandoned>>

\* A timeout, a refusal, a lock that cannot be had or a file of another generation.
SignInFails(p) ==
    /\ login[p].at \in {"reset", "discovering", "pending", "exchanging"} /\ ~Holds(p, "reset")
    /\ login' = [login EXCEPT ![p] = Quiet] /\ fileLock' = LockAfterStop(p)
    /\ client' = [client EXCEPT ![p] = Quiet] /\ Say(p, "SignedOut")
    /\ UNCHANGED <<kept, renewal, gated, refused, given, mine, abandoned>>

\* cancel(false) does nothing when no attempt is under way; cancel(true) always signs out.
Cancel(p, logout) ==
    /\ login[p].at \notin {"signingOut", "stopped"}
    /\ logout \/ login[p] # Quiet
    /\ login' = [login EXCEPT ![p] = [at |-> "signingOut"]]
    /\ fileLock' = LockAfterStop(p) /\ mine' = [mine EXCEPT ![p] = 0]
    /\ UNCHANGED <<kept, status, client, renewal, gated, refused, given, abandoned>>

\* The lock could not be had in time: an error is returned and nothing is published.
CancelFails(p) ==
    /\ login[p].at = "signingOut" /\ ~Holds(p, "reset")
    /\ login' = [login EXCEPT ![p] = Quiet] /\ abandoned' = abandoned \cup {p}
    /\ UNCHANGED <<kept, fileLock, status, client, renewal, gated, refused, given, mine>>

-----------------------------------------------------------------------------
(* The client of a connection: Auth::client, OAuthClient::token and checked. *)

\* The store remembers the generation it was opened in.
OpenClient(p) ==
    /\ client[p] = Quiet /\ ~gated[p] /\ kept.token # Nothing
    /\ client' = [client EXCEPT ![p] = [at |-> "opening", generation |-> kept.generation]]
    /\ UNCHANGED <<kept, fileLock, login, status, renewal, gated, refused, given, mine, abandoned>>

\* A file that moved on since is told as a sign-out, also while a sign-in is under way.
ClientOpened(p) ==
    /\ client[p].at = "opening" /\ fileLock = NoHolder
    /\ IF InGeneration(client[p].generation) /\ kept.token # Nothing
       THEN client' = [client EXCEPT ![p].at = "open"] /\ UNCHANGED status
       ELSE client' = [client EXCEPT ![p] = Quiet] /\ Say(p, "SignedOut")
    /\ UNCHANGED <<kept, fileLock, login, renewal, gated, refused, given, mine, abandoned>>

\* Mutant: a token task is started after the shutdown closed the gate.
GateOpenAlways(p) == TRUE
GateOpen(p) == ~gated[p]

\* A request asks for a token in a task that a cancelled request does not stop.
AskToken(p) ==
    /\ client[p].at = "open" /\ renewal[p] = Quiet /\ GateOpen(p) /\ fileLock = NoHolder
    /\ fileLock' = <<p, "refresh">>
    /\ renewal' = [renewal EXCEPT ![p] = [at |-> "locked", generation |-> client[p].generation]]
    /\ UNCHANGED <<kept, login, status, client, gated, refused, given, mine, abandoned>>

\* Mutant: a refusal of an old connection's token signs the runtime out.
RequiredAppliesAlways(p, g) == status[p] \notin {"Starting", "Pending"}
\* Auth::required
RequiredApplies(p, g) == status[p] \notin {"Starting", "Pending"} /\ InGeneration(g)

Required(p, g) == IF RequiredApplies(p, g) THEN Say(p, "SignedOut") ELSE UNCHANGED status

\* The token is used as it is, refreshed and saved, or found to be revoked; the request that
\* asked for it hears of that later, perhaps on a connection that has been replaced.
TokenTask(p) ==
    /\ renewal[p].at = "locked" /\ fileLock' = NoHolder
    /\ LET g == renewal[p].generation IN
       \/ renewal' = [renewal EXCEPT ![p] = Quiet] /\ UNCHANGED <<kept, given>>
       \/ /\ InGeneration(g) /\ kept.token # Nothing /\ kept.token \notin refused
          /\ given < MaxTokens /\ SaveAllowed(g)
          /\ kept' = [kept EXCEPT !.token = NewToken(g)] /\ given' = given + 1
          /\ renewal' = [renewal EXCEPT ![p] = Quiet]
       \/ /\ kept.token \in refused /\ renewal' = [renewal EXCEPT ![p].at = "refused"]
          /\ UNCHANGED <<kept, given>>
    /\ UNCHANGED <<login, status, client, gated, refused, mine, abandoned>>

TokenRefused(p) ==
    /\ renewal[p].at = "refused"
    /\ Required(p, renewal[p].generation) /\ renewal' = [renewal EXCEPT ![p] = Quiet]
    /\ UNCHANGED <<kept, fileLock, login, client, gated, refused, given, mine, abandoned>>

\* The server asks for a sign-in in its answer to a request of the connection.
Checked(p) ==
    /\ client[p].at = "open"
    /\ \E t \in refused : t.generation = client[p].generation
    /\ Required(p, client[p].generation)
    /\ UNCHANGED <<kept, fileLock, login, client, renewal, gated, refused, given, mine, abandoned>>

ServerRefuses ==
    /\ kept.token # Nothing /\ refused' = refused \cup {kept.token}
    /\ UNCHANGED <<kept, fileLock, login, status, client, renewal, gated, given, mine, abandoned>>

\* Shutdown stops the sign-in, closes the gate and then waits for the token task; the
\* connection is dropped after that.
Shutdown(p) ==
    /\ ~gated[p] /\ login[p].at # "signingOut"
    /\ gated' = [gated EXCEPT ![p] = TRUE] /\ login' = [login EXCEPT ![p] = Quiet]
    /\ fileLock' = LockAfterStop(p) /\ abandoned' = abandoned \cup {p}
    /\ UNCHANGED <<kept, status, client, renewal, refused, given, mine>>

ShutdownDone(p) ==
    /\ gated[p] /\ renewal[p].at # "locked" /\ login[p] = Quiet
    /\ login' = [login EXCEPT ![p] = [at |-> "stopped"]]
    /\ UNCHANGED <<kept, fileLock, status, client, renewal, gated, refused, given, mine, abandoned>>

McpNext ==
    \/ \E p \in Sharers :
          \/ BeginReset(p) \/ CommitReset(p) \/ StartSignIn(p) \/ Discovered(p) \/ SignInCallback(p)
          \/ Exchanged(p) \/ SignInFails(p) \/ Cancel(p, TRUE) \/ Cancel(p, FALSE) \/ CancelFails(p)
          \/ OpenClient(p) \/ ClientOpened(p) \/ AskToken(p) \/ TokenTask(p) \/ TokenRefused(p)
          \/ Checked(p)
          \/ Shutdown(p) \/ ShutdownDone(p)
    \/ ServerRefuses

McpSpec == McpInit /\ [][McpNext]_credentialsVars

-----------------------------------------------------------------------------
CredentialsTypeOK ==
    /\ kept.generation \in 0..MaxResets /\ given \in 0..MaxTokens
    /\ fileLock \in {NoHolder} \cup (Sharers \X {"reset", "exchange", "refresh"})
    /\ \A p \in Sharers : status[p] \in {"SignedOut", "Starting", "Pending", "Authenticated"}

\* A sign-out or a newer sign-in is final: the file never holds a token or a registration secret
\* that an earlier sign-in, or a refresh for an earlier connection, in any runtime, wrote.
CredentialsCurrent ==
    /\ kept.token # Nothing => kept.token.generation = kept.generation
    /\ kept.secret \in {0, kept.generation}

\* What a runtime shows of its sign-in is true: after its own sign-in it shows it until it starts
\* another or signs out, the file moves on or the server refuses a token of it, and one in
\* progress has an attempt under way.  The exceptions are an attempt stopped by a cancellation
\* that then could not reset the file, and one stopped by the shutdown.
SignInShown == \A p \in Sharers :
    /\ /\ login[p] = Quiet /\ mine[p] = kept.generation /\ kept.token # Nothing
       /\ \A t \in refused : t.generation # kept.generation
       => status[p] = "Authenticated"
    /\ status[p] \in {"Starting", "Pending"} /\ p \notin abandoned => login[p] # Quiet

\* A runtime whose shutdown has finished has no token task left that could still write the file.
QuietAfterShutdown == \A p \in Sharers : login[p].at = "stopped" => renewal[p].at # "locked"

\* The three together: what runtimes that share one file of MCP credentials promise
\* (FileStore::save, the status of a sign-in, the shutdown).
McpCredentialsSound == CredentialsCurrent /\ SignInShown /\ QuietAfterShutdown
=============================================================================
