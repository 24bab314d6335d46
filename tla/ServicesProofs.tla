---------------------------- MODULE ServicesProofs ---------------------------
(***************************************************************************)
(* The properties of the services a turn depends on, for any number of     *)
(* runtimes, tasks and requests and any limits: the credentials of an MCP  *)
(* server (McpCredentials), its connection and catalog (McpServer), a      *)
(* sign-in to it from the terminal (McpSignIn), and the requests sent to a *)
(* provider (ProviderSend).                                                *)
(***************************************************************************)
EXTENDS McpCredentials, McpServer, ProviderSend, McpSignIn, SequenceTheorems, FiniteSetTheorems, TLAPS

-----------------------------------------------------------------------------
(* MCP credentials: what every step of the runtimes that share the file keeps. *)


TokenSet == [generation : Nat, number : Nat]
LoginState == [at : {"none", "reset", "signingOut", "stopped"}]
              \cup [at : {"discovering", "pending", "exchanging"}, generation : Nat]

Typed ==
    /\ kept \in [generation : Nat, token : TokenSet, secret : Nat]
    /\ given \in Nat /\ refused \subseteq TokenSet
    /\ login \in [Sharers -> LoginState]
    /\ status \in [Sharers -> {"SignedOut", "Starting", "Pending", "Authenticated"}]
    /\ client \in [Sharers -> {Quiet} \cup [at : {"opening", "open"}, generation : Nat]]
    /\ renewal \in [Sharers -> {Quiet} \cup [at : {"locked", "refused"}, generation : Nat]]
    /\ gated \in [Sharers -> BOOLEAN] /\ mine \in [Sharers -> Nat]

\* The first generation holds no token: one is written by a sign-in, which starts another.
FirstIsEmpty == kept.token # Nothing => kept.generation > 0
\* What is remembered of a generation is of one the file has had.
LoginsBehind == \A p \in Sharers :
    login[p].at \in {"discovering", "pending", "exchanging"} =>
        login[p].generation > 0 /\ login[p].generation <= kept.generation
ConnectionsBehind == \A p \in Sharers :
    /\ client[p] # Quiet => client[p].generation <= kept.generation
    /\ renewal[p] # Quiet => renewal[p].generation <= kept.generation
\* A runtime with an attempt under way has no completed one to show, and a completed one of the
\* present generation has left a token in the file.
AttemptsForget == \A p \in Sharers :
    login[p].at \notin {"none", "stopped"} => mine[p] = 0
CompletedHasToken == \A p \in Sharers :
    /\ mine[p] <= kept.generation
    /\ mine[p] > 0 /\ mine[p] = kept.generation => kept.token # Nothing
\* A token task heard of a refusal in its own generation, or that generation is over.
RefusalsOwn == \A p \in Sharers : renewal[p].at = "refused" =>
    \/ renewal[p].generation < kept.generation
    \/ \E t \in refused : t.generation = renewal[p].generation
RefusedAreTokens == Nothing \notin refused
\* A connection is opened in the generation of the last completed sign-in, or in a later one.
OpenedSince == \A p \in Sharers :
    mine[p] > 0 /\ client[p] # Quiet => client[p].generation >= mine[p]
StoppedIsGated == \A p \in Sharers : login[p].at = "stopped" => gated[p]

CredentialsInv ==
    /\ Typed
    /\ CredentialsCurrent /\ FirstIsEmpty /\ LoginsBehind /\ ConnectionsBehind
    /\ AttemptsForget /\ CompletedHasToken /\ RefusalsOwn /\ RefusedAreTokens
    /\ SignInShown
    /\ StoppedIsGated /\ QuietAfterShutdown

(* One lemma for each action: the parts it disturbs one by one, then the others. *)

LEMMA BeginResetKeeps ==
    ASSUME NEW p \in Sharers, CredentialsInv, BeginReset(p) PROVE CredentialsInv'
<1>1. /\ Typed' /\ CredentialsCurrent' /\ FirstIsEmpty' /\ LoginsBehind' /\ ConnectionsBehind'
      /\ AttemptsForget' /\ CompletedHasToken' /\ RefusalsOwn' /\ RefusedAreTokens'
      /\ SignInShown' /\ StoppedIsGated' /\ QuietAfterShutdown'
  BY DEF CredentialsInv, Typed, CredentialsCurrent, FirstIsEmpty, LoginsBehind,
      ConnectionsBehind, AttemptsForget, CompletedHasToken, RefusalsOwn, RefusedAreTokens,
      SignInShown, StoppedIsGated, QuietAfterShutdown, LoginState, Nothing, Quiet, TokenSet,
      BeginReset
<1> QED BY <1>1 DEF CredentialsInv

LEMMA CommitResetKeeps ==
    ASSUME NEW p \in Sharers, CredentialsInv, CommitReset(p) PROVE CredentialsInv'
<1>1. Typed'
  <2>1. /\ kept' = [generation |-> kept.generation + 1, token |-> Nothing, secret |-> 0]
        /\ kept.generation + 1 \in Nat /\ Nothing \in TokenSet
    BY DEF CredentialsInv, Typed, CommitReset, Nothing, TokenSet
  <2>2. /\ [at |-> "discovering", generation |-> kept.generation + 1] \in LoginState
        /\ Quiet \in LoginState
    BY <2>1 DEF LoginState, Quiet
  <2>3. login' \in [Sharers -> LoginState]
    BY <2>1, <2>2 DEF CredentialsInv, Typed, CommitReset
  <2>4. /\ status' \in [Sharers -> {"SignedOut", "Starting", "Pending", "Authenticated"}]
        /\ client' = client \/ client' = [client EXCEPT ![p] = Quiet]
    BY DEF CredentialsInv, Typed, CommitReset, Say
  <2>5. client' \in [Sharers -> {Quiet} \cup [at : {"opening", "open"}, generation : Nat]]
    BY <2>4 DEF CredentialsInv, Typed
  <2>6. UNCHANGED <<renewal, gated, refused, given, mine>>
    BY DEF CommitReset
  <2> QED BY <2>1, <2>3, <2>4, <2>5, <2>6 DEF CredentialsInv, Typed
<1>2. CredentialsCurrent'
  BY DEF CredentialsInv, Typed, CredentialsCurrent, Holds, LoginState, Nothing, Quiet, Say,
      TokenSet, CommitReset
<1>3. FirstIsEmpty'
  BY DEF CredentialsInv, Typed, FirstIsEmpty, Holds, LoginState, Nothing, Quiet, Say, TokenSet,
      CommitReset
<1>4. LoginsBehind'
  BY DEF CredentialsInv, Typed, LoginsBehind, Holds, LoginState, Nothing, Quiet, Say, TokenSet,
      CommitReset
<1>5. ConnectionsBehind'
  BY DEF CredentialsInv, Typed, ConnectionsBehind, Holds, LoginState, Nothing, Quiet, Say,
      TokenSet, CommitReset
<1>6. AttemptsForget'
  BY DEF CredentialsInv, Typed, AttemptsForget, Holds, LoginState, Nothing, Quiet, Say,
      TokenSet, CommitReset
<1>7. CompletedHasToken'
  BY DEF CredentialsInv, Typed, CompletedHasToken, Holds, LoginState, Nothing, Quiet, Say,
      TokenSet, CommitReset
<1>8. RefusalsOwn'
  BY DEF CredentialsInv, Typed, RefusalsOwn, Holds, LoginState, Nothing, Quiet, Say, TokenSet,
      CommitReset
<1>9. SignInShown'
  BY DEF CredentialsInv, Typed, SignInShown, Holds, LoginState, Nothing, Quiet, Say, TokenSet,
      CommitReset
<1>10. StoppedIsGated'
  BY DEF CredentialsInv, Typed, StoppedIsGated, Holds, LoginState, Nothing, Quiet, Say,
      TokenSet, CommitReset
<1>11. QuietAfterShutdown'
  BY DEF CredentialsInv, Typed, QuietAfterShutdown, Holds, LoginState, Nothing, Quiet, Say,
      TokenSet, CommitReset
<1>12. RefusedAreTokens'
  BY DEF CredentialsInv, RefusedAreTokens, Nothing, CommitReset
<1> QED BY <1>1, <1>2, <1>3, <1>4, <1>5, <1>6, <1>7, <1>8,
           <1>9, <1>10, <1>11, <1>12 DEF CredentialsInv

LEMMA StartLoginKeeps ==
    ASSUME NEW p \in Sharers, CredentialsInv, StartSignIn(p) PROVE CredentialsInv'
<1>1. Typed'
  BY DEF CredentialsInv, Typed, Holds, LockAfterStop, LoginState, Quiet, Say, TokenSet,
      StartSignIn
<1>2. LoginsBehind'
  BY DEF CredentialsInv, Typed, LoginsBehind, Holds, LockAfterStop, LoginState, Quiet, Say,
      TokenSet, StartSignIn
<1>3. AttemptsForget'
  BY DEF CredentialsInv, Typed, AttemptsForget, Holds, LockAfterStop, LoginState, Quiet, Say,
      TokenSet, StartSignIn
<1>4. CompletedHasToken'
  BY DEF CredentialsInv, Typed, CompletedHasToken, Holds, LockAfterStop, LoginState, Nothing,
      Quiet, Say, TokenSet, StartSignIn
<1>5. SignInShown'
  BY DEF CredentialsInv, Typed, SignInShown, Holds, LockAfterStop, LoginState, Nothing, Quiet,
      Say, TokenSet, StartSignIn
<1>6. StoppedIsGated'
  BY DEF CredentialsInv, Typed, StoppedIsGated, Holds, LockAfterStop, LoginState, Quiet, Say,
      TokenSet, StartSignIn
<1>7. QuietAfterShutdown'
  BY DEF CredentialsInv, Typed, QuietAfterShutdown, Holds, LockAfterStop, LoginState, Quiet,
      Say, TokenSet, StartSignIn
<1>8. /\ CredentialsCurrent' /\ FirstIsEmpty' /\ ConnectionsBehind' /\ RefusalsOwn'
      /\ RefusedAreTokens'
  BY DEF CredentialsInv, CredentialsCurrent, FirstIsEmpty, ConnectionsBehind, RefusalsOwn,
      RefusedAreTokens, Nothing, Quiet, StartSignIn
<1> QED BY <1>1, <1>2, <1>3, <1>4, <1>5, <1>6, <1>7, <1>8 DEF CredentialsInv

LEMMA DiscoveredKeeps ==
    ASSUME NEW p \in Sharers, CredentialsInv, Discovered(p) PROVE CredentialsInv'
<1>1. Typed'
  BY DEF CredentialsInv, Typed, InGeneration, LoginState, Quiet, Say, TokenSet, Discovered
<1>2. CredentialsCurrent'
  BY DEF CredentialsInv, Typed, CredentialsCurrent, InGeneration, LoginState, Nothing, Quiet,
      Say, TokenSet, Discovered
<1>3. FirstIsEmpty'
  BY DEF CredentialsInv, Typed, FirstIsEmpty, InGeneration, LoginState, Nothing, Quiet, Say,
      TokenSet, Discovered
<1>4. LoginsBehind'
  BY DEF CredentialsInv, Typed, LoginsBehind, InGeneration, LoginState, Quiet, Say, TokenSet,
      Discovered
<1>5. ConnectionsBehind'
  BY DEF CredentialsInv, Typed, ConnectionsBehind, InGeneration, LoginState, Quiet, Say,
      TokenSet, Discovered
<1>6. AttemptsForget'
  BY DEF CredentialsInv, Typed, AttemptsForget, InGeneration, LoginState, Quiet, Say, TokenSet,
      Discovered
<1>7. CompletedHasToken'
  BY DEF CredentialsInv, Typed, CompletedHasToken, InGeneration, LoginState, Nothing, Quiet,
      Say, TokenSet, Discovered
<1>8. RefusalsOwn'
  BY DEF CredentialsInv, Typed, RefusalsOwn, InGeneration, LoginState, Quiet, Say, TokenSet,
      Discovered
<1>9. SignInShown'
  BY DEF CredentialsInv, Typed, SignInShown, InGeneration, LoginState, Nothing, Quiet, Say,
      TokenSet, Discovered
<1>10. StoppedIsGated'
  BY DEF CredentialsInv, Typed, StoppedIsGated, InGeneration, LoginState, Quiet, Say, TokenSet,
      Discovered
<1>11. QuietAfterShutdown'
  BY DEF CredentialsInv, Typed, QuietAfterShutdown, InGeneration, LoginState, Quiet, Say,
      TokenSet, Discovered
<1>12. RefusedAreTokens'
  BY DEF CredentialsInv, RefusedAreTokens, Nothing, Discovered
<1> QED BY <1>1, <1>2, <1>3, <1>4, <1>5, <1>6, <1>7, <1>8,
           <1>9, <1>10, <1>11, <1>12 DEF CredentialsInv

LEMMA CallbackKeeps ==
    ASSUME NEW p \in Sharers, CredentialsInv, SignInCallback(p) PROVE CredentialsInv'
<1>1. Typed'
  BY DEF CredentialsInv, Typed, LoginState, Quiet, TokenSet, SignInCallback
<1>2. LoginsBehind'
  BY DEF CredentialsInv, Typed, LoginsBehind, LoginState, Quiet, TokenSet, SignInCallback
<1>3. AttemptsForget'
  BY DEF CredentialsInv, Typed, AttemptsForget, LoginState, Quiet, TokenSet, SignInCallback
<1>4. SignInShown'
  BY DEF CredentialsInv, Typed, SignInShown, LoginState, Nothing, Quiet, TokenSet, SignInCallback
<1>5. StoppedIsGated'
  BY DEF CredentialsInv, Typed, StoppedIsGated, LoginState, Quiet, TokenSet, SignInCallback
<1>6. QuietAfterShutdown'
  BY DEF CredentialsInv, Typed, QuietAfterShutdown, LoginState, Quiet, TokenSet, SignInCallback
<1>7. /\ CredentialsCurrent' /\ FirstIsEmpty' /\ ConnectionsBehind' /\ CompletedHasToken'
      /\ RefusalsOwn' /\ RefusedAreTokens'
  BY DEF CredentialsInv, CredentialsCurrent, FirstIsEmpty, ConnectionsBehind, CompletedHasToken,
      RefusalsOwn, RefusedAreTokens, Nothing, Quiet, SignInCallback
<1> QED BY <1>1, <1>2, <1>3, <1>4, <1>5, <1>6, <1>7 DEF CredentialsInv

LEMMA ExchangedKeeps ==
    ASSUME NEW p \in Sharers, CredentialsInv, Exchanged(p) PROVE CredentialsInv'
<1>1. Typed'
  BY DEF CredentialsInv, Typed, InGeneration, LoginState, NewToken, Quiet, SaveAllowed, Say,
      TokenSet, LoginsBehind, Exchanged
<1>2. CredentialsCurrent'
  BY DEF CredentialsInv, Typed, CredentialsCurrent, InGeneration, LoginState, NewToken, Nothing,
      Quiet, SaveAllowed, Say, TokenSet, Exchanged
<1>3. FirstIsEmpty'
  BY DEF CredentialsInv, Typed, FirstIsEmpty, InGeneration, LoginState, NewToken, Nothing,
      Quiet, SaveAllowed, Say, TokenSet, LoginsBehind, Exchanged
<1>4. LoginsBehind'
  BY DEF CredentialsInv, Typed, LoginsBehind, InGeneration, LoginState, NewToken, Quiet,
      SaveAllowed, Say, TokenSet, Exchanged
<1>5. ConnectionsBehind'
  BY DEF CredentialsInv, Typed, ConnectionsBehind, InGeneration, LoginState, NewToken, Quiet,
      SaveAllowed, Say, TokenSet, Exchanged
<1>6. AttemptsForget'
  BY DEF CredentialsInv, Typed, AttemptsForget, InGeneration, LoginState, NewToken, Quiet,
      SaveAllowed, Say, TokenSet, Exchanged
<1>7. CompletedHasToken'
  BY DEF CredentialsInv, Typed, CompletedHasToken, InGeneration, LoginState, NewToken, Nothing,
      Quiet, SaveAllowed, Say, TokenSet, Exchanged
<1>8. RefusalsOwn'
  BY DEF CredentialsInv, Typed, RefusalsOwn, InGeneration, LoginState, NewToken, Quiet,
      SaveAllowed, Say, TokenSet, Exchanged
<1>9. SignInShown'
  BY DEF CredentialsInv, Typed, SignInShown, InGeneration, LoginState, NewToken, Nothing, Quiet,
      SaveAllowed, Say, TokenSet, AttemptsForget, FirstIsEmpty, LoginsBehind, CompletedHasToken,
      CredentialsCurrent, Exchanged
<1>10. StoppedIsGated'
  BY DEF CredentialsInv, Typed, StoppedIsGated, InGeneration, LoginState, NewToken, Quiet,
      SaveAllowed, Say, TokenSet, Exchanged
<1>11. QuietAfterShutdown'
  BY DEF CredentialsInv, Typed, QuietAfterShutdown, InGeneration, LoginState, NewToken, Quiet,
      SaveAllowed, Say, TokenSet, Exchanged
<1>12. RefusedAreTokens'
  BY DEF CredentialsInv, RefusedAreTokens, Nothing, Exchanged
<1> QED BY <1>1, <1>2, <1>3, <1>4, <1>5, <1>6, <1>7, <1>8,
           <1>9, <1>10, <1>11, <1>12 DEF CredentialsInv

LEMMA LoginFailsKeeps ==
    ASSUME NEW p \in Sharers, CredentialsInv, SignInFails(p) PROVE CredentialsInv'
<1>1. Typed'
  BY DEF CredentialsInv, Typed, Holds, LockAfterStop, LoginState, Quiet, Say, TokenSet,
      SignInFails
<1>2. LoginsBehind'
  BY DEF CredentialsInv, Typed, LoginsBehind, Holds, LockAfterStop, LoginState, Quiet, Say,
      TokenSet, SignInFails
<1>3. ConnectionsBehind'
  BY DEF CredentialsInv, Typed, ConnectionsBehind, Holds, LockAfterStop, LoginState, Quiet, Say,
      TokenSet, SignInFails
<1>4. AttemptsForget'
  BY DEF CredentialsInv, Typed, AttemptsForget, Holds, LockAfterStop, LoginState, Quiet, Say,
      TokenSet, SignInFails
<1>5. SignInShown'
  BY DEF CredentialsInv, Typed, SignInShown, Holds, LockAfterStop, LoginState, Nothing, Quiet,
      Say, TokenSet, AttemptsForget, FirstIsEmpty, SignInFails
<1>6. StoppedIsGated'
  BY DEF CredentialsInv, Typed, StoppedIsGated, Holds, LockAfterStop, LoginState, Quiet, Say,
      TokenSet, SignInFails
<1>7. QuietAfterShutdown'
  BY DEF CredentialsInv, Typed, QuietAfterShutdown, Holds, LockAfterStop, LoginState, Quiet,
      Say, TokenSet, SignInFails
<1>8. /\ CredentialsCurrent' /\ FirstIsEmpty' /\ CompletedHasToken' /\ RefusalsOwn'
      /\ RefusedAreTokens'
  BY DEF CredentialsInv, CredentialsCurrent, FirstIsEmpty, CompletedHasToken, RefusalsOwn,
      RefusedAreTokens, Nothing, SignInFails
<1> QED BY <1>1, <1>2, <1>3, <1>4, <1>5, <1>6, <1>7, <1>8 DEF CredentialsInv

LEMMA CancelKeeps ==
    ASSUME NEW p \in Sharers, NEW logout \in BOOLEAN, CredentialsInv, Cancel(p, logout)
    PROVE  CredentialsInv'
<1>1. Typed'
  BY DEF CredentialsInv, Typed, Holds, LockAfterStop, LoginState, Quiet, TokenSet, Cancel
<1>2. LoginsBehind'
  BY DEF CredentialsInv, Typed, LoginsBehind, Holds, LockAfterStop, LoginState, Quiet, TokenSet,
      Cancel
<1>3. AttemptsForget'
  BY DEF CredentialsInv, Typed, AttemptsForget, Holds, LockAfterStop, LoginState, Quiet,
      TokenSet, Cancel
<1>4. CompletedHasToken'
  BY DEF CredentialsInv, Typed, CompletedHasToken, Holds, LockAfterStop, LoginState, Nothing,
      Quiet, TokenSet, Cancel
<1>5. SignInShown'
  BY DEF CredentialsInv, Typed, SignInShown, Holds, LockAfterStop, LoginState, Nothing, Quiet,
      TokenSet, Cancel
<1>6. StoppedIsGated'
  BY DEF CredentialsInv, Typed, StoppedIsGated, Holds, LockAfterStop, LoginState, Quiet,
      TokenSet, Cancel
<1>7. QuietAfterShutdown'
  BY DEF CredentialsInv, Typed, QuietAfterShutdown, Holds, LockAfterStop, LoginState, Quiet,
      TokenSet, Cancel
<1>8. /\ CredentialsCurrent' /\ FirstIsEmpty' /\ ConnectionsBehind' /\ RefusalsOwn'
      /\ RefusedAreTokens'
  BY DEF CredentialsInv, CredentialsCurrent, FirstIsEmpty, ConnectionsBehind, RefusalsOwn,
      RefusedAreTokens, Nothing, Quiet, Cancel
<1> QED BY <1>1, <1>2, <1>3, <1>4, <1>5, <1>6, <1>7, <1>8 DEF CredentialsInv

LEMMA CancelFailsKeeps ==
    ASSUME NEW p \in Sharers, CredentialsInv, CancelFails(p) PROVE CredentialsInv'
<1>1. Typed'
  BY DEF CredentialsInv, Typed, Holds, LoginState, Quiet, TokenSet, CancelFails
<1>2. LoginsBehind'
  BY DEF CredentialsInv, Typed, LoginsBehind, Holds, LoginState, Quiet, TokenSet, CancelFails
<1>3. AttemptsForget'
  BY DEF CredentialsInv, Typed, AttemptsForget, Holds, LoginState, Quiet, TokenSet, CancelFails
<1>4. SignInShown'
  BY DEF CredentialsInv, Typed, SignInShown, Holds, LoginState, Nothing, Quiet, TokenSet,
      AttemptsForget, FirstIsEmpty, CancelFails
<1>5. StoppedIsGated'
  BY DEF CredentialsInv, Typed, StoppedIsGated, Holds, LoginState, Quiet, TokenSet, CancelFails
<1>6. QuietAfterShutdown'
  BY DEF CredentialsInv, Typed, QuietAfterShutdown, Holds, LoginState, Quiet, TokenSet,
      CancelFails
<1>7. /\ CredentialsCurrent' /\ FirstIsEmpty' /\ ConnectionsBehind' /\ CompletedHasToken'
      /\ RefusalsOwn' /\ RefusedAreTokens'
  BY DEF CredentialsInv, CredentialsCurrent, FirstIsEmpty, ConnectionsBehind, CompletedHasToken,
      RefusalsOwn, RefusedAreTokens, Nothing, Quiet, CancelFails
<1> QED BY <1>1, <1>2, <1>3, <1>4, <1>5, <1>6, <1>7 DEF CredentialsInv

LEMMA OpenClientKeeps ==
    ASSUME NEW p \in Sharers, CredentialsInv, OpenClient(p) PROVE CredentialsInv'
<1>1. Typed'
  BY DEF CredentialsInv, Typed, LoginState, Nothing, Quiet, TokenSet, OpenClient
<1>2. ConnectionsBehind'
  BY DEF CredentialsInv, Typed, ConnectionsBehind, LoginState, Nothing, Quiet, TokenSet,
      OpenClient
<1>3. /\ CredentialsCurrent' /\ FirstIsEmpty' /\ LoginsBehind' /\ AttemptsForget'
      /\ CompletedHasToken' /\ RefusalsOwn' /\ RefusedAreTokens' /\ SignInShown'
      /\ StoppedIsGated' /\ QuietAfterShutdown'
  BY DEF CredentialsInv, CredentialsCurrent, FirstIsEmpty, LoginsBehind, AttemptsForget,
      CompletedHasToken, RefusalsOwn, RefusedAreTokens, SignInShown, StoppedIsGated,
      QuietAfterShutdown, Nothing, Quiet, OpenClient
<1> QED BY <1>1, <1>2, <1>3 DEF CredentialsInv

LEMMA ClientOpenedKeeps ==
    ASSUME NEW p \in Sharers, CredentialsInv, OpenedSince, ClientOpened(p) PROVE CredentialsInv'
<1>1. Typed'
  BY DEF CredentialsInv, Typed, InGeneration, LoginState, Nothing, Quiet, Say, TokenSet,
      ClientOpened
<1>2. ConnectionsBehind'
  BY DEF CredentialsInv, Typed, ConnectionsBehind, InGeneration, LoginState, Nothing, Quiet,
      TokenSet, ClientOpened
<1>3. /\ client[p] # Quiet /\ client[p].generation \in Nat
      /\ kept.generation \in Nat /\ mine[p] \in Nat
  BY DEF CredentialsInv, Typed, Quiet, ClientOpened
<1>4. SignInShown'
  <2>1. /\ UNCHANGED <<kept, login, refused, mine, abandoned>>
        /\ \/ status' = status
           \/ /\ status' = [status EXCEPT ![p] = "SignedOut"]
              /\ ~(client[p].generation = kept.generation /\ kept.token # Nothing)
    BY DEF ClientOpened, InGeneration, Say
  <2>2. CASE status' = status
    BY <2>1, <2>2 DEF CredentialsInv, SignInShown
  <2>3. CASE /\ status' = [status EXCEPT ![p] = "SignedOut"]
             /\ ~(client[p].generation = kept.generation /\ kept.token # Nothing)
    <3>1. kept.token # Nothing => client[p].generation < kept.generation
      <4>1. client[p].generation <= kept.generation
        BY <1>3, Zenon DEF CredentialsInv, ConnectionsBehind
      <4> QED BY <2>3, <4>1, <1>3
    <3>2. ~(mine[p] = kept.generation /\ kept.token # Nothing)
      <4>1. kept.token # Nothing => kept.generation > 0
        BY DEF CredentialsInv, FirstIsEmpty
      <4>2. mine[p] > 0 => client[p].generation >= mine[p]
        BY <1>3, Zenon DEF OpenedSince
      <4> QED BY <3>1, <4>1, <4>2, <1>3
    <3>3. /\ status'[p] = "SignedOut"
          /\ \A q \in Sharers : q # p => status'[q] = status[q]
      BY <2>3 DEF CredentialsInv, Typed
    <3> QED BY <2>1, <3>2, <3>3 DEF CredentialsInv, SignInShown
  <2> QED BY <2>1, <2>2, <2>3
<1>5. /\ CredentialsCurrent' /\ FirstIsEmpty' /\ LoginsBehind' /\ AttemptsForget'
      /\ CompletedHasToken' /\ RefusalsOwn' /\ RefusedAreTokens'
      /\ StoppedIsGated' /\ QuietAfterShutdown'
  BY DEF CredentialsInv, CredentialsCurrent, FirstIsEmpty, LoginsBehind, AttemptsForget,
      CompletedHasToken, RefusalsOwn, RefusedAreTokens, StoppedIsGated,
      QuietAfterShutdown, Nothing, Quiet, ClientOpened
<1> QED BY <1>1, <1>2, <1>4, <1>5 DEF CredentialsInv

LEMMA AskTokenKeeps ==
    ASSUME NEW p \in Sharers, CredentialsInv, AskToken(p) PROVE CredentialsInv'
<1>1. Typed'
  BY DEF CredentialsInv, Typed, GateOpen, LoginState, Quiet, TokenSet, AskToken
<1>2. ConnectionsBehind'
  BY DEF CredentialsInv, Typed, ConnectionsBehind, GateOpen, LoginState, Quiet, TokenSet,
      AskToken
<1>3. RefusalsOwn'
  BY DEF CredentialsInv, Typed, RefusalsOwn, GateOpen, LoginState, Quiet, TokenSet, AskToken
<1>4. QuietAfterShutdown'
  BY DEF CredentialsInv, Typed, QuietAfterShutdown, GateOpen, LoginState, Quiet, TokenSet,
      StoppedIsGated, AskToken
<1>5. /\ CredentialsCurrent' /\ FirstIsEmpty' /\ LoginsBehind' /\ AttemptsForget'
      /\ CompletedHasToken' /\ RefusedAreTokens' /\ SignInShown' /\ StoppedIsGated'
  BY DEF CredentialsInv, CredentialsCurrent, FirstIsEmpty, LoginsBehind, AttemptsForget,
      CompletedHasToken, RefusedAreTokens, SignInShown, StoppedIsGated, Nothing, Quiet, AskToken
<1> QED BY <1>1, <1>2, <1>3, <1>4, <1>5 DEF CredentialsInv

LEMMA TokenTaskKeeps ==
    ASSUME NEW p \in Sharers, CredentialsInv, TokenTask(p) PROVE CredentialsInv'
<1>1. Typed'
  BY DEF CredentialsInv, Typed, InGeneration, LoginState, NewToken, Nothing, Quiet, SaveAllowed,
      TokenSet, ConnectionsBehind, TokenTask
<1>2. CredentialsCurrent'
  BY DEF CredentialsInv, Typed, CredentialsCurrent, InGeneration, LoginState, NewToken, Nothing,
      Quiet, SaveAllowed, TokenSet, TokenTask
<1>3. FirstIsEmpty'
  BY DEF CredentialsInv, Typed, FirstIsEmpty, InGeneration, LoginState, NewToken, Nothing,
      Quiet, SaveAllowed, TokenSet, TokenTask
<1>4. LoginsBehind'
  BY DEF CredentialsInv, Typed, LoginsBehind, InGeneration, LoginState, NewToken, Nothing,
      Quiet, SaveAllowed, TokenSet, TokenTask
<1>5. ConnectionsBehind'
  BY DEF CredentialsInv, Typed, ConnectionsBehind, InGeneration, LoginState, NewToken, Nothing,
      Quiet, SaveAllowed, TokenSet, TokenTask
<1>6. CompletedHasToken'
  BY DEF CredentialsInv, Typed, CompletedHasToken, InGeneration, LoginState, NewToken, Nothing,
      Quiet, SaveAllowed, TokenSet, TokenTask
<1>7. RefusalsOwn'
  <2> DEFINE g == renewal[p].generation
  <2>1. g \in Nat /\ kept.generation \in Nat /\ g <= kept.generation
    BY DEF CredentialsInv, Typed, ConnectionsBehind, TokenTask, Quiet
  <2>2. ASSUME kept.token \in refused, g >= kept.generation
        PROVE  \E t \in refused : t.generation = g
    <3>1. kept.token # Nothing BY <2>2 DEF CredentialsInv, RefusedAreTokens
    <3>2. kept.token.generation = g
      BY <2>1, <2>2, <3>1 DEF CredentialsInv, CredentialsCurrent
    <3> QED BY <2>2, <3>2
  <2>3. ASSUME NEW q \in Sharers, renewal'[q].at = "refused"
        PROVE  \/ renewal'[q].generation < kept'.generation
               \/ \E t \in refused' : t.generation = renewal'[q].generation
    <3>1. kept'.generation = kept.generation /\ refused' = refused
      BY DEF TokenTask, CredentialsInv, Typed
    <3>2. CASE q = p
      <4>1. kept.token \in refused /\ renewal'[p].generation = g
        BY <2>3, <3>2 DEF TokenTask, CredentialsInv, Typed, Quiet
      <4> QED BY <2>1, <2>2, <3>1, <3>2, <4>1
    <3>3. CASE q # p
      <4>1. renewal'[q] = renewal[q] BY <3>3 DEF TokenTask, CredentialsInv, Typed
      <4> QED BY <2>3, <3>1, <4>1 DEF CredentialsInv, RefusalsOwn
    <3> QED BY <3>2, <3>3
  <2> QED BY <2>3 DEF RefusalsOwn
<1>8. SignInShown'
  BY DEF CredentialsInv, Typed, SignInShown, InGeneration, LoginState, NewToken, Nothing, Quiet,
      SaveAllowed, TokenSet, TokenTask
<1>9. QuietAfterShutdown'
  BY DEF CredentialsInv, Typed, QuietAfterShutdown, InGeneration, LoginState, NewToken, Nothing,
      Quiet, SaveAllowed, TokenSet, TokenTask
<1>10. AttemptsForget' /\ RefusedAreTokens' /\ StoppedIsGated'
  BY DEF CredentialsInv, AttemptsForget, RefusedAreTokens, StoppedIsGated, Nothing, TokenTask
<1> QED BY <1>1, <1>2, <1>3, <1>4, <1>5, <1>6, <1>7, <1>8, <1>9, <1>10 DEF CredentialsInv

LEMMA TokenRefusedKeeps ==
    ASSUME NEW p \in Sharers, CredentialsInv, TokenRefused(p) PROVE CredentialsInv'
<1>1. Typed'
  BY DEF CredentialsInv, Typed, InGeneration, LoginState, Quiet, Required, RequiredApplies, Say,
      TokenSet, TokenRefused
<1>2. ConnectionsBehind'
  BY DEF CredentialsInv, Typed, ConnectionsBehind, InGeneration, LoginState, Quiet, Required,
      RequiredApplies, Say, TokenSet, TokenRefused
<1>3. RefusalsOwn'
  BY DEF CredentialsInv, Typed, RefusalsOwn, InGeneration, LoginState, Quiet, Required,
      RequiredApplies, Say, TokenSet, TokenRefused
<1>4. SignInShown'
  BY DEF CredentialsInv, Typed, SignInShown, InGeneration, LoginState, Nothing, Quiet, Required,
      RequiredApplies, Say, TokenSet, RefusalsOwn, TokenRefused
<1>5. QuietAfterShutdown'
  BY DEF CredentialsInv, Typed, QuietAfterShutdown, InGeneration, LoginState, Quiet, Required,
      RequiredApplies, Say, TokenSet, TokenRefused
<1>6. /\ CredentialsCurrent' /\ FirstIsEmpty' /\ LoginsBehind' /\ AttemptsForget'
      /\ CompletedHasToken' /\ RefusedAreTokens' /\ StoppedIsGated'
  BY DEF CredentialsInv, CredentialsCurrent, FirstIsEmpty, LoginsBehind, AttemptsForget,
      CompletedHasToken, RefusedAreTokens, StoppedIsGated, Nothing, TokenRefused
<1> QED BY <1>1, <1>2, <1>3, <1>4, <1>5, <1>6 DEF CredentialsInv

LEMMA CheckedKeeps ==
    ASSUME NEW p \in Sharers, CredentialsInv, Checked(p) PROVE CredentialsInv'
<1>1. Typed'
  BY DEF CredentialsInv, Typed, InGeneration, LoginState, Quiet, Required, RequiredApplies, Say,
      TokenSet, Checked
<1>2. SignInShown'
  BY DEF CredentialsInv, Typed, SignInShown, InGeneration, LoginState, Nothing, Quiet, Required,
      RequiredApplies, Say, TokenSet, Checked
<1>3. /\ CredentialsCurrent' /\ FirstIsEmpty' /\ LoginsBehind' /\ ConnectionsBehind'
      /\ AttemptsForget' /\ CompletedHasToken' /\ RefusalsOwn' /\ RefusedAreTokens'
      /\ StoppedIsGated' /\ QuietAfterShutdown'
  BY DEF CredentialsInv, CredentialsCurrent, FirstIsEmpty, LoginsBehind, ConnectionsBehind,
      AttemptsForget, CompletedHasToken, RefusalsOwn, RefusedAreTokens, StoppedIsGated,
      QuietAfterShutdown, Nothing, Quiet, Checked
<1> QED BY <1>1, <1>2, <1>3 DEF CredentialsInv

LEMMA ServerRefusesKeeps == ASSUME CredentialsInv, ServerRefuses PROVE CredentialsInv'
<1>1. Typed'
  BY DEF CredentialsInv, Typed, LoginState, Nothing, Quiet, TokenSet, ServerRefuses
<1>2. RefusalsOwn'
  BY DEF CredentialsInv, Typed, RefusalsOwn, LoginState, Nothing, Quiet, TokenSet, ServerRefuses
<1>3. RefusedAreTokens'
  BY DEF CredentialsInv, Typed, RefusedAreTokens, LoginState, Nothing, Quiet, TokenSet,
      ServerRefuses
<1>4. SignInShown'
  BY DEF CredentialsInv, Typed, SignInShown, LoginState, Nothing, Quiet, TokenSet, ServerRefuses
<1>5. /\ CredentialsCurrent' /\ FirstIsEmpty' /\ LoginsBehind' /\ ConnectionsBehind'
      /\ AttemptsForget' /\ CompletedHasToken' /\ StoppedIsGated' /\ QuietAfterShutdown'
  BY DEF CredentialsInv, CredentialsCurrent, FirstIsEmpty, LoginsBehind, ConnectionsBehind,
      AttemptsForget, CompletedHasToken, StoppedIsGated, QuietAfterShutdown, Nothing, Quiet,
      ServerRefuses
<1> QED BY <1>1, <1>2, <1>3, <1>4, <1>5 DEF CredentialsInv

LEMMA ShutdownKeeps ==
    ASSUME NEW p \in Sharers, CredentialsInv, Shutdown(p) PROVE CredentialsInv'
<1>1. Typed'
  BY DEF CredentialsInv, Typed, Holds, LockAfterStop, LoginState, Quiet, TokenSet, Shutdown
<1>2. LoginsBehind'
  BY DEF CredentialsInv, Typed, LoginsBehind, Holds, LockAfterStop, LoginState, Quiet, TokenSet,
      Shutdown
<1>3. AttemptsForget'
  BY DEF CredentialsInv, Typed, AttemptsForget, Holds, LockAfterStop, LoginState, Quiet,
      TokenSet, Shutdown
<1>4. SignInShown'
  BY DEF CredentialsInv, Typed, SignInShown, Holds, LockAfterStop, LoginState, Nothing, Quiet,
      TokenSet, AttemptsForget, FirstIsEmpty, StoppedIsGated, Shutdown
<1>5. StoppedIsGated'
  BY DEF CredentialsInv, Typed, StoppedIsGated, Holds, LockAfterStop, LoginState, Quiet,
      TokenSet, Shutdown
<1>6. QuietAfterShutdown'
  BY DEF CredentialsInv, Typed, QuietAfterShutdown, Holds, LockAfterStop, LoginState, Quiet,
      TokenSet, Shutdown
<1>7. /\ CredentialsCurrent' /\ FirstIsEmpty' /\ ConnectionsBehind' /\ CompletedHasToken'
      /\ RefusalsOwn' /\ RefusedAreTokens'
  BY DEF CredentialsInv, CredentialsCurrent, FirstIsEmpty, ConnectionsBehind, CompletedHasToken,
      RefusalsOwn, RefusedAreTokens, Nothing, Quiet, Shutdown
<1> QED BY <1>1, <1>2, <1>3, <1>4, <1>5, <1>6, <1>7 DEF CredentialsInv

LEMMA ShutdownDoneKeeps ==
    ASSUME NEW p \in Sharers, CredentialsInv, ShutdownDone(p) PROVE CredentialsInv'
<1>1. Typed'
  BY DEF CredentialsInv, Typed, LoginState, Quiet, TokenSet, ShutdownDone
<1>2. LoginsBehind'
  BY DEF CredentialsInv, Typed, LoginsBehind, LoginState, Quiet, TokenSet, ShutdownDone
<1>3. AttemptsForget'
  BY DEF CredentialsInv, Typed, AttemptsForget, LoginState, Quiet, TokenSet, ShutdownDone
<1>4. SignInShown'
  BY DEF CredentialsInv, Typed, SignInShown, LoginState, Nothing, Quiet, TokenSet, ShutdownDone
<1>5. StoppedIsGated'
  BY DEF CredentialsInv, Typed, StoppedIsGated, LoginState, Quiet, TokenSet, ShutdownDone
<1>6. QuietAfterShutdown'
  BY DEF CredentialsInv, Typed, QuietAfterShutdown, LoginState, Quiet, TokenSet, ShutdownDone
<1>7. /\ CredentialsCurrent' /\ FirstIsEmpty' /\ ConnectionsBehind' /\ CompletedHasToken'
      /\ RefusalsOwn' /\ RefusedAreTokens'
  BY DEF CredentialsInv, CredentialsCurrent, FirstIsEmpty, ConnectionsBehind, CompletedHasToken,
      RefusalsOwn, RefusedAreTokens, Nothing, Quiet, ShutdownDone
<1> QED BY <1>1, <1>2, <1>3, <1>4, <1>5, <1>6, <1>7 DEF CredentialsInv

LEMMA CredentialsInvInit == McpInit => CredentialsInv
<1> SUFFICES ASSUME McpInit PROVE CredentialsInv OBVIOUS
<1>1. Typed BY DEF McpInit, Typed, LoginState, TokenSet, Nothing, Quiet
<1>2. CredentialsCurrent /\ FirstIsEmpty /\ CompletedHasToken /\ RefusedAreTokens
  BY DEF McpInit, CredentialsCurrent, FirstIsEmpty, CompletedHasToken, RefusedAreTokens, Nothing
<1>3. LoginsBehind /\ ConnectionsBehind /\ AttemptsForget /\ RefusalsOwn
  BY DEF McpInit, LoginsBehind, ConnectionsBehind, AttemptsForget, RefusalsOwn, Quiet
<1>4. SignInShown /\ StoppedIsGated /\ QuietAfterShutdown
  BY DEF McpInit, SignInShown, StoppedIsGated, QuietAfterShutdown, Quiet, Nothing
<1> QED BY <1>1, <1>2, <1>3, <1>4 DEF CredentialsInv

LEMMA OpenedSinceNext ==
    CredentialsInv /\ OpenedSince /\ [McpNext]_credentialsVars => OpenedSince'
<1> SUFFICES ASSUME CredentialsInv, OpenedSince, [McpNext]_credentialsVars PROVE OpenedSince'
  OBVIOUS
<1>1. CASE UNCHANGED <<client, mine>>
  BY <1>1 DEF OpenedSince
<1>2. ASSUME NEW p \in Sharers, client' = [client EXCEPT ![p] = Quiet], UNCHANGED mine
      PROVE  OpenedSince'
  BY <1>2 DEF CredentialsInv, Typed, OpenedSince
<1>3. ASSUME NEW p \in Sharers, mine' = [mine EXCEPT ![p] = 0], UNCHANGED client
      PROVE  OpenedSince'
  BY <1>3 DEF CredentialsInv, Typed, OpenedSince
<1>4. ASSUME NEW p \in Sharers, CommitReset(p) PROVE OpenedSince'
  BY <1>1, <1>2, <1>4 DEF CommitReset
<1>5. ASSUME NEW p \in Sharers, Exchanged(p) PROVE OpenedSince'
  BY <1>5 DEF CredentialsInv, Typed, OpenedSince, Exchanged
<1>6. ASSUME NEW p \in Sharers, SignInFails(p) PROVE OpenedSince'
  BY <1>2, <1>6 DEF SignInFails
<1>7. ASSUME NEW p \in Sharers, StartSignIn(p) \/ Cancel(p, TRUE) \/ Cancel(p, FALSE)
      PROVE  OpenedSince'
  BY <1>3, <1>7 DEF StartSignIn, Cancel
<1>8. ASSUME NEW p \in Sharers, OpenClient(p) PROVE OpenedSince'
  BY <1>8 DEF CredentialsInv, Typed, CompletedHasToken, OpenedSince, OpenClient
<1>9. ASSUME NEW p \in Sharers, ClientOpened(p) PROVE OpenedSince'
  <2>1. \/ client' = [client EXCEPT ![p] = Quiet]
        \/ client' = [client EXCEPT ![p].at = "open"]
    BY <1>9 DEF ClientOpened
  <2>2. client[p] # Quiet /\ client[p] \in [at : {"opening", "open"}, generation : Nat]
    BY <1>9 DEF ClientOpened, Quiet, CredentialsInv, Typed
  <2>3. CASE client' = [client EXCEPT ![p].at = "open"]
    BY <1>9, <2>2, <2>3 DEF CredentialsInv, Typed, OpenedSince, ClientOpened
  <2> QED BY <1>2, <1>9, <2>1, <2>3 DEF ClientOpened
<1>10. ASSUME NEW p \in Sharers,
              \/ BeginReset(p) \/ Discovered(p) \/ SignInCallback(p) \/ CancelFails(p)
              \/ AskToken(p) \/ TokenTask(p) \/ TokenRefused(p) \/ Checked(p)
              \/ Shutdown(p) \/ ShutdownDone(p)
       PROVE  OpenedSince'
  BY <1>1, <1>10 DEF BeginReset, Discovered, SignInCallback, CancelFails, AskToken, TokenTask,
     TokenRefused, Checked, Shutdown, ShutdownDone
<1>11. CASE ServerRefuses
  BY <1>1, <1>11 DEF ServerRefuses
<1>12. CASE UNCHANGED credentialsVars
  BY <1>1, <1>12 DEF credentialsVars
<1> QED
  BY <1>4, <1>5, <1>6, <1>7, <1>8, <1>9, <1>10, <1>11, <1>12 DEF McpNext

LEMMA CredentialsInvNext ==
    CredentialsInv /\ OpenedSince /\ [McpNext]_credentialsVars => CredentialsInv'
<1> SUFFICES ASSUME CredentialsInv, OpenedSince, [McpNext]_credentialsVars PROVE CredentialsInv'
  OBVIOUS
<1>1. CASE UNCHANGED credentialsVars
  BY <1>1 DEF credentialsVars, CredentialsInv, Typed, CredentialsCurrent, FirstIsEmpty,
     LoginsBehind, ConnectionsBehind, AttemptsForget, CompletedHasToken, RefusalsOwn,
     RefusedAreTokens, SignInShown, StoppedIsGated, QuietAfterShutdown
<1>2. CASE ServerRefuses BY <1>2, ServerRefusesKeeps
<1>3. ASSUME NEW p \in Sharers,
             \/ BeginReset(p) \/ CommitReset(p) \/ StartSignIn(p) \/ Discovered(p)
             \/ SignInCallback(p) \/ Exchanged(p) \/ SignInFails(p)
             \/ Cancel(p, TRUE) \/ Cancel(p, FALSE) \/ CancelFails(p)
      PROVE  CredentialsInv'
  BY <1>3, BeginResetKeeps, CommitResetKeeps, StartLoginKeeps, DiscoveredKeeps, CallbackKeeps,
     ExchangedKeeps, LoginFailsKeeps, CancelKeeps, CancelFailsKeeps
<1>4. ASSUME NEW p \in Sharers,
             \/ OpenClient(p) \/ ClientOpened(p) \/ AskToken(p) \/ TokenTask(p)
             \/ TokenRefused(p) \/ Checked(p) \/ Shutdown(p) \/ ShutdownDone(p)
      PROVE  CredentialsInv'
  BY <1>4, OpenClientKeeps, ClientOpenedKeeps, AskTokenKeeps, TokenTaskKeeps,
     TokenRefusedKeeps, CheckedKeeps, ShutdownKeeps, ShutdownDoneKeeps
<1> QED BY <1>1, <1>2, <1>3, <1>4 DEF McpNext

(* For any number of runtimes, generations and tokens: a sign-out or a newer sign-in is final   *)
(* in the shared file (FileStore::save and reset), the status a runtime publishes is true of    *)
(* its sign-in (Auth::login, cancel, required), and a finished shutdown leaves no token task    *)
(* that could still write (OAuthClient::token and the gate).                                    *)
THEOREM McpCredentialsCorrect == McpSpec => []McpCredentialsSound
<1>1. CredentialsInv => McpCredentialsSound
  BY DEF CredentialsInv, McpCredentialsSound
<1>2. McpInit => OpenedSince
  BY DEF McpInit, OpenedSince, Quiet
<1> QED BY CredentialsInvInit, CredentialsInvNext, OpenedSinceNext, <1>1, <1>2, PTL DEF McpSpec

-----------------------------------------------------------------------------
(* One MCP server: what every step of its tasks, connections and notices keeps. *)

RunningCall == [on : Nat, at : {"running", "answered", "cancelled"},
                notice : {"none", "due", "over", "never"}]
TaskTyped(k) ==
    /\ k.at \in {"idle", "peer", "connecting", "listing", "listed", "sending", "calling"}
    /\ k.at \in {"peer", "connecting", "listing", "listed"} => k.on \in Nat
    /\ k.at = "connecting" => k \in [at : {"connecting"}, for : {"tools", "call"}, on : Nat]
    /\ k.at \in {"listing", "listed"} => k.generation \in Nat
    /\ k.at = "listed" => k.version \in Nat
    /\ k.at = "sending" => k \in [at : {"sending"}, call : Nat]
    /\ k.at = "calling" => k.call \in Nat

ServerTyped ==
    /\ peer \in Nat /\ made \in Nat /\ generation \in Nat
    /\ open \subseteq Nat
    /\ catalog \in [version : Nat, generation : Nat, valid : BOOLEAN]
    /\ version \in Nat /\ mutex \in Tasks \cup {NoTask}
    /\ DOMAIN task = Tasks /\ \A t \in Tasks : TaskTyped(task[t])
    /\ \E n \in Nat : calls \in [1..n -> RunningCall]

\* The task that holds the state across an await is the only one that connects or lists.
OneHolder == \A t \in Tasks :
    task[t].at \in {"connecting", "listing", "listed"} => mutex = t
\* A catalog, and a listing, is of a generation the counter has reached; while a connection is
\* made the counter has already moved past the catalog's.
GenerationsBehind ==
    /\ catalog.generation <= generation
    /\ \A t \in Tasks :
        /\ task[t].at \in {"listing", "listed"} => task[t].generation <= generation
        /\ task[t].at = "connecting" => catalog.generation < generation
\* What a listing has read is what the server has, unless a notice is on its way, a notice has
\* moved the counter, or its connection was replaced or closed.
ListedFresh == \A t \in Tasks :
    /\ task[t].at = "listed" /\ task[t].on = peer /\ peer \in open
    /\ task[t].generation = generation /\ peer \notin notices
    => task[t].version = version
\* Connections are numbered as they are made, and none is used while it is being made.
Numbered ==
    /\ \A c \in open : c <= made
    /\ \A i \in DOMAIN calls : calls[i].on <= made
    /\ \A t \in Tasks : task[t].at = "connecting" =>
        /\ task[t].on <= made /\ task[t].on \notin open
        /\ \A i \in DOMAIN calls : calls[i].on # task[t].on
\* Each call belongs to one task.
CallersKnown == \A t \in Tasks, c \in Nat : Waits(t, c) =>
    c \in DOMAIN calls /\ \A u \in Tasks : Waits(u, c) => u = t

ServerInv ==
    /\ ServerTyped /\ OneHolder /\ GenerationsBehind /\ ListedFresh /\ Numbered /\ CallersKnown
    /\ CatalogFresh /\ CallsAccounted

USE NoTaskAssumption

LEMMA ServerInitInv == ServerInit => ServerInv
<1> SUFFICES ASSUME ServerInit PROVE ServerInv OBVIOUS
<1>1. calls \in [1..0 -> RunningCall] /\ DOMAIN calls = {}
  BY DEF ServerInit
<1>2. ServerTyped
  BY <1>1 DEF ServerInit, ServerTyped, TaskTyped, Unasked, NoCatalog
<1>3. /\ OneHolder /\ GenerationsBehind /\ ListedFresh /\ Numbered /\ CallersKnown
      /\ CatalogFresh /\ CallsAccounted
  BY <1>1 DEF ServerInit, Unasked, NoCatalog, OneHolder, GenerationsBehind, ListedFresh, Numbered,
     CallersKnown, CatalogFresh, Connected, Cached, CallsAccounted, Waits
<1> QED BY <1>2, <1>3 DEF ServerInv

\* A task that goes on changes no other.
LEMMA GoesOn ==
    ASSUME ServerTyped, NEW t \in Tasks, NEW k, Goes(t, k)
    PROVE  /\ DOMAIN task' = Tasks /\ task'[t] = k
           /\ \A u \in Tasks : u # t => task'[u] = task[u]
BY DEF ServerTyped, Goes

LEMMA AsksKeeps ==
    ASSUME NEW t \in Tasks, NEW for \in {"tools", "call"}, ServerInv, Asks(t, for)
    PROVE ServerInv'
<1> USE DEF ServerInv
<1>1. CASE Connected /\ Goes(t, [at |-> "peer", for |-> for, on |-> peer])
           /\ UNCHANGED <<peer, mutex, generation, made>>
  <2> DEFINE k == [at |-> "peer", for |-> for, on |-> peer]
  <2>1. /\ DOMAIN task' = Tasks /\ task'[t] = k
        /\ \A u \in Tasks : u # t => task'[u] = task[u]
    BY <1>1, GoesOn
  <2>2. /\ k.at = "peer" /\ k.on = peer /\ task[t].at = "idle"
        /\ UNCHANGED <<peer, mutex, generation, made, open, doomed, catalog, failures, version,
                       notices, calls, misled>>
    BY <1>1 DEF Asks, Unasked
  <2> HIDE DEF k
  <2>3. ServerTyped' /\ OneHolder' /\ GenerationsBehind' /\ ListedFresh'
    BY <2>1, <2>2 DEF ServerTyped, TaskTyped, OneHolder, GenerationsBehind, ListedFresh
  <2>4. Numbered' /\ CallersKnown' /\ CatalogFresh' /\ CallsAccounted'
    BY <2>1, <2>2 DEF ServerTyped, Numbered, CallersKnown, Waits, CatalogFresh, CallsAccounted,
       Connected, Cached
  <2> QED BY <2>3, <2>4
<1>2. CASE /\ ~Connected /\ "connect" \notin failures /\ made < MaxConnections
           /\ peer' = 0 /\ generation' = generation + 1 /\ made' = made + 1
           /\ mutex' = t /\ Goes(t, [at |-> "connecting", for |-> for, on |-> made + 1])
  <2> DEFINE k == [at |-> "connecting", for |-> for, on |-> made + 1]
  <2>1. /\ DOMAIN task' = Tasks /\ task'[t] = k
        /\ \A u \in Tasks : u # t => task'[u] = task[u]
    BY <1>2, GoesOn
  <2>2. /\ k.at = "connecting" /\ k.on = made + 1 /\ task[t].at = "idle" /\ made \in Nat
        /\ mutex = NoTask /\ mutex' = t
        /\ peer' = 0 /\ generation' = generation + 1 /\ made' = made + 1
        /\ UNCHANGED <<open, doomed, catalog, failures, version, notices, calls, misled>>
        /\ k \in [at : {"connecting"}, for : {"tools", "call"}, on : Nat]
    BY <1>2 DEF Asks, Unasked, StateFree, ServerTyped
  <2>3. \A u \in Tasks : task[u].at \notin {"connecting", "listing", "listed"}
    BY <2>2 DEF OneHolder
  <2> HIDE DEF k
  <2>4. ServerTyped'
    BY <2>1, <2>2 DEF ServerTyped, TaskTyped
  <2>5. OneHolder' /\ GenerationsBehind' /\ ListedFresh'
    BY <2>1, <2>2, <2>3 DEF ServerTyped, TaskTyped, OneHolder, GenerationsBehind, ListedFresh
  <2>6. Numbered'
    <3>1. /\ \A c \in open : c \in Nat /\ c <= made
          /\ \A i \in DOMAIN calls : calls[i].on \in Nat /\ calls[i].on <= made
      BY <2>2 DEF ServerTyped, Numbered, RunningCall
    <3>2. /\ \A u \in Tasks : task'[u].at = "connecting" => u = t
          /\ made + 1 \notin open /\ \A i \in DOMAIN calls : calls[i].on # made + 1
      BY <2>1, <2>2, <2>3, <3>1
    <3> QED BY <2>1, <2>2, <3>1, <3>2 DEF Numbered
  <2>7. CallersKnown' /\ CatalogFresh' /\ CallsAccounted'
    BY <2>1, <2>2 DEF ServerTyped, CallersKnown, Waits, CatalogFresh, CallsAccounted, Connected
  <2> QED BY <2>4, <2>5, <2>6, <2>7
<1> QED BY <1>1, <1>2 DEF Asks

LEMMA ConnectsKeeps ==
    ASSUME NEW t \in Tasks, ServerInv, Connects(t) PROVE ServerInv'
<1> USE DEF ServerInv
<1>1. /\ task[t].at = "connecting" /\ mutex = t /\ mutex' = NoTask
      /\ UNCHANGED <<doomed, made, generation, catalog, version, notices, calls, misled>>
  BY DEF Connects, OneHolder
<1>2. \A u \in Tasks : u # t => task[u].at \notin {"connecting", "listing", "listed"}
  BY <1>1 DEF OneHolder
<1>3. CASE peer' = task[t].on /\ open' = open \cup {task[t].on} /\ failures' = {}
           /\ Goes(t, [task[t] EXCEPT !.at = "peer"])
  <2> DEFINE k == [task[t] EXCEPT !.at = "peer"]
  <2>1. /\ DOMAIN task' = Tasks /\ task'[t] = k
        /\ \A u \in Tasks : u # t => task'[u] = task[u]
    BY <1>3, GoesOn
  <2>2. task[t] \in [at : {"connecting"}, for : {"tools", "call"}, on : Nat]
    BY <1>1 DEF ServerTyped, TaskTyped
  <2>3. k.at = "peer" /\ k.on = task[t].on /\ k.on \in Nat
    BY <2>2
  <2> HIDE DEF k
  <2>4. ServerTyped' /\ OneHolder'
    BY <2>1, <2>3, <1>1, <1>2, <1>3 DEF ServerTyped, TaskTyped, OneHolder
  <2>5. GenerationsBehind' /\ ListedFresh'
    BY <2>1, <2>3, <1>1, <1>2, <1>3 DEF ServerTyped, GenerationsBehind, ListedFresh
  <2>6. Numbered' /\ CallersKnown'
    BY <2>1, <2>3, <1>1, <1>2, <1>3 DEF ServerTyped, Numbered, CallersKnown, Waits
  <2>7. CatalogFresh'
    BY <1>1, <1>3 DEF ServerTyped, GenerationsBehind, CatalogFresh, Cached
  <2>8. CallsAccounted'
    BY <2>1, <2>3, <1>1, <1>3 DEF ServerTyped, CallsAccounted, Numbered, Waits
  <2> QED BY <2>4, <2>5, <2>6, <2>7, <2>8
<1>4. CASE Goes(t, Unasked) /\ UNCHANGED <<peer, open>>
  <2>1. /\ DOMAIN task' = Tasks /\ task'[t] = Unasked
        /\ \A u \in Tasks : u # t => task'[u] = task[u]
    BY <1>4, GoesOn
  <2>2. Unasked.at = "idle" BY DEF Unasked
  <2>4. ServerTyped' /\ OneHolder'
    BY <2>1, <2>2, <1>1, <1>2, <1>4 DEF ServerTyped, TaskTyped, OneHolder
  <2>5. GenerationsBehind' /\ ListedFresh' /\ Numbered' /\ CallersKnown'
    BY <2>1, <2>2, <1>1, <1>2, <1>4 DEF ServerTyped, GenerationsBehind, ListedFresh, Numbered,
       CallersKnown, Waits
  <2>6. CatalogFresh' /\ CallsAccounted'
    BY <2>1, <2>2, <1>1, <1>4 DEF CatalogFresh, Connected, Cached, CallsAccounted, Waits
  <2> QED BY <2>4, <2>5, <2>6
<1> QED BY <1>3, <1>4 DEF Connects

LEMMA ToolsKeeps ==
    ASSUME NEW t \in Tasks, ServerInv, Tools(t) PROVE ServerInv'
<1> USE DEF ServerInv
<1>1. /\ task[t].at = "peer" /\ mutex = NoTask
      /\ UNCHANGED <<peer, open, doomed, made, generation, catalog, failures, version, notices,
                     calls, misled>>
  BY DEF Tools, StateFree
<1>2. \A u \in Tasks : task[u].at \notin {"connecting", "listing", "listed"}
  BY <1>1 DEF OneHolder
<1>3. ASSUME NEW k, Goes(t, k), mutex' \in {mutex, t},
             \/ k.at = "idle"
             \/ /\ k.at = "listing" /\ k.on \in Nat /\ k.generation = generation /\ mutex' = t
      PROVE ServerInv'
  <2>1. /\ DOMAIN task' = Tasks /\ task'[t] = k
        /\ \A u \in Tasks : u # t => task'[u] = task[u]
    BY <1>3, GoesOn
  <2>2. ServerTyped' /\ OneHolder' /\ GenerationsBehind' /\ ListedFresh'
    BY <2>1, <1>1, <1>2, <1>3 DEF ServerTyped, TaskTyped, OneHolder, GenerationsBehind, ListedFresh
  <2>3. Numbered' /\ CallersKnown' /\ CatalogFresh' /\ CallsAccounted'
    BY <2>1, <1>1, <1>3 DEF Numbered, CallersKnown, Waits, CatalogFresh, CallsAccounted, Connected, Cached
  <2> QED BY <2>2, <2>3
<1>4. CASE Goes(t, Unasked) /\ UNCHANGED mutex
  BY <1>3, <1>4 DEF Unasked
<1>5. CASE /\ mutex' = t
           /\ Goes(t, [at |-> "listing", on |-> task[t].on, generation |-> generation])
  <2>1. task[t].on \in Nat
    BY <1>1 DEF ServerTyped, TaskTyped
  <2> QED BY <1>3, <1>5, <2>1
<1> QED BY <1>4, <1>5 DEF Tools

LEMMA ListsKeeps ==
    ASSUME NEW t \in Tasks, ServerInv, Lists(t) PROVE ServerInv'
<1> USE DEF ServerInv
<1> DEFINE k == [at |-> "listed", on |-> task[t].on, generation |-> task[t].generation,
                 version |-> version]
<1>1. /\ task[t].at = "listing" /\ Goes(t, k)
      /\ UNCHANGED <<peer, open, doomed, made, generation, catalog, failures, mutex, version,
                     notices, calls, misled>>
  BY DEF Lists
<1>2. /\ DOMAIN task' = Tasks /\ task'[t] = k
      /\ \A u \in Tasks : u # t => task'[u] = task[u]
  BY <1>1, GoesOn
<1>3. /\ k.at = "listed" /\ k.on = task[t].on /\ k.generation = task[t].generation
      /\ k.version = version
  OBVIOUS
<1> HIDE DEF k
<1>4. ServerTyped' /\ OneHolder' /\ GenerationsBehind' /\ ListedFresh'
  BY <1>1, <1>2, <1>3 DEF ServerTyped, TaskTyped, OneHolder, GenerationsBehind, ListedFresh
<1>5. Numbered' /\ CallersKnown' /\ CatalogFresh' /\ CallsAccounted'
  BY <1>1, <1>2, <1>3 DEF Numbered, CallersKnown, Waits, CatalogFresh, CallsAccounted, Connected, Cached
<1> QED BY <1>4, <1>5

\* The end of a listing: the holder lets the state go and waits for nothing.
LEMMA ReleaseKeeps ==
    ASSUME NEW t \in Tasks, ServerInv, task[t].at \in {"listing", "listed"}, mutex' = NoTask,
           Goes(t, Unasked), UNCHANGED <<peer, open, made, generation, version, calls, notices>>
    PROVE  /\ catalog' \in [version : Nat, generation : Nat, valid : BOOLEAN] => ServerTyped'
           /\ catalog'.generation <= generation => GenerationsBehind'
           /\ OneHolder' /\ ListedFresh' /\ Numbered' /\ CallersKnown' /\ CallsAccounted'
<1> USE DEF ServerInv
<1>1. /\ DOMAIN task' = Tasks /\ task'[t] = Unasked
      /\ \A u \in Tasks : u # t => task'[u] = task[u]
  BY GoesOn
<1>2. \A u \in Tasks : u # t => task[u].at \notin {"connecting", "listing", "listed"}
  BY DEF OneHolder
<1>3. Unasked.at = "idle" BY DEF Unasked
<1>4. /\ catalog' \in [version : Nat, generation : Nat, valid : BOOLEAN] => ServerTyped'
      /\ catalog'.generation <= generation => GenerationsBehind'
  BY <1>1, <1>2, <1>3 DEF ServerTyped, TaskTyped, GenerationsBehind
<1>5. OneHolder' /\ ListedFresh' /\ Numbered' /\ CallersKnown' /\ CallsAccounted'
  BY <1>1, <1>2, <1>3 DEF OneHolder, ListedFresh, Numbered, CallersKnown, CallsAccounted,
     Waits
<1> QED BY <1>4, <1>5

LEMMA KeepsKeeps ==
    ASSUME NEW t \in Tasks, ServerInv, Keeps(t) PROVE ServerInv'
<1> USE DEF ServerInv
<1>1. /\ task[t].at = "listed" /\ mutex' = NoTask /\ Goes(t, Unasked)
      /\ catalog' = [version |-> task[t].version, generation |-> task[t].generation, valid |-> TRUE]
      /\ misled' = (task[t].on # peer)
      /\ UNCHANGED <<peer, open, made, generation, version, notices, calls>>
  BY DEF Keeps, CatalogGeneration
<1>2. /\ task[t].generation \in Nat /\ task[t].version \in Nat /\ task[t].generation <= generation
  BY <1>1 DEF ServerTyped, TaskTyped, GenerationsBehind, ListedFresh
<1>3. CatalogFresh'
  BY <1>1 DEF ListedFresh, CatalogFresh, Connected, Cached
<1> QED BY <1>1, <1>2, <1>3, ReleaseKeeps

LEMMA ListFailsKeeps ==
    ASSUME NEW t \in Tasks, ServerInv, ListFails(t) PROVE ServerInv'
<1> USE DEF ServerInv
<1>1. /\ task[t].at = "listing" /\ mutex' = NoTask /\ Goes(t, Unasked)
      /\ UNCHANGED <<peer, open, made, generation, catalog, version, notices, calls, misled>>
  BY DEF ListFails
<1>2. CatalogFresh'
  BY <1>1 DEF CatalogFresh, Connected, Cached
<1> QED BY <1>1, <1>2, ReleaseKeeps DEF ServerTyped, GenerationsBehind

\* A task that leaves the peer or a call: nothing of the connection changes.
LEMMA CallerKeeps ==
    ASSUME NEW t \in Tasks, ServerInv, NEW k, Goes(t, k),
           k = Unasked \/ k \in [at : {"sending", "calling"}, call : Nat],
           task[t].at \in {"peer", "sending", "calling"},
           \E n \in Nat : calls' \in [1..n -> RunningCall],
           UNCHANGED <<peer, open, doomed, made, generation, catalog, failures, mutex, version,
                       notices, misled>>
    PROVE  ServerTyped' /\ OneHolder' /\ GenerationsBehind' /\ ListedFresh' /\ CatalogFresh'
<1> USE DEF ServerInv
<1>1. /\ DOMAIN task' = Tasks /\ task'[t] = k
      /\ \A u \in Tasks : u # t => task'[u] = task[u]
  BY GoesOn
<1>2. TaskTyped(k) /\ k.at \in {"idle", "sending", "calling"}
  BY DEF TaskTyped, Unasked
<1>3. ServerTyped'
  BY <1>1, <1>2 DEF ServerTyped, TaskTyped
<1>4. OneHolder' /\ GenerationsBehind' /\ ListedFresh'
  BY <1>1, <1>2 DEF OneHolder, GenerationsBehind, ListedFresh
<1>5. CatalogFresh'
  BY DEF CatalogFresh, Connected, Cached
<1> QED BY <1>3, <1>4, <1>5

LEMMA CallsKeeps ==
    ASSUME NEW t \in Tasks, ServerInv, Calls(t) PROVE ServerInv'
<1> USE DEF ServerInv
<1>1. /\ task[t].at = "peer" /\ task[t].on \in Nat
      /\ UNCHANGED <<peer, open, doomed, made, generation, catalog, failures, mutex, version,
                     notices, misled>>
  BY DEF Calls, ServerTyped, TaskTyped
<1>2. CASE task[t].on \in open
  <2>1. PICK n \in Nat : calls \in [1..n -> RunningCall]
    BY DEF ServerTyped
  <2>2. DOMAIN calls = 1..n /\ Cardinality(DOMAIN calls) = n
    BY <2>1, FS_Interval
  <2> DEFINE new == [on |-> task[t].on, at |-> "running", notice |-> "none"]
             k == [at |-> "sending", call |-> n + 1]
  <2>3. calls' = [i \in 1..(n + 1) |-> IF i = n + 1 THEN new ELSE calls[i]] /\ Goes(t, k)
    BY <1>2, <2>2 DEF Calls
  <2>4. /\ new \in RunningCall /\ new.on = task[t].on /\ new.at = "running" /\ new.notice = "none"
        /\ k \in [at : {"sending", "calling"}, call : Nat] /\ k.at = "sending" /\ k.call = n + 1
    BY <1>1 DEF RunningCall
  <2> HIDE DEF new, k
  <2>5. n + 1 \in Nat /\ calls' \in [1..(n + 1) -> RunningCall]
    BY <2>1, <2>3, <2>4
  <2>6. /\ DOMAIN calls' = 1..(n + 1) /\ calls'[n + 1] = new
        /\ \A i \in 1..n : calls'[i] = calls[i]
    BY <2>3
  <2>7. ServerTyped' /\ OneHolder' /\ GenerationsBehind' /\ ListedFresh' /\ CatalogFresh'
    BY <1>1, <2>3, <2>4, <2>5, CallerKeeps
  <2>8. /\ DOMAIN task' = Tasks /\ task'[t] = k
        /\ \A u \in Tasks : u # t => task'[u] = task[u]
    BY <2>3, GoesOn
  <2>9. Numbered'
    <3>1. \A i \in 1..(n + 1) : calls'[i].on <= made
      BY <1>2, <2>2, <2>4, <2>6 DEF Numbered
    <3>2. \A u \in Tasks : task'[u].at = "connecting" => task[u].at = "connecting" /\ u # t
      BY <1>1, <2>4, <2>8
    <3>3. \A u \in Tasks : task'[u].at = "connecting" =>
              \A i \in 1..(n + 1) : calls'[i].on # task[u].on
      BY <1>2, <2>2, <2>4, <2>6, <3>2 DEF Numbered
    <3> QED BY <1>1, <2>6, <2>8, <3>1, <3>2, <3>3 DEF Numbered
  <2>10. CallersKnown' /\ CallsAccounted'
    <3>1. \A u \in Tasks, c \in 1..n : Waits(u, c)' <=> Waits(u, c)
      BY <1>1, <2>2, <2>4, <2>8 DEF Waits
    <3>2. \A u \in Tasks : Waits(u, n + 1)' <=> u = t
      <4>1. \A u \in Tasks : ~Waits(u, n + 1)
        BY <2>2 DEF CallersKnown
      <4> QED BY <2>4, <2>8, <4>1 DEF Waits
    <3>3. \A u \in Tasks, c \in Nat : Waits(u, c)' => c \in 1..(n + 1)
      BY <1>1, <2>2, <2>4, <2>8 DEF CallersKnown, Waits
    <3>4. CallersKnown'
      BY <2>2, <2>6, <3>1, <3>2, <3>3 DEF CallersKnown
    <3>5. \A c \in 1..n : calls'[c] = calls[c] /\ open' = open
      BY <1>1, <2>6
    <3>6. CallsAccounted'
      BY <2>2, <2>4, <2>6, <3>1, <3>2, <3>5 DEF CallsAccounted
    <3> QED BY <3>4, <3>6
  <2> QED BY <2>7, <2>9, <2>10
<1>3. CASE task[t].on \notin open
  <2>1. Goes(t, Unasked) /\ UNCHANGED calls
    BY <1>3 DEF Calls
  <2>2. Unasked.at = "idle" BY DEF Unasked
  <2>3. ServerTyped' /\ OneHolder' /\ GenerationsBehind' /\ ListedFresh' /\ CatalogFresh'
    BY <1>1, <2>1, <2>2, CallerKeeps DEF ServerTyped
  <2>4. /\ DOMAIN task' = Tasks /\ task'[t] = Unasked
        /\ \A u \in Tasks : u # t => task'[u] = task[u]
    BY <2>1, GoesOn
  <2>5. Numbered' /\ CallersKnown' /\ CallsAccounted'
    BY <1>1, <2>1, <2>2, <2>4 DEF Numbered, CallersKnown, CallsAccounted, Waits
  <2> QED BY <2>3, <2>5
<1> QED BY <1>2, <1>3

\* The request is sent: the task waits for the same call.
LEMMA SentKeeps ==
    ASSUME NEW t \in Tasks, ServerInv, Sent(t) PROVE ServerInv'
<1> USE DEF ServerInv
<1> DEFINE k == [task[t] EXCEPT !.at = "calling"]
<1>1. /\ task[t].at = "sending" /\ Goes(t, k)
      /\ UNCHANGED <<peer, open, doomed, made, generation, catalog, failures, mutex, version,
                     notices, calls, misled>>
  BY DEF Sent
<1>2. k \in [at : {"sending", "calling"}, call : Nat] /\ k.at = "calling" /\ k.call = task[t].call
  BY <1>1 DEF ServerTyped, TaskTyped
<1> HIDE DEF k
<1>3. ServerTyped' /\ OneHolder' /\ GenerationsBehind' /\ ListedFresh' /\ CatalogFresh'
  BY <1>1, <1>2, CallerKeeps DEF ServerTyped
<1>4. /\ DOMAIN task' = Tasks /\ task'[t] = k
      /\ \A u \in Tasks : u # t => task'[u] = task[u]
  BY <1>1, GoesOn
<1>5. \A u \in Tasks, c \in Nat : Waits(u, c)' <=> Waits(u, c)
  BY <1>1, <1>2, <1>4 DEF Waits
<1>6. \A u \in Tasks, c \in DOMAIN calls : Waits(u, c)' <=> Waits(u, c)
  BY <1>1, <1>2, <1>4 DEF Waits
<1>7. Numbered' /\ CallersKnown' /\ CallsAccounted'
  BY <1>1, <1>2, <1>4, <1>5, <1>6 DEF Numbered, CallersKnown, CallsAccounted
<1> QED BY <1>3, <1>7

\* A call that is over for its task is not running any more, has no connection, or its notice is
\* somebody's.
LEMMA CallOverKeeps ==
    ASSUME NEW t \in Tasks, ServerInv, task[t].at \in {"sending", "calling"}, Goes(t, Unasked),
           NEW c, c = task[t].call, NEW after \in RunningCall, after.on = calls[c].on,
           calls' = [calls EXCEPT ![c] = after],
           \/ after.at # "running" \/ after.notice # "none" \/ after.on \notin open,
           UNCHANGED <<peer, open, doomed, made, generation, catalog, failures, mutex, version,
                       notices, misled>>
    PROVE ServerInv'
<1> USE DEF ServerInv
<1>1. PICK n \in Nat : calls \in [1..n -> RunningCall]
  BY DEF ServerTyped
<1>2. DOMAIN calls = 1..n /\ c \in Nat /\ Waits(t, c)
  BY <1>1 DEF ServerTyped, TaskTyped, Waits
<1>3. c \in 1..n /\ \A u \in Tasks : Waits(u, c) => u = t
  BY <1>2 DEF CallersKnown
<1>4. /\ calls' \in [1..n -> RunningCall] /\ calls'[c] = after /\ DOMAIN calls' = 1..n
      /\ \A i \in 1..n : i # c => calls'[i] = calls[i]
  BY <1>1, <1>3
<1>5. Unasked.at = "idle" BY DEF Unasked
<1>6. ServerTyped' /\ OneHolder' /\ GenerationsBehind' /\ ListedFresh' /\ CatalogFresh'
  BY <1>4, CallerKeeps
<1>7. /\ DOMAIN task' = Tasks /\ task'[t] = Unasked
      /\ \A u \in Tasks : u # t => task'[u] = task[u]
  BY GoesOn
<1>8. \A i \in 1..n : calls'[i].on = calls[i].on
  BY <1>4
<1>9. Numbered'
  BY <1>2, <1>4, <1>5, <1>7, <1>8 DEF Numbered
<1>10. \A u \in Tasks, i \in Nat : Waits(u, i)' => u # t /\ Waits(u, i) /\ i # c
  BY <1>3, <1>5, <1>7 DEF Waits
<1>11. \A u \in Tasks, i \in Nat : Waits(u, i) /\ i # c => Waits(u, i)'
  BY <1>2, <1>7 DEF Waits
<1>12. CallersKnown'
  BY <1>2, <1>4, <1>10 DEF CallersKnown
<1>13. CallsAccounted'
  <2> SUFFICES ASSUME NEW i \in 1..n
               PROVE  /\ calls'[i].at = "running" /\ calls'[i].on \in open /\ calls'[i].notice = "none"
                            => \E u \in Tasks : Waits(u, i)'
                      /\ (\E u \in Tasks : Waits(u, i)') =>
                            calls'[i].notice = "none" /\ calls'[i].at = "running"
    BY <1>4 DEF CallsAccounted
  <2>1. CASE i = c
    BY <1>4, <1>10, <2>1
  <2>2. CASE i # c
    BY <1>2, <1>4, <1>10, <1>11, <2>2 DEF CallsAccounted
  <2> QED BY <2>1, <2>2
<1> QED BY <1>6, <1>9, <1>12, <1>13

\* The three ends of a call, one by one.
LEMMA CallLeavesKeeps ==
    ASSUME NEW t \in Tasks, ServerInv, Unsent(t) \/ CallEnds(t) \/ Dropped(t) PROVE ServerInv'
<1> DEFINE c == task[t].call
<1>1. /\ task[t].at \in {"sending", "calling"} /\ Goes(t, Unasked)
      /\ UNCHANGED <<peer, open, doomed, made, generation, catalog, failures, mutex, version,
                     notices, misled>>
  BY DEF Unsent, CallEnds, Dropped
<1>2. PICK n \in Nat : calls \in [1..n -> RunningCall]
  BY DEF ServerInv, ServerTyped
<1>3. c \in 1..n
  BY <1>1, <1>2 DEF ServerInv, ServerTyped, TaskTyped, CallersKnown, Waits
<1>4. calls[c] \in RunningCall
  BY <1>2, <1>3
<1>5. PICK after \in RunningCall :
          /\ after.on = calls[c].on /\ calls' = [calls EXCEPT ![c] = after]
          /\ after.at # "running" \/ after.notice # "none" \/ after.on \notin open
  <2>1. CASE calls' = [calls EXCEPT ![c].at = "answered"]
    <3> DEFINE new == [calls[c] EXCEPT !.at = "answered"]
    <3>1. new \in RunningCall /\ new.on = calls[c].on /\ new.at # "running"
      BY <1>4 DEF RunningCall
    <3> QED BY <2>1, <3>1
  <2>2. ASSUME NEW over \in {"due", "over", "never"}, calls' = [calls EXCEPT ![c].notice = over]
        PROVE  \E after \in RunningCall :
                   /\ after.on = calls[c].on /\ calls' = [calls EXCEPT ![c] = after]
                   /\ after.at # "running" \/ after.notice # "none" \/ after.on \notin open
    <3> DEFINE new == [calls[c] EXCEPT !.notice = over]
    <3>1. new \in RunningCall /\ new.on = calls[c].on /\ new.notice # "none"
      BY <1>4 DEF RunningCall
    <3> QED BY <2>2, <3>1
  <2>3. CASE calls[c].on \notin open /\ UNCHANGED calls
    BY <1>2, <1>3, <1>4, <2>3
  <2>4. CASE Dropped(t)
    <3>1. calls' = [calls EXCEPT ![c].notice = "due"]
      BY <2>4 DEF Dropped, AfterDrop
    <3> QED BY <2>2, <3>1
  <2> QED BY <2>1, <2>2, <2>3, <2>4 DEF Unsent, CallEnds
<1> QED BY <1>1, <1>5, CallOverKeeps

\* What becomes of a call that nobody waits for.
LEMMA UnheardKeeps ==
    ASSUME ServerInv, NEW c \in DOMAIN calls, NoticeEnds(c) \/ EndsUnheard(c) PROVE ServerInv'
<1> USE DEF ServerInv
<1>1. UNCHANGED <<peer, open, doomed, made, generation, catalog, failures, mutex, task, version,
                  notices, misled>>
  BY DEF NoticeEnds, EndsUnheard
<1>2. PICK n \in Nat : calls \in [1..n -> RunningCall]
  BY DEF ServerTyped
<1>3. c \in 1..n /\ calls[c] \in RunningCall /\ calls[c].notice # "none"
  BY <1>2 DEF NoticeEnds, EndsUnheard
<1>4. PICK after \in RunningCall : /\ after.on = calls[c].on /\ after.notice # "none"
                                   /\ calls' = [calls EXCEPT ![c] = after]
  <2>1. [calls[c] EXCEPT !.notice = "over"] \in RunningCall
        /\ [calls[c] EXCEPT !.notice = "over"].on = calls[c].on
        /\ [calls[c] EXCEPT !.notice = "over"].notice # "none"
    BY <1>3 DEF RunningCall
  <2>2. [calls[c] EXCEPT !.notice = "over", !.at = "cancelled"] \in RunningCall
        /\ [calls[c] EXCEPT !.notice = "over", !.at = "cancelled"].on = calls[c].on
        /\ [calls[c] EXCEPT !.notice = "over", !.at = "cancelled"].notice # "none"
    BY <1>3 DEF RunningCall
  <2>3. [calls[c] EXCEPT !.at = "answered"] \in RunningCall
        /\ [calls[c] EXCEPT !.at = "answered"].on = calls[c].on
        /\ [calls[c] EXCEPT !.at = "answered"].notice # "none"
    BY <1>3 DEF RunningCall
  <2>4. \/ calls' = [calls EXCEPT ![c] = [calls[c] EXCEPT !.notice = "over"]]
        \/ calls' = [calls EXCEPT ![c] = [calls[c] EXCEPT !.notice = "over", !.at = "cancelled"]]
        \/ calls' = [calls EXCEPT ![c] = [calls[c] EXCEPT !.at = "answered"]]
    BY <1>2, <1>3 DEF NoticeEnds, EndsUnheard
  <2> QED BY <2>1, <2>2, <2>3, <2>4
<1>5. /\ calls' \in [1..n -> RunningCall] /\ calls'[c] = after /\ DOMAIN calls' = 1..n
      /\ DOMAIN calls = 1..n
      /\ \A i \in 1..n : calls'[i].on = calls[i].on /\ (i # c => calls'[i] = calls[i])
  BY <1>2, <1>3, <1>4
<1>6. ServerTyped' /\ OneHolder' /\ GenerationsBehind' /\ ListedFresh'
  BY <1>1, <1>5 DEF ServerTyped, OneHolder, GenerationsBehind, ListedFresh
<1>7. Numbered' /\ CatalogFresh'
  BY <1>1, <1>5 DEF Numbered, CatalogFresh, Connected, Cached
<1>8. CallersKnown' /\ CallsAccounted'
  BY <1>1, <1>3, <1>4, <1>5 DEF CallersKnown, CallsAccounted, Waits
<1> QED BY <1>6, <1>7, <1>8

\* What the server and the clock do leaves the tasks and their calls alone.
LEMMA OutsideKeeps ==
    ASSUME ServerInv,
           \/ Expires \/ BackoffEnds \/ Invalidate \/ ToolsChange \/ TransportCloses
           \/ \E c \in open \cup doomed : CancelConnection(c) \/ ToolListChanged(c)
    PROVE ServerInv'
<1> USE DEF ServerInv
<1>1. UNCHANGED <<made, task, calls, mutex, misled>> /\ open' \subseteq open
  BY DEF Expires, BackoffEnds, Invalidate, ToolsChange, TransportCloses, CancelConnection,
     ToolListChanged
<1>2. Numbered' /\ CallersKnown' /\ CallsAccounted' /\ OneHolder'
  BY <1>1 DEF Numbered, CallersKnown, CallsAccounted, OneHolder, Waits
<1>3. CASE Expires \/ BackoffEnds
  <2>1. /\ UNCHANGED <<peer, open, generation, version, notices>>
        /\ catalog' = catalog \/ catalog' = [catalog EXCEPT !.valid = FALSE]
    BY <1>3 DEF Expires, BackoffEnds
  <2>2. catalog \in [version : Nat, generation : Nat, valid : BOOLEAN]
    BY DEF ServerTyped
  <2>3. /\ catalog' \in [version : Nat, generation : Nat, valid : BOOLEAN]
        /\ catalog'.generation = catalog.generation /\ catalog'.version = catalog.version
        /\ catalog'.valid => catalog.valid
    BY <2>1, <2>2
  <2>4. ServerTyped' /\ GenerationsBehind' /\ ListedFresh'
    BY <1>1, <2>1, <2>3 DEF ServerTyped, GenerationsBehind, ListedFresh
  <2>5. CatalogFresh'
    BY <1>1, <2>1, <2>3 DEF CatalogFresh, Connected, Cached
  <2> QED BY <1>2, <2>4, <2>5
<1>4. CASE Invalidate
  <2>1. /\ peer' = 0 /\ catalog' = NoCatalog /\ generation' = generation + 1
        /\ UNCHANGED <<open, version, notices>> /\ mutex = NoTask
    BY <1>4 DEF Invalidate, StateFree
  <2>2. \A u \in Tasks : task[u].at \notin {"connecting", "listing", "listed"}
    BY <2>1 DEF OneHolder
  <2>3. ServerTyped' /\ GenerationsBehind' /\ ListedFresh'
    BY <1>1, <2>1, <2>2 DEF ServerTyped, GenerationsBehind, ListedFresh, NoCatalog
  <2>4. CatalogFresh'
    BY <2>1 DEF CatalogFresh, Connected
  <2> QED BY <1>2, <2>3, <2>4
<1>5. CASE ToolsChange
  <2>1. /\ version' = version + 1 /\ notices' = notices \cup open
        /\ UNCHANGED <<peer, open, generation, catalog>>
    BY <1>5 DEF ToolsChange
  <2>2. ServerTyped' /\ GenerationsBehind' /\ ListedFresh'
    BY <1>1, <2>1 DEF ServerTyped, GenerationsBehind, ListedFresh
  <2>3. CatalogFresh'
    BY <1>1, <2>1 DEF CatalogFresh, Connected
  <2> QED BY <1>2, <2>2, <2>3
<1>6. CASE \E c \in open \cup doomed : ToolListChanged(c)
  <2>1. generation' = generation + 1 /\ UNCHANGED <<peer, open, version, catalog>>
    BY <1>6 DEF ToolListChanged
  <2>2. ServerTyped' /\ GenerationsBehind'
    BY <1>1, <2>1 DEF ServerTyped, TaskTyped, GenerationsBehind
  <2>3. ListedFresh'
    BY <1>1, <2>1 DEF ServerTyped, TaskTyped, GenerationsBehind, ListedFresh
  <2>4. CatalogFresh'
    BY <1>1, <2>1 DEF ServerTyped, GenerationsBehind, CatalogFresh, Cached
  <2> QED BY <1>2, <2>2, <2>3, <2>4
<1>7. CASE TransportCloses \/ \E c \in open \cup doomed : CancelConnection(c)
  <2>1. /\ UNCHANGED <<peer, generation, version, catalog>>
        /\ peer \in open' => peer \in open /\ (peer \in notices => peer \in notices')
    BY <1>7 DEF TransportCloses, CancelConnection
  <2>2. ServerTyped' /\ GenerationsBehind' /\ ListedFresh'
    BY <1>1, <2>1 DEF ServerTyped, GenerationsBehind, ListedFresh
  <2>3. CatalogFresh'
    BY <1>1, <2>1 DEF CatalogFresh, Connected, Cached
  <2> QED BY <1>2, <2>2, <2>3
<1> QED BY <1>3, <1>4, <1>5, <1>6, <1>7

LEMMA ServerStep == ServerInv /\ [ServerNext]_serverVars => ServerInv'
<1> SUFFICES ASSUME ServerInv, [ServerNext]_serverVars PROVE ServerInv' OBVIOUS
<1>1. CASE UNCHANGED serverVars
  BY <1>1 DEF serverVars, ServerInv, ServerTyped, OneHolder, GenerationsBehind, ListedFresh,
     Numbered, CallersKnown, CatalogFresh, Connected, Cached, CallsAccounted, Waits
<1>2. CASE ServerNext
  BY <1>2, AsksKeeps, ConnectsKeeps, ToolsKeeps, ListsKeeps, KeepsKeeps, ListFailsKeeps,
     CallsKeeps, SentKeeps, CallLeavesKeeps, UnheardKeeps, OutsideKeeps DEF ServerNext
<1> QED BY <1>1, <1>2

\* The catalog a task is served is the one the server has; a call left running on a live
\* connection is waited for, had its notice spawned or was stopped before it was sent, and no
\* notice names a call that is waited for; for any number of tasks, connections, calls and
\* changes (Server::tools, Server::call, CancelOnDrop).
THEOREM ServersSoundCorrect == ServerSpec => []ServersSound
<1>1. ServerInv => ServersSound
  BY DEF ServerInv, ServersSound
<1> QED BY <1>1, ServerInitInv, ServerStep, PTL DEF ServerSpec

-----------------------------------------------------------------------------
(* Requests to one provider: what every step of a request keeps. *)

InSeries == {"check", "backoff", "pause", "sent"}

SendTyped ==
    /\ now \in Nat /\ until \in Nat /\ announced = until
    /\ rejected \in Seq(Items)
    /\ DOMAIN posted = Requests /\ heard \in [Requests -> Nat] /\ charged \in [Requests -> Nat]
    /\ \A r \in Requests :
        /\ DOMAIN posted[r] = {"phase", "wake", "attempt", "started", "unpriced", "recorded", "body",
                               "token", "renewed", "stripped", "outcome"}
        /\ posted[r].phase \in {"new", "ended"} \cup InSeries
        /\ posted[r].body \subseteq Items
        /\ posted[r].unpriced \in Nat

\* What the attempts of a series may have cost is what it has yet to record, or has recorded.
CostKnown == \A r \in Requests :
    /\ posted[r].phase \in InSeries => charged[r] = posted[r].unpriced
    /\ posted[r].phase = "sent" /\ posted[r].unpriced > 0 => posted[r].recorded = posted[r].unpriced
    /\ posted[r].phase = "new" => charged[r] = 0
\* A request whose reasoning was left out has none, and one that failed over it had none left.
ReasoningLeftOut == \A r \in Requests :
    /\ posted[r].stripped = TRUE => posted[r].body = {}
    /\ posted[r].phase # "ended" => posted[r].outcome = "none"
    /\ posted[r].outcome = "refused" /\ r \notin Compactions => posted[r].body = {}
    /\ posted[r].phase = "new" => posted[r].stripped = FALSE
MemoryBounded == Len(rejected) <= Capacity /\ IsInjective(rejected)
\* A request that waits was told of every pause announced when it looked.
PauseHeard == \A r \in Requests :
    posted[r].phase = "pause" => posted[r].wake \in Nat /\ heard[r] <= posted[r].wake

SendInv ==
    SendTyped /\ CostKnown /\ ReasoningLeftOut /\ MemoryBounded /\ PauseHeard

USE CapacityAssumption

LEMMA SendInitInv == SendInit => SendInv
<1> SUFFICES ASSUME SendInit PROVE SendInv OBVIOUS
<1>1. SendTyped /\ CostKnown /\ ReasoningLeftOut /\ PauseHeard
  BY DEF SendInit, SendTyped, CostKnown, ReasoningLeftOut, PauseHeard, Fresh, InSeries
<1>2. MemoryBounded
  BY DEF SendInit, MemoryBounded, IsInjective
<1> QED BY <1>1, <1>2 DEF SendInv

\* The state a request goes on with.
Sound(r, s, h, c) ==
    /\ DOMAIN s = {"phase", "wake", "attempt", "started", "unpriced", "recorded", "body",
                   "token", "renewed", "stripped", "outcome"}
    /\ s.phase \in {"ended"} \cup InSeries /\ s.body \subseteq Items /\ s.unpriced \in Nat
    /\ s.phase # "ended" => c = s.unpriced
    /\ s.phase = "sent" /\ s.unpriced > 0 => s.recorded = s.unpriced
    /\ s.stripped = TRUE => s.body = {}
    /\ s.phase # "ended" => s.outcome = "none"
    /\ s.outcome = "refused" /\ r \notin Compactions => s.body = {}
    /\ s.phase = "pause" => s.wake \in Nat /\ h <= s.wake

LEMMA UpdateKeeps ==
    ASSUME NEW r \in Requests, SendInv, NEW s, Update(r, s), NEW h \in Nat, NEW c \in Nat, Sound(r, s, h, c),
           heard' = [heard EXCEPT ![r] = h], charged' = [charged EXCEPT ![r] = c],
           UNCHANGED now, until' \in Nat, announced' = until', rejected' \in Seq(Items)
    PROVE  SendTyped' /\ CostKnown' /\ ReasoningLeftOut' /\ PauseHeard'
<1> USE DEF SendInv
<1>1. /\ DOMAIN posted' = Requests /\ DOMAIN heard' = Requests /\ DOMAIN charged' = Requests
      /\ posted'[r] = s /\ heard'[r] = h /\ charged'[r] = c
      /\ \A q \in Requests : q # r => /\ posted'[q] = posted[q] /\ heard'[q] = heard[q]
                                      /\ charged'[q] = charged[q]
  BY DEF SendTyped, Update
<1>2. SendTyped'
  BY <1>1 DEF SendTyped, Sound, InSeries
<1>3. CostKnown' /\ ReasoningLeftOut' /\ PauseHeard'
  BY <1>1 DEF CostKnown, ReasoningLeftOut, PauseHeard, Sound, InSeries
<1> QED BY <1>2, <1>3

\* What is known of a request in flight.
LEMMA KnownOf ==
    ASSUME NEW r \in Requests, SendInv, posted[r].phase # "ended"
    PROVE  /\ DOMAIN posted[r] = {"phase", "wake", "attempt", "started", "unpriced", "recorded",
                                  "body", "token", "renewed", "stripped", "outcome"}
           /\ posted[r].body \subseteq Items /\ posted[r].unpriced \in Nat
           /\ posted[r].stripped = TRUE => posted[r].body = {}
           /\ posted[r].outcome = "none"
           /\ posted[r].phase \in InSeries => charged[r] = posted[r].unpriced
           /\ posted[r].phase = "new" => charged[r] = 0
BY DEF SendInv, SendTyped, CostKnown, ReasoningLeftOut

LEMMA EndedSound ==
    ASSUME NEW r \in Requests, SendInv, posted[r].phase # "ended", NEW outcome, NEW h, NEW c,
           outcome = "refused" /\ r \notin Compactions => posted[r].body = {}
    PROVE  Sound(r, Ended(posted[r], outcome), h, c)
BY KnownOf DEF Sound, Ended, Fresh, InSeries

LEMMA SeriesSound ==
    ASSUME NEW r \in Requests, SendInv, posted[r].phase # "ended", NEW body \in SUBSET Items,
           NEW with, NEW renewed, NEW h,
           posted[r].stripped = TRUE => body = {}
    PROVE  /\ Sound(r, Series(posted[r], body, with, renewed), h, 0)
           /\ body = {} => Sound(r, [Series(posted[r], body, with, renewed) EXCEPT !.stripped = TRUE],
                                 h, 0)
BY KnownOf DEF Sound, Series, InSeries

LEMMA PrepareKeeps == ASSUME NEW r \in Requests, SendInv, Prepare(r) PROVE SendInv'
<1>1. posted[r].phase = "new" /\ UNCHANGED <<now, until, token, rejected, announced, heard, charged>>
  BY DEF Prepare, In, ghosts
<1>2. PICK body \in {Accepted, {}} : Update(r, Series(posted[r], body, token, FALSE))
  BY DEF Prepare
<1>3. body \in SUBSET Items /\ posted[r].stripped = FALSE /\ charged[r] = 0
  BY <1>1, <1>2 DEF Accepted, SendInv, ReasoningLeftOut, CostKnown
<1>4. Sound(r, Series(posted[r], body, token, FALSE), heard[r], 0)
  BY <1>1, <1>3, SeriesSound
<1>5. heard' = [heard EXCEPT ![r] = heard[r]] /\ charged' = [charged EXCEPT ![r] = 0]
  BY <1>1, <1>3 DEF SendInv, SendTyped
<1>6. SendTyped' /\ CostKnown' /\ ReasoningLeftOut' /\ PauseHeard'
  BY <1>1, <1>2, <1>4, <1>5, UpdateKeeps DEF SendInv, SendTyped
<1> QED BY <1>1, <1>6 DEF SendInv, MemoryBounded

LEMMA LookKeeps == ASSUME NEW r \in Requests, SendInv, Look(r) PROVE SendInv'
<1> DEFINE waits == [posted[r] EXCEPT !.phase = "pause", !.wake = now + Remaining]
           s == IF Fits(r, Remaining) THEN waits ELSE Ended(posted[r], "paused")
<1>1. /\ posted[r].phase \in {"check", "backoff"} /\ Update(r, s)
      /\ heard' = [heard EXCEPT ![r] = announced]
      /\ UNCHANGED <<now, until, token, rejected, announced, charged>>
  BY DEF Look, In
<1>2. now + Remaining \in Nat /\ announced \in Nat /\ announced <= now + Remaining
  BY DEF Remaining, SendInv, SendTyped
<1>3. Sound(r, waits, announced, charged[r])
  BY <1>1, <1>2, KnownOf DEF Sound, InSeries
<1>4. Sound(r, Ended(posted[r], "paused"), announced, charged[r])
  BY <1>1, EndedSound
<1>5. Sound(r, s, announced, charged[r])
  BY <1>3, <1>4
<1> HIDE DEF s, waits
<1>6. charged' = [charged EXCEPT ![r] = charged[r]] /\ charged[r] \in Nat
  BY <1>1 DEF SendInv, SendTyped
<1>7. SendTyped' /\ CostKnown' /\ ReasoningLeftOut' /\ PauseHeard'
  BY <1>1, <1>2, <1>5, <1>6, UpdateKeeps DEF SendInv, SendTyped
<1> QED BY <1>1, <1>7 DEF SendInv, MemoryBounded

LEMMA SendKeeps == ASSUME NEW r \in Requests, SendInv, Send(r) PROVE SendInv'
<1> DEFINE s == [posted[r] EXCEPT !.phase = "sent", !.wake = 0, !.recorded = Reported(posted[r])]
<1>1. /\ posted[r].phase = "pause" /\ Update(r, s) /\ heard' = [heard EXCEPT ![r] = 0]
      /\ UNCHANGED <<now, until, token, rejected, announced, charged>>
  BY DEF Send, In
<1>2. /\ DOMAIN s = DOMAIN posted[r] /\ s.phase = "sent" /\ s.recorded = Reported(posted[r])
      /\ s.body = posted[r].body /\ s.unpriced = posted[r].unpriced
      /\ s.stripped = posted[r].stripped /\ s.outcome = posted[r].outcome
  BY <1>1, KnownOf
<1> HIDE DEF s
<1>3. Sound(r, s, 0, charged[r])
  BY <1>1, <1>2, KnownOf DEF Sound, InSeries, Reported
<1>4. charged' = [charged EXCEPT ![r] = charged[r]] /\ charged[r] \in Nat
  BY <1>1 DEF SendInv, SendTyped
<1>5. SendTyped' /\ CostKnown' /\ ReasoningLeftOut' /\ PauseHeard'
  BY <1>1, <1>3, <1>4, UpdateKeeps DEF SendInv, SendTyped
<1> QED BY <1>1, <1>5 DEF SendInv, MemoryBounded

\* A request that ends without having its cost touched.
LEMMA EndKeeps ==
    ASSUME NEW r \in Requests, SendInv, posted[r].phase \notin {"ended"}, NEW outcome,
           outcome = "refused" /\ r \notin Compactions => posted[r].body = {},
           Update(r, Ended(posted[r], outcome)), UNCHANGED <<now, until, announced, heard, charged>>,
           rejected' \in Seq(Items)
    PROVE  SendTyped' /\ CostKnown' /\ ReasoningLeftOut' /\ PauseHeard'
<1>1. Sound(r, Ended(posted[r], outcome), heard[r], charged[r])
  BY EndedSound
<1>2. /\ charged' = [charged EXCEPT ![r] = charged[r]] /\ charged[r] \in Nat
      /\ heard' = [heard EXCEPT ![r] = heard[r]] /\ heard[r] \in Nat
  BY DEF SendInv, SendTyped
<1> QED BY <1>1, <1>2, UpdateKeeps DEF SendInv, SendTyped

LEMMA RecordingFailsKeeps ==
    ASSUME NEW r \in Requests, SendInv, RecordingFails(r) PROVE SendInv'
<1>1. /\ posted[r].phase = "pause" /\ Update(r, Ended(posted[r], "failed"))
      /\ UNCHANGED <<now, until, token, rejected, announced, heard, charged>>
  BY DEF RecordingFails, In, ghosts
<1>2. SendTyped' /\ CostKnown' /\ ReasoningLeftOut' /\ PauseHeard'
  BY <1>1, EndKeeps DEF SendInv, SendTyped
<1> QED BY <1>1, <1>2 DEF SendInv, MemoryBounded

LEMMA AnsweredKeeps ==
    ASSUME NEW r \in Requests, SendInv, Answered(r) PROVE SendInv'
<1>1. PICK outcome \in {"answered", "failed"} :
          /\ posted[r].phase = "sent" /\ Update(r, Ended(posted[r], outcome))
          /\ UNCHANGED <<now, until, token, rejected, announced, heard, charged>>
  BY DEF Answered, In, ghosts
<1>2. SendTyped' /\ CostKnown' /\ ReasoningLeftOut' /\ PauseHeard'
  BY <1>1, EndKeeps DEF SendInv, SendTyped
<1> QED BY <1>1, <1>2 DEF SendInv, MemoryBounded

\* An attempt that is made again, or not: what it may have cost is added in both places.
LEMMA RetriedSound ==
    ASSUME NEW r \in Requests, SendInv, posted[r].phase = "sent", NEW delay, NEW worked \in BOOLEAN
    PROVE  Sound(r, Retried(r, delay, worked), heard[r], charged[r] + (IF worked THEN 1 ELSE 0))
<1> DEFINE n == IF worked THEN 1 ELSE 0
           s == [posted[r] EXCEPT !.phase = "backoff", !.wake = now + delay,
                                  !.attempt = posted[r].attempt + 1,
                                  !.unpriced = posted[r].unpriced + n]
<1>1. Sound(r, Ended(posted[r], "failed"), heard[r], charged[r] + n)
  BY EndedSound
<1>2. n \in Nat
  OBVIOUS
<1> HIDE DEF n
<1>3. /\ DOMAIN s = DOMAIN posted[r] /\ s.phase = "backoff"
      /\ s.body = posted[r].body /\ s.unpriced = posted[r].unpriced + n
      /\ s.stripped = posted[r].stripped /\ s.outcome = posted[r].outcome
  BY KnownOf
<1>4. Retried(r, delay, worked) \in {s, Ended(posted[r], "failed")}
  BY DEF Retried, n
<1> HIDE DEF s
<1>5. /\ posted[r].body \subseteq Items /\ posted[r].unpriced \in Nat
      /\ posted[r].stripped = TRUE => posted[r].body = {}
      /\ posted[r].outcome = "none" /\ charged[r] = posted[r].unpriced
      /\ DOMAIN posted[r] = {"phase", "wake", "attempt", "started", "unpriced", "recorded",
                             "body", "token", "renewed", "stripped", "outcome"}
  BY KnownOf DEF InSeries
<1>6. s.unpriced \in Nat /\ charged[r] + n = s.unpriced
  BY <1>2, <1>3, <1>5
<1>7. Sound(r, s, heard[r], charged[r] + n)
  BY <1>3, <1>5, <1>6 DEF Sound, InSeries
<1> QED BY <1>1, <1>4, <1>7 DEF n

LEMMA RetriedKeeps ==
    ASSUME NEW r \in Requests, SendInv, posted[r].phase = "sent", NEW delay, NEW worked \in BOOLEAN,
           Update(r, Retried(r, delay, worked)), Counted(r, worked),
           UNCHANGED <<now, heard, rejected>>, until' \in Nat, announced' = until'
    PROVE  SendInv'
<1>1. Sound(r, Retried(r, delay, worked), heard[r], charged[r] + (IF worked THEN 1 ELSE 0))
  BY RetriedSound
<1>2. /\ charged' = [charged EXCEPT ![r] = charged[r] + (IF worked THEN 1 ELSE 0)]
      /\ charged[r] + (IF worked THEN 1 ELSE 0) \in Nat
      /\ heard' = [heard EXCEPT ![r] = heard[r]] /\ heard[r] \in Nat /\ rejected' \in Seq(Items)
  BY DEF SendInv, SendTyped, Counted
<1>3. SendTyped' /\ CostKnown' /\ ReasoningLeftOut' /\ PauseHeard'
  BY <1>1, <1>2, UpdateKeeps
<1> QED BY <1>3 DEF SendInv, MemoryBounded

LEMMA LimitedKeeps == ASSUME NEW r \in Requests, SendInv, Limited(r) PROVE SendInv'
<1>1. PICK after \in 1..MaxDelay, worked \in BOOLEAN :
          /\ posted[r].phase = "sent"
          /\ until' = Deferred(after) /\ announced' = AtLeast(announced, now + after)
          /\ Update(r, Retried(r, AtLeast(after, Backoff(posted[r].attempt)), worked))
          /\ Counted(r, worked) /\ UNCHANGED <<now, token, rejected, heard>>
  BY DEF Limited, In
<1>2. until' \in Nat /\ announced' = until'
  BY <1>1 DEF Deferred, AtLeast, SendInv, SendTyped
<1> QED BY <1>1, <1>2, RetriedKeeps

LEMMA BrokenKeeps == ASSUME NEW r \in Requests, SendInv, Broken(r) PROVE SendInv'
<1>1. PICK worked \in BOOLEAN :
          /\ posted[r].phase = "sent"
          /\ Update(r, Retried(r, Backoff(posted[r].attempt), worked))
          /\ Counted(r, worked) /\ UNCHANGED <<now, until, token, rejected, announced, heard>>
  BY DEF Broken, In
<1>2. until' \in Nat /\ announced' = until'
  BY <1>1 DEF SendInv, SendTyped
<1> QED BY <1>1, <1>2, RetriedKeeps

\* A new series of a request that was sent starts with nothing to record.
LEMMA SeriesKeeps ==
    ASSUME NEW r \in Requests, SendInv, posted[r].phase = "sent", NEW s, Sound(r, s, heard[r], 0),
           Update(r, s), charged' = [charged EXCEPT ![r] = 0],
           UNCHANGED <<now, until, announced, heard>>, rejected' \in Seq(Items)
    PROVE  SendTyped' /\ CostKnown' /\ ReasoningLeftOut' /\ PauseHeard'
<1>1. heard' = [heard EXCEPT ![r] = heard[r]] /\ heard[r] \in Nat
  BY DEF SendInv, SendTyped
<1> QED BY <1>1, UpdateKeeps DEF SendInv, SendTyped

LEMMA RenewKeeps == ASSUME NEW r \in Requests, SendInv, Renew(r) PROVE SendInv'
<1>1. posted[r].phase = "sent" /\ UNCHANGED <<now, until, rejected, announced, heard>>
  BY DEF Renew, In
<1>2. rejected' \in Seq(Items) /\ posted[r].body \in SUBSET Items
  BY <1>1 DEF SendInv, SendTyped
<1>3. CASE \E with : /\ Update(r, Series(posted[r], posted[r].body, with, TRUE))
                     /\ charged' = [charged EXCEPT ![r] = 0]
  <2>1. PICK with : /\ Update(r, Series(posted[r], posted[r].body, with, TRUE))
                    /\ charged' = [charged EXCEPT ![r] = 0]
    BY <1>3
  <2>2. Sound(r, Series(posted[r], posted[r].body, with, TRUE), heard[r], 0)
    BY <1>1, <1>2, KnownOf, SeriesSound
  <2>3. SendTyped' /\ CostKnown' /\ ReasoningLeftOut' /\ PauseHeard'
    BY <1>1, <1>2, <2>1, <2>2, SeriesKeeps
  <2> QED BY <1>1, <2>3 DEF SendInv, MemoryBounded
<1>4. CASE Update(r, Ended(posted[r], "failed")) /\ UNCHANGED charged
  <2>1. SendTyped' /\ CostKnown' /\ ReasoningLeftOut' /\ PauseHeard'
    BY <1>1, <1>2, <1>4, EndKeeps
  <2> QED BY <1>1, <2>1 DEF SendInv, MemoryBounded
<1> QED BY <1>3, <1>4 DEF Renew

\* The memory of refused items: the oldest makes room, and none is there twice.
LEMMA RememberedSound ==
    ASSUME SendInv, NEW item \in Items
    PROVE  /\ Remembered(item) \in Seq(Items)
           /\ Len(Remembered(item)) <= Capacity /\ IsInjective(Remembered(item))
<1> DEFINE n == Len(rejected)
<1>1. rejected \in Seq(Items) /\ n \in Nat /\ n <= Capacity /\ DOMAIN rejected = 1..n
      /\ \A i, j \in 1..n : rejected[i] = rejected[j] => i = j
  BY DEF SendInv, SendTyped, MemoryBounded, IsInjective
<1>2. CASE item \in ToSet(rejected)
  BY <1>2 DEF Remembered, SendInv, SendTyped, MemoryBounded
<1>3. CASE item \notin ToSet(rejected)
  <2>1. \A i \in 1..n : rejected[i] # item
    BY <1>1, <1>3 DEF ToSet
  <2>2. CASE n = Capacity
    <3>1. rejected # << >>
      BY <1>1, <2>2
    <3>2. /\ Tail(rejected) \in Seq(Items) /\ Len(Tail(rejected)) = n - 1
          /\ \A i \in 1..(n - 1) : Tail(rejected)[i] = rejected[i + 1]
      BY <1>1, <3>1
    <3> DEFINE s == Append(Tail(rejected), item)
    <3>3. /\ s \in Seq(Items) /\ Len(s) = n /\ DOMAIN s = 1..n /\ s[n] = item
          /\ \A i \in 1..(n - 1) : s[i] = rejected[i + 1]
      BY <1>1, <2>2, <3>2
    <3>4. Remembered(item) = s
      BY <1>3, <2>2 DEF Remembered
    <3> HIDE DEF s
    <3>5. \A i, j \in 1..n : s[i] = s[j] => i = j
      BY <1>1, <2>1, <3>3
    <3> QED BY <1>1, <3>3, <3>4, <3>5 DEF IsInjective
  <2>3. CASE n # Capacity
    <3> DEFINE s == Append(rejected, item)
    <3>1. /\ s \in Seq(Items) /\ Len(s) = n + 1 /\ DOMAIN s = 1..(n + 1) /\ s[n + 1] = item
          /\ \A i \in 1..n : s[i] = rejected[i]
      BY <1>1
    <3>2. Remembered(item) = s
      BY <1>3, <2>3 DEF Remembered
    <3> HIDE DEF s
    <3>3. \A i, j \in 1..(n + 1) : s[i] = s[j] => i = j
      BY <1>1, <2>1, <3>1
    <3>4. IsInjective(s)
      BY <3>1, <3>3 DEF IsInjective
    <3>5. n + 1 <= Capacity
      <4>1. n \in Nat /\ n <= Capacity /\ n # Capacity
        BY <1>1, <2>3
      <4>2. Capacity \in Nat
        OBVIOUS
      <4> HIDE DEF n
      <4> QED BY <4>1, <4>2
    <3> QED BY <3>1, <3>2, <3>4, <3>5
  <2> QED BY <2>2, <2>3
<1> QED BY <1>2, <1>3

LEMMA RefusedKeeps == ASSUME NEW r \in Requests, SendInv, Refused(r) PROVE SendInv'
<1>1. posted[r].phase = "sent" /\ UNCHANGED <<now, until, token, announced, heard>>
  BY DEF Refused, In
<1>2. rejected' = rejected \/ \E item \in posted[r].body : rejected' = Remembered(item)
  BY DEF Refused
<1>3. posted[r].body \subseteq Items
  BY DEF SendInv, SendTyped
<1>4. rejected' \in Seq(Items) /\ MemoryBounded'
  BY <1>2, <1>3, RememberedSound DEF SendInv, SendTyped, MemoryBounded
<1>5. CASE posted[r].body = {} \/ posted[r].stripped \/ r \in Compactions
  <2>1. Update(r, Ended(posted[r], "refused")) /\ UNCHANGED charged
    BY <1>5 DEF Refused
  <2>2. r \notin Compactions => posted[r].body = {}
    BY <1>1, <1>5, KnownOf
  <2>3. SendTyped' /\ CostKnown' /\ ReasoningLeftOut' /\ PauseHeard'
    BY <1>1, <1>4, <2>1, <2>2, EndKeeps
  <2> QED BY <1>4, <2>3 DEF SendInv
<1>6. CASE ~(posted[r].body = {} \/ posted[r].stripped \/ r \in Compactions)
  <2> DEFINE s == [Series(posted[r], {}, token, FALSE) EXCEPT !.stripped = TRUE]
  <2>1. Update(r, s) /\ charged' = [charged EXCEPT ![r] = 0]
    BY <1>6 DEF Refused, Without
  <2>2. Sound(r, s, heard[r], 0)
    BY <1>1, SeriesSound
  <2> HIDE DEF s
  <2>3. SendTyped' /\ CostKnown' /\ ReasoningLeftOut' /\ PauseHeard'
    BY <1>1, <1>4, <2>1, <2>2, SeriesKeeps
  <2> QED BY <1>4, <2>3 DEF SendInv
<1> QED BY <1>5, <1>6

LEMMA SendStep == SendInv /\ [SendNext]_sendVars => SendInv'
<1> SUFFICES ASSUME SendInv, [SendNext]_sendVars PROVE SendInv' OBVIOUS
<1>1. CASE UNCHANGED sendVars
  BY <1>1 DEF sendVars, SendInv, SendTyped, CostKnown, ReasoningLeftOut, MemoryBounded, PauseHeard
<1>2. CASE Tick
  BY <1>2 DEF Tick, ghosts, SendInv, SendTyped, CostKnown, ReasoningLeftOut, MemoryBounded,
     PauseHeard
<1>3. CASE SendNext /\ ~Tick
  BY <1>3, PrepareKeeps, LookKeeps, SendKeeps, RecordingFailsKeeps, LimitedKeeps, BrokenKeeps,
     AnsweredKeeps, RenewKeeps, RefusedKeeps DEF SendNext
<1> QED BY <1>1, <1>2, <1>3

\* What an attempt may have cost is recorded before the next one, and only refused reasoning that
\* was sent is left out, for any number of requests and limits (send_with_retry,
\* RejectedReasoning).
THEOREM SendAccountedCorrect == SendSpec => []SendAccounted
<1>1. SendInv => SendAccounted
  BY DEF SendInv, SendTyped, CostKnown, ReasoningLeftOut, MemoryBounded, SendAccounted, CostRecorded,
     RefusalHandled, In, InSeries
<1> QED BY <1>1, SendInitInv, SendStep, PTL DEF SendSpec

\* A request that waited for a pause goes out when every pause announced before it looked is over
\* (ProviderCooldown).
THEOREM PauseKeptCorrect == SendSpec => PauseKept
<1>1. SendInv /\ [SendNext]_sendVars => [SentAfterPause]_sendVars
  <2> SUFFICES ASSUME SendInv, SendNext, NEW r \in Requests, posted[r].phase = "pause",
                      posted'[r].phase = "sent"
               PROVE  now >= heard[r]
    BY DEF SentAfterPause, In
  <2>1. Send(r)
    <3>1. \A q \in Requests : \A s : Update(q, s) => posted'[r] = IF q = r THEN s ELSE posted[r]
      BY DEF Update, SendInv, SendTyped
    <3>2. ~Tick
      BY DEF Tick
    <3>3. PICK q \in Requests : \/ Prepare(q) \/ Look(q) \/ Send(q) \/ RecordingFails(q)
                                \/ Limited(q) \/ Broken(q) \/ Answered(q) \/ Renew(q) \/ Refused(q)
      BY <3>2 DEF SendNext
    <3>4. q = r
      BY <3>1, <3>3 DEF Prepare, Look, Send, RecordingFails, Limited, Broken, Answered, Renew,
         Refused
    <3>5. posted[r].phase = "pause" => (Send(r) \/ RecordingFails(r))
      BY <3>3, <3>4 DEF Prepare, Look, Limited, Broken, Answered, Renew, Refused, In
    <3>6. ~RecordingFails(r)
      <4>1. Ended(posted[r], "failed").phase = "ended"
        BY DEF Ended, Fresh
      <4> QED BY <3>1, <4>1 DEF RecordingFails
    <3> QED BY <3>5, <3>6
  <2> QED BY <2>1 DEF Send, SendInv, SendTyped, PauseHeard
<1> QED BY <1>1, SendInitInv, SendStep, PTL DEF SendSpec, PauseKept

-----------------------------------------------------------------------------
(* A sign-in from the terminal: what is on its way between the runtime and the client. *)

StatusSet == [sequence : Nat, login : Nat,
              state : {"SignedOut", "Starting", "Pending", "Authenticated", "Failed"}]
LoginRequest == [do : {"login"}, request : Nat]
AnswerSet == [request : Nat, ok : BOOLEAN, status : StatusSet]
SignInTyped ==
    /\ auth \in StatusSet /\ view \in StatusSet /\ unsent \subseteq StatusSet
    /\ events \in Seq(StatusSet) /\ requests \in Seq(LoginRequest \cup [do : {"stop"}])
    /\ answers \in Seq(AnswerSet)
    /\ intent \in [request : Nat, sequence : Nat]
    /\ attempts \in Nat /\ stops \in Nat /\ opened \in Seq(Nat)
    /\ attempt \in [login : Nat, at : {"none", "starting", "pending"}]

\* The statuses that the client may still be shown, or shows.
Statuses == {auth, view} \cup unsent \cup ToSet(events) \cup {a.status : a \in ToSet(answers)}
\* None is newer than the runtime's own.
NoneNewer == \A s \in Statuses :
    s.sequence <= auth.sequence /\ (s.sequence = auth.sequence => s = auth)

AsksToSignIn(i) == requests[i].do = "login"
NoneAsked == \A i \in DOMAIN requests : ~AsksToSignIn(i)
\* Sign-ins are numbered as they are asked for, and the one wanted is the last.
InOrder ==
    /\ \A i \in DOMAIN requests : AsksToSignIn(i) =>
        /\ requests[i].request \in 1..attempts
        /\ \A j \in DOMAIN requests : i < j /\ AsksToSignIn(j) => requests[i].request < requests[j].request
    /\ \A a \in ToSet(answers) :
        a.request <= attempts /\ (a.ok /\ a.request # 0 => a.status.sequence # 0)
    /\ intent.request # 0 => intent.request = attempts
    /\ intent.request = 0 => intent.sequence = 0
\* A sign-in has begun when its request was taken, unless it was refused.
BegunInOrder ==
    /\ auth.login <= attempts /\ attempt.login <= attempts
    /\ auth.state \in {"Starting", "Pending"} => auth.login # 0
    /\ attempt.at # "none" => attempt.login # 0
    /\ \A i \in DOMAIN requests : AsksToSignIn(i) =>
          auth.login < requests[i].request /\ attempt.login < requests[i].request
\* When the last sign-in asked for was refused, no status is of it.
RefusedLast == \A a \in ToSet(answers) :
    ~a.ok /\ a.request # 0 /\ a.request = attempts =>
        NoneAsked /\ auth.login # attempts /\ attempt.login # attempts

\* The sequence number from which statuses are those of the last sign-in.
Begun(b) == \/ intent.sequence = b /\ b # 0
            \/ attempts # 0 /\ \E a \in ToSet(answers) :
                                  a.ok /\ a.request = attempts /\ a.status.sequence = b
LastBegun == \A b \in Nat : Begun(b) =>
    /\ b <= auth.sequence /\ NoneAsked
    /\ attempt.at # "none" => attempt.login = attempts
    /\ \A s \in Statuses : s.sequence >= b =>
        /\ s.state \in {"Starting", "Pending"} => s.login = attempts
        /\ attempt.at = "starting" /\ cut # attempts => s.state = "Starting"
        /\ auth.state = "Pending" /\ cut # attempts => s.state \in {"Starting", "Pending"}

\* A wish that was not answered yet will be; one that was answered is not settled.
WishAlive == intent.request # 0 /\ intent.sequence = 0 =>
    \/ \E i \in DOMAIN requests : AsksToSignIn(i) /\ requests[i].request = attempts
    \/ \E a \in ToSet(answers) : a.request = attempts
WishOpen == intent.sequence # 0 /\ view.sequence >= intent.sequence => view.state = "Starting"

OpenedFor(n) == \E i \in DOMAIN opened : opened[i] = n
Once ==
    /\ \A i, j \in DOMAIN opened : i # j => opened[i] # opened[j]
    /\ \A i \in DOMAIN opened : opened[i] \in 1..attempts
    /\ OpenedFor(attempts) => intent = NoIntent
\* The runtime's status is shown or on its way.
OnItsWay == ~missed =>
    \/ auth = view \/ auth \in unsent \/ auth \in ToSet(events)
    \/ \E a \in ToSet(answers) : a.ok /\ a.status = auth
\* A wish that no stop has ended was settled.
Settled == stops = 0 /\ attempts # 0 /\ intent = NoIntent =>
    /\ NoneAsked
    /\ cut # attempts =>
          /\ attempt.login = attempts => attempt.at # "starting"
          /\ auth.login = attempts /\ auth.state = "Pending" => OpenedFor(attempts)

SignInInv ==
    /\ SignInTyped /\ NoneNewer /\ InOrder /\ BegunInOrder /\ RefusedLast /\ LastBegun
    /\ WishAlive /\ WishOpen /\ Once /\ OnItsWay /\ Settled
LEMMA SignInInvInit == SignInInit => SignInInv
<1> SUFFICES ASSUME SignInInit PROVE SignInInv OBVIOUS
<1>1. /\ events = << >> /\ requests = << >> /\ answers = << >> /\ opened = << >>
      /\ DOMAIN events = {} /\ DOMAIN requests = {} /\ DOMAIN answers = {} /\ DOMAIN opened = {}
  BY DEF SignInInit
<1>2. SignInTyped
  BY DEF SignInInit, SignInTyped, Status, NoIntent, NoAttempt, StatusSet
<1>3. ToSet(events) = {} /\ ToSet(answers) = {}
  BY <1>1 DEF ToSet
<1>4. Statuses = {auth} /\ auth.sequence = 0 /\ auth.state = "SignedOut" /\ intent = NoIntent
      /\ view = auth /\ attempts = 0 /\ intent.request = 0 /\ intent.sequence = 0
      /\ auth.login = 0 /\ attempt.login = 0 /\ attempt.at = "none"
  BY <1>3 DEF Statuses, SignInInit, Status, NoIntent, NoAttempt
<1>5. /\ NoneNewer /\ InOrder /\ BegunInOrder /\ RefusedLast /\ LastBegun /\ WishAlive /\ WishOpen
      /\ Once /\ OnItsWay /\ Settled
  BY <1>1, <1>3, <1>4 DEF NoneNewer, InOrder, BegunInOrder, RefusedLast, LastBegun, Begun, NoneAsked,
     WishAlive, WishOpen, Once, OnItsWay, Settled, OpenedFor
<1> QED BY <1>2, <1>5 DEF SignInInv

LEMMA ShownAppended ==
    ASSUME NEW S, NEW q \in Seq(S), NEW e \in S
    PROVE  Append(q, e) \in Seq(S) /\ ToSet(Append(q, e)) = ToSet(q) \cup {e}
<1>1. /\ Append(q, e) \in Seq(S) /\ DOMAIN Append(q, e) = 1..(Len(q) + 1) /\ DOMAIN q = 1..Len(q)
      /\ Len(q) \in Nat /\ Append(q, e)[Len(q) + 1] = e
      /\ \A i \in 1..Len(q) : Append(q, e)[i] = q[i]
  OBVIOUS
<1> DEFINE p == Append(q, e)
<1>2. p \in Seq(S) /\ ToSet(p) = {p[i] : i \in 1..(Len(q) + 1)} /\ ToSet(q) = {q[i] : i \in 1..Len(q)}
  BY <1>1 DEF ToSet
<1> HIDE DEF p
<1>3. p[Len(q) + 1] = e /\ Len(q) \in Nat /\ \A i \in 1..Len(q) : p[i] = q[i]
  BY <1>1 DEF p
<1>4. ToSet(p) = ToSet(q) \cup {e}
  BY <1>2, <1>3
<1> QED BY <1>2, <1>4 DEF p

LEMMA ShownIn == ASSUME NEW S, NEW q \in Seq(S) PROVE ToSet(q) \subseteq S
BY DEF ToSet

LEMMA ShownTail ==
    ASSUME NEW S, NEW q \in Seq(S), q # << >>
    PROVE  /\ Tail(q) \in Seq(S) /\ Head(q) \in S /\ Head(q) \in ToSet(q)
           /\ ToSet(q) = ToSet(Tail(q)) \cup {Head(q)}
<1>1. /\ Tail(q) \in Seq(S) /\ DOMAIN Tail(q) = 1..(Len(q) - 1) /\ DOMAIN q = 1..Len(q)
      /\ Len(q) \in Nat /\ Len(q) # 0 /\ Head(q) = q[1] /\ q[1] \in S
      /\ \A i \in 1..(Len(q) - 1) : Tail(q)[i] = q[i + 1]
  OBVIOUS
<1>2. \A i \in 1..Len(q) : i = 1 \/ (i - 1 \in 1..(Len(q) - 1) /\ Tail(q)[i - 1] = q[i])
  BY <1>1
<1> DEFINE p == Tail(q)
<1>3. p \in Seq(S) /\ ToSet(p) = {p[i] : i \in 1..(Len(q) - 1)} /\ ToSet(q) = {q[i] : i \in 1..Len(q)}
  BY <1>1 DEF ToSet
<1>4. /\ \A i \in 1..(Len(q) - 1) : p[i] = q[i + 1]
      /\ \A i \in 1..Len(q) : i = 1 \/ (i - 1 \in 1..(Len(q) - 1) /\ p[i - 1] = q[i])
  BY <1>1, <1>2
<1> HIDE DEF p
<1>5. ToSet(q) = ToSet(p) \cup {q[1]}
  <2> DEFINE n == Len(q)
  <2>1. n \in Nat /\ 1 \in 1..n
    BY <1>1
  <2>2. /\ ToSet(p) = {p[i] : i \in 1..(n - 1)} /\ ToSet(q) = {q[i] : i \in 1..n}
        /\ \A i \in 1..(n - 1) : p[i] = q[i + 1]
        /\ \A i \in 1..n : i = 1 \/ (i - 1 \in 1..(n - 1) /\ p[i - 1] = q[i])
    BY <1>3, <1>4
  <2> HIDE DEF n
  <2>3. ToSet(q) \subseteq ToSet(p) \cup {q[1]}
    <3>1. ASSUME NEW i \in 1..n PROVE q[i] \in ToSet(p) \cup {q[1]}
      <4>1. CASE i = 1
        BY <4>1
      <4>2. CASE i # 1
        <5>1. i - 1 \in 1..(n - 1) /\ p[i - 1] = q[i]
          BY <2>2, <4>2
        <5>2. p[i - 1] \in ToSet(p)
          BY <2>2, <5>1
        <5> QED BY <5>1, <5>2
      <4> QED BY <4>1, <4>2
    <3> QED BY <2>2, <3>1
  <2>4. \A i \in 1..(n - 1) : i + 1 \in 1..n
    BY <2>1
  <2>5. ToSet(p) \subseteq ToSet(q)
    BY <2>2, <2>4
  <2> QED BY <2>1, <2>2, <2>3, <2>5
<1> QED BY <1>1, <1>3, <1>5 DEF p

\* A wish is none exactly when it has no number.
LEMMA NoWish ==
    ASSUME NEW i \in [request : Nat, sequence : Nat]
    PROVE  i = NoIntent <=> i.request = 0 /\ i.sequence = 0
BY DEF NoIntent

LEMMA SignInTypings ==
    ASSUME SignInInv
    PROVE  /\ auth \in StatusSet /\ view \in StatusSet /\ unsent \subseteq StatusSet
           /\ events \in Seq(StatusSet) /\ requests \in Seq(LoginRequest \cup [do : {"stop"}])
           /\ answers \in Seq(AnswerSet)
           /\ intent \in [request : Nat, sequence : Nat]
           /\ attempts \in Nat /\ stops \in Nat /\ opened \in Seq(Nat)
           /\ attempt \in [login : Nat, at : {"none", "starting", "pending"}]
           /\ auth.login \in Nat /\ attempt.login \in Nat
           /\ Statuses \subseteq StatusSet /\ auth \in Statuses /\ view \in Statuses
           /\ ToSet(events) \subseteq Statuses
           /\ \A a \in ToSet(answers) : a \in AnswerSet
                                         /\ a.status \in Statuses
<1>1. SignInTyped
  BY DEF SignInInv
<1>2. ToSet(events) \subseteq StatusSet
  BY <1>1, ShownIn DEF SignInTyped
<1>3. ToSet(answers) \subseteq AnswerSet
  BY <1>1, ShownIn DEF SignInTyped
<1>4. \A a \in ToSet(answers) : a.status \in StatusSet /\ a.status \in Statuses
  <2>1. SUFFICES ASSUME NEW a \in ToSet(answers) PROVE a.status \in StatusSet /\ a.status \in Statuses
    OBVIOUS
  <2>2. a.status \in {b.status : b \in ToSet(answers)}
    OBVIOUS
  <2>3. a.status \in Statuses
    BY <2>2 DEF Statuses
  <2> QED BY <1>3, <2>3 DEF AnswerSet
<1>5. Statuses \subseteq StatusSet
  <2>1. {a.status : a \in ToSet(answers)} \subseteq StatusSet
    BY <1>4
  <2>2. auth \in StatusSet /\ view \in StatusSet /\ unsent \subseteq StatusSet
    BY <1>1 DEF SignInTyped
  <2> QED BY <1>2, <2>1, <2>2 DEF Statuses
<1>6. auth \in Statuses /\ view \in Statuses /\ ToSet(events) \subseteq Statuses
  BY DEF Statuses
<1>7. auth.login \in Nat /\ attempt.login \in Nat
  BY <1>1 DEF SignInTyped, StatusSet
<1> QED BY <1>1, <1>3, <1>4, <1>5, <1>6, <1>7 DEF SignInTyped

LEMMA LoginKeeps == ASSUME SignInInv, Login PROVE SignInInv'
<1> DEFINE q == [do |-> "login", request |-> attempts + 1]
<1>1. /\ attempts' = attempts + 1 /\ intent' = [request |-> attempts + 1, sequence |-> 0]
      /\ requests' = Append(requests, q)
      /\ UNCHANGED <<auth, attempt, cut, unsent, events, answers, view, stops, opened, missed>>
  BY DEF Login
<1>2. q \in LoginRequest /\ q.do = "login" /\ q.request = attempts + 1 /\ attempts \in Nat
  BY SignInTypings DEF LoginRequest
<1> HIDE DEF q
<1>3. /\ intent'.request = attempts + 1 /\ intent'.sequence = 0 /\ intent' # NoIntent
      /\ intent' \in [request : Nat, sequence : Nat]
  BY <1>1, <1>2 DEF NoIntent
<1>4. /\ requests' \in Seq(LoginRequest \cup [do : {"stop"}]) /\ Len(requests) \in Nat
      /\ DOMAIN requests' = 1..(Len(requests) + 1) /\ DOMAIN requests = 1..Len(requests)
      /\ requests'[Len(requests) + 1] = q
      /\ \A i \in 1..Len(requests) : requests'[i] = requests[i]
  BY <1>1, <1>2, SignInTypings
<1>5. SignInTyped' /\ Statuses' = Statuses
  BY <1>1, <1>2, <1>3, <1>4, SignInTypings DEF SignInTyped, Statuses
<1>6. NoneNewer' /\ WishOpen' /\ OnItsWay' /\ Settled'
  BY <1>1, <1>3, <1>5 DEF SignInInv, NoneNewer, WishOpen, OnItsWay, Settled
<1>7. InOrder'
  <2>1. \A i \in DOMAIN requests' : requests'[i].do = "login" =>
            /\ requests'[i].request \in 1..(attempts + 1)
            /\ \A j \in DOMAIN requests' : i < j /\ requests'[j].do = "login"
                                             => requests'[i].request < requests'[j].request
    BY <1>2, <1>4 DEF SignInInv, InOrder, AsksToSignIn
  <2>2. \A a \in ToSet(answers) :
            a.request <= attempts + 1 /\ (a.ok /\ a.request # 0 => a.status.sequence # 0)
    BY <1>2, SignInTypings DEF SignInInv, InOrder, AnswerSet
  <2> QED BY <1>1, <1>2, <1>3, <2>1, <2>2 DEF SignInInv, InOrder, AsksToSignIn
<1>7a. BegunInOrder'
  <2>1. auth.login \in Nat /\ attempt.login \in Nat /\ auth.login <= attempts /\ attempt.login <= attempts
    BY SignInTypings DEF SignInInv, BegunInOrder
  <2>2. \A i \in DOMAIN requests' : requests'[i].do = "login" =>
            auth.login < requests'[i].request /\ attempt.login < requests'[i].request
    BY <1>2, <1>4, <2>1 DEF SignInInv, BegunInOrder, AsksToSignIn
  <2> QED BY <1>1, <1>2, <2>1, <2>2 DEF SignInInv, BegunInOrder, AsksToSignIn
<1>7b. \A a \in ToSet(answers) : a.request # attempts + 1
  BY <1>2, SignInTypings DEF SignInInv, InOrder, AnswerSet
<1>7c. RefusedLast'
  BY <1>1, <1>7b DEF RefusedLast
<1>8. LastBegun'
  BY <1>1, <1>3, <1>7b DEF LastBegun, Begun
<1>9. WishAlive'
  BY <1>1, <1>2, <1>4 DEF WishAlive, AsksToSignIn
<1>10. Once'
  <2>1. \A i \in DOMAIN opened : opened[i] \in 1..(attempts + 1) /\ opened[i] # attempts + 1
    BY <1>2 DEF SignInInv, Once
  <2> QED BY <1>1, <2>1 DEF SignInInv, Once, OpenedFor
<1> QED BY <1>5, <1>6, <1>7, <1>7a, <1>7c, <1>8, <1>9, <1>10 DEF SignInInv

LEMMA StopSignInKeeps == ASSUME SignInInv, StopSignIn PROVE SignInInv'
<1> DEFINE q == [do |-> "stop"]
<1>1. /\ stops' = stops + 1 /\ intent' = NoIntent /\ requests' = Append(requests, q)
      /\ UNCHANGED <<auth, attempt, cut, unsent, events, answers, view, attempts, opened, missed>>
  BY DEF StopSignIn
<1>2. q \in [do : {"stop"}] /\ q.do = "stop"
  OBVIOUS
<1> HIDE DEF q
<1>3. intent'.request = 0 /\ intent'.sequence = 0 /\ intent' \in [request : Nat, sequence : Nat]
  BY <1>1 DEF NoIntent
<1>4. /\ requests' \in Seq(LoginRequest \cup [do : {"stop"}]) /\ Len(requests) \in Nat
      /\ DOMAIN requests' = 1..(Len(requests) + 1) /\ DOMAIN requests = 1..Len(requests)
      /\ requests'[Len(requests) + 1].do = "stop"
      /\ \A i \in 1..Len(requests) : requests'[i] = requests[i]
  BY <1>1, <1>2, SignInTypings
<1>5. SignInTyped' /\ Statuses' = Statuses /\ stops' # 0
  BY <1>1, <1>3, <1>4, SignInTypings DEF SignInTyped, Statuses
<1>6. NoneNewer' /\ WishAlive' /\ WishOpen' /\ OnItsWay' /\ Settled' /\ Once'
  BY <1>1, <1>3, <1>5 DEF SignInInv, NoneNewer, WishAlive, WishOpen, OnItsWay, Settled, Once, OpenedFor
<1>7. InOrder'
  BY <1>1, <1>3, <1>4 DEF SignInInv, InOrder, AsksToSignIn
<1>8. NoneAsked => NoneAsked'
  BY <1>4 DEF NoneAsked, AsksToSignIn
<1>9. LastBegun' /\ RefusedLast'
  BY <1>1, <1>3, <1>5, <1>8 DEF SignInInv, LastBegun, RefusedLast, Begun
<1>10. BegunInOrder'
  BY <1>1, <1>4 DEF SignInInv, BegunInOrder, AsksToSignIn
<1> QED BY <1>5, <1>6, <1>7, <1>9, <1>10 DEF SignInInv

\* The statuses on their way become fewer, or are only carried on.
LEMMA CarriedKeeps ==
    ASSUME SignInInv,
           UNCHANGED <<auth, attempt, cut, view, intent, attempts, stops, opened, requests, answers>>,
           unsent' \subseteq unsent, events' \in Seq(StatusSet), ToSet(events') \subseteq Statuses,
           OnItsWay'
    PROVE  SignInInv'
<1>1. Statuses' \subseteq Statuses
  BY DEF Statuses
<1>2. SignInTyped'
  BY DEF SignInInv, SignInTyped
<1>3. /\ NoneNewer' /\ InOrder' /\ BegunInOrder' /\ RefusedLast' /\ WishAlive' /\ WishOpen'
      /\ Once' /\ Settled'
  BY <1>1 DEF SignInInv, NoneNewer, InOrder, BegunInOrder, RefusedLast, WishAlive, WishOpen, Once,
     OpenedFor, Settled, NoneAsked, AsksToSignIn
<1>4. LastBegun'
  BY <1>1 DEF SignInInv, LastBegun, Begun, NoneAsked, AsksToSignIn
<1> QED BY <1>2, <1>3, <1>4 DEF SignInInv

LEMMA ForwardKeeps ==
    ASSUME SignInInv, NEW s \in unsent, Forward(s) \/ ForwardLagged(s) PROVE SignInInv'
<1>1. /\ unsent' = unsent \ {s} /\ s \in StatusSet /\ auth \in StatusSet
      /\ events \in Seq(StatusSet)
      /\ UNCHANGED <<auth, attempt, cut, requests, answers, view, intent, attempts, stops, opened,
                     missed>>
  BY SignInTypings DEF Forward, ForwardLagged, clientVars
<1>2. CASE Forward(s)
  <2>1. events' = Append(events, s)
    BY <1>2 DEF Forward
  <2>2. events' \in Seq(StatusSet) /\ ToSet(events') = ToSet(events) \cup {s}
    BY <1>1, <2>1, ShownAppended
  <2>3. ToSet(events') \subseteq Statuses
    BY <2>2 DEF Statuses
  <2>4. OnItsWay'
    BY <1>1, <2>2 DEF SignInInv, OnItsWay
  <2> QED BY <1>1, <2>2, <2>3, <2>4, CarriedKeeps
<1>3. CASE ForwardLagged(s)
  <2>1. events' = Append(events, auth) /\ s # auth
    BY <1>3 DEF ForwardLagged
  <2>2. events' \in Seq(StatusSet) /\ ToSet(events') = ToSet(events) \cup {auth}
    BY <1>1, <2>1, ShownAppended
  <2>3. ToSet(events') \subseteq Statuses
    BY <2>2 DEF Statuses
  <2>4. OnItsWay'
    BY <1>1, <2>1, <2>2 DEF SignInInv, OnItsWay
  <2> QED BY <1>1, <2>2, <2>3, <2>4, CarriedKeeps
<1> QED BY <1>2, <1>3

LEMMA ClientLagsKeeps == ASSUME SignInInv, ClientLags PROVE SignInInv'
<1>1. /\ events' = Tail(events) /\ missed' = TRUE
      /\ UNCHANGED <<auth, attempt, cut, unsent, requests, answers, view, intent, attempts, stops,
                     opened>>
  BY DEF ClientLags
<1>2. events # << >>
  <2>1. Len(events) # 0
    BY EventsAssumption DEF ClientLags
  <2> QED BY <2>1, SignInTypings
<1>3. /\ events' \in Seq(StatusSet) /\ ToSet(events') \subseteq ToSet(events)
  BY <1>1, <1>2, SignInTypings, ShownTail
<1> QED BY <1>1, <1>3, SignInTypings, CarriedKeeps DEF OnItsWay

\* A status that is published is newer than every other one.
LEMMA Published ==
    ASSUME SignInInv, NEW state \in {"SignedOut", "Starting", "Pending", "Authenticated", "Failed"},
           NEW n \in Nat, Publish(state, n)
    PROVE  /\ auth' \in StatusSet /\ auth'.sequence = auth.sequence + 1 /\ auth'.state = state
           /\ auth'.login = n /\ auth.sequence \in Nat /\ unsent' = unsent \cup {auth'}
           /\ unsent' \subseteq StatusSet
           /\ \A s \in Statuses : s.sequence \in Nat /\ s.sequence <= auth.sequence
                                  /\ s.sequence < auth'.sequence
<1>1. auth' = Status(auth.sequence + 1, state, n) /\ unsent' = unsent \cup {auth'}
  BY DEF Publish
<1>2. auth \in StatusSet /\ Statuses \subseteq StatusSet /\ unsent \subseteq StatusSet
  BY SignInTypings
<1>3. /\ auth' \in StatusSet /\ auth'.sequence = auth.sequence + 1 /\ auth'.state = state
      /\ auth'.login = n /\ auth.sequence \in Nat
  BY <1>1, <1>2 DEF Status, StatusSet
<1>4. \A s \in Statuses : s.sequence \in Nat /\ s.sequence <= auth.sequence
  BY <1>2 DEF StatusSet, SignInInv, NoneNewer
<1> QED BY <1>1, <1>2, <1>3, <1>4

\* What a publication leaves alone, when nothing else changes for the client.
LEMMA PublishedKeeps ==
    ASSUME SignInInv, NEW state \in {"SignedOut", "Starting", "Pending", "Authenticated", "Failed"},
           NEW n \in Nat, Publish(state, n),
           UNCHANGED <<events, requests, answers, view, intent, attempts, stops, opened, missed>>,
           attempt' \in [login : Nat, at : {"none", "starting", "pending"}]
    PROVE  /\ SignInTyped' /\ NoneNewer' /\ InOrder' /\ WishAlive' /\ WishOpen' /\ Once' /\ OnItsWay'
           /\ \A s \in Statuses' : s = auth' \/ s \in Statuses
           /\ auth'.sequence = auth.sequence + 1 /\ auth.sequence \in Nat
           /\ auth'.state = state /\ auth'.login = n
<1>1. /\ auth' \in StatusSet /\ auth'.sequence = auth.sequence + 1 /\ auth'.state = state
      /\ auth'.login = n /\ auth.sequence \in Nat /\ unsent' = unsent \cup {auth'}
      /\ unsent' \subseteq StatusSet
      /\ \A s \in Statuses : s.sequence \in Nat /\ s.sequence <= auth.sequence
                             /\ s.sequence < auth'.sequence
  BY Published
<1>2. SignInTyped'
  BY <1>1 DEF SignInInv, SignInTyped
<1>3. \A s \in Statuses' : s = auth' \/ s \in Statuses
  BY <1>1 DEF Statuses
<1>4. NoneNewer'
  BY <1>1, <1>3 DEF NoneNewer
<1>5. InOrder' /\ WishAlive' /\ WishOpen' /\ Once'
  BY DEF SignInInv, InOrder, WishAlive, WishOpen, Once, OpenedFor, AsksToSignIn
<1>6. OnItsWay'
  BY <1>1 DEF OnItsWay
<1> QED BY <1>1, <1>2, <1>3, <1>4, <1>5, <1>6

LEMMA ProgressKeeps == ASSUME SignInInv, Progress PROVE SignInInv'
<1>1. UNCHANGED <<cut, events, requests, answers, view, intent, attempts, stops, opened, missed>>
  BY DEF Progress, clientVars
<1>2. attempt \in [login : Nat, at : {"none", "starting", "pending"}] /\ attempt.login \in Nat
  BY SignInTypings
<1>3. PICK state \in {"SignedOut", "Starting", "Pending", "Authenticated", "Failed"} :
          /\ Publish(state, attempt.login) /\ attempt.at # "none"
          /\ state \notin {"Starting", "SignedOut"}
          /\ \/ /\ state = "Pending" /\ attempt.at = "starting"
                /\ attempt' = [attempt EXCEPT !.at = "pending"]
             \/ state # "Pending" /\ attempt' = NoAttempt
  BY DEF Progress
<1>4. /\ attempt' \in [login : Nat, at : {"none", "starting", "pending"}]
      /\ attempt'.at # "starting"
      /\ attempt'.at # "none" => state = "Pending" /\ attempt'.login = attempt.login
      /\ attempt'.login \in {attempt.login, 0}
      /\ state = "Pending" => attempt.at = "starting"
  BY <1>2, <1>3 DEF NoAttempt
<1>5. /\ SignInTyped' /\ NoneNewer' /\ InOrder' /\ WishAlive' /\ WishOpen' /\ Once' /\ OnItsWay'
      /\ \A s \in Statuses' : s = auth' \/ s \in Statuses
      /\ auth'.sequence = auth.sequence + 1 /\ auth.sequence \in Nat
      /\ auth'.state = state /\ auth'.login = attempt.login
  BY <1>1, <1>2, <1>3, <1>4, PublishedKeeps
<1>6. attempt.login # 0 /\ attempt.login <= attempts /\ attempts \in Nat
  BY <1>3, SignInTypings DEF SignInInv, BegunInOrder
<1>7. BegunInOrder'
  <2>1. \A i \in DOMAIN requests : AsksToSignIn(i) => 0 < requests[i].request
    BY DEF SignInInv, InOrder
  <2> QED BY <1>1, <1>2, <1>4, <1>5, <1>6, <2>1 DEF SignInInv, BegunInOrder, AsksToSignIn
<1>8. RefusedLast'
  <2> SUFFICES ASSUME NEW a \in ToSet(answers), ~a.ok, a.request # 0, a.request = attempts
               PROVE  NoneAsked' /\ auth'.login # attempts /\ attempt'.login # attempts
    BY <1>1 DEF RefusedLast
  <2>1. NoneAsked /\ attempt.login # attempts
    BY DEF SignInInv, RefusedLast
  <2> QED BY <1>1, <1>4, <1>5, <1>6, <2>1 DEF NoneAsked, AsksToSignIn
<1>9. LastBegun'
  <2> SUFFICES ASSUME NEW b \in Nat, Begun(b)'
               PROVE  /\ b <= auth'.sequence /\ NoneAsked'
                      /\ attempt'.at # "none" => attempt'.login = attempts
                      /\ \A s \in Statuses' : s.sequence >= b =>
                            /\ s.state \in {"Starting", "Pending"} => s.login = attempts
                            /\ state = "Pending" /\ cut # attempts =>
                                  s.state \in {"Starting", "Pending"}
    BY <1>1, <1>4, <1>5 DEF LastBegun
  <2>1. Begun(b)
    BY <1>1 DEF Begun
  <2>2. /\ b <= auth.sequence /\ NoneAsked /\ attempt.login = attempts
        /\ \A s \in Statuses : s.sequence >= b =>
              /\ s.state \in {"Starting", "Pending"} => s.login = attempts
              /\ attempt.at = "starting" /\ cut # attempts => s.state = "Starting"
    BY <1>3, <2>1 DEF SignInInv, LastBegun
  <2>3. b <= auth'.sequence /\ NoneAsked'
    BY <1>1, <1>5, <2>2 DEF NoneAsked, AsksToSignIn
  <2>4. ASSUME NEW s \in Statuses', s.sequence >= b
        PROVE  /\ s.state \in {"Starting", "Pending"} => s.login = attempts
               /\ state = "Pending" /\ cut # attempts => s.state \in {"Starting", "Pending"}
    BY <1>4, <1>5, <2>2, <2>4
  <2> QED BY <1>4, <2>2, <2>3, <2>4
<1>10. Settled'
  BY <1>1, <1>3, <1>4, <1>5 DEF SignInInv, Settled, NoneAsked, AsksToSignIn, OpenedFor
<1> QED BY <1>5, <1>7, <1>8, <1>9, <1>10 DEF SignInInv

\* A refused connection: its status is of no sign-in, and the one under way is cut.
LEMMA ConnectionRefusedKeeps == ASSUME SignInInv, ConnectionRefused PROVE SignInInv'
<1>1. /\ UNCHANGED <<attempt, events, requests, answers, view, intent, attempts, stops, opened, missed>>
      /\ Publish("Failed", 0) /\ cut' = IF attempt.at = "starting" THEN attempt.login ELSE cut
  BY DEF ConnectionRefused, clientVars
<1>2. attempt' \in [login : Nat, at : {"none", "starting", "pending"}]
  BY <1>1, SignInTypings
<1>3. /\ SignInTyped' /\ NoneNewer' /\ InOrder' /\ WishAlive' /\ WishOpen' /\ Once' /\ OnItsWay'
      /\ \A s \in Statuses' : s = auth' \/ s \in Statuses
      /\ auth'.sequence = auth.sequence + 1 /\ auth.sequence \in Nat
      /\ auth'.state = "Failed" /\ auth'.login = 0
  BY <1>1, <1>2, PublishedKeeps
<1>4. attempts \in Nat /\ \A i \in DOMAIN requests : AsksToSignIn(i) => 0 < requests[i].request
  BY SignInTypings DEF SignInInv, InOrder
<1>5. BegunInOrder' /\ RefusedLast'
  BY <1>1, <1>3, <1>4 DEF SignInInv, BegunInOrder, RefusedLast, NoneAsked, AsksToSignIn
<1>6. LastBegun'
  <2> SUFFICES ASSUME NEW b \in Nat, Begun(b)'
               PROVE  /\ b <= auth'.sequence /\ NoneAsked'
                      /\ attempt.at # "none" => attempt.login = attempts
                      /\ \A s \in Statuses' : s.sequence >= b =>
                            /\ s.state \in {"Starting", "Pending"} => s.login = attempts
                            /\ attempt.at = "starting" /\ cut' # attempts => s.state = "Starting"
    BY <1>1, <1>3 DEF LastBegun
  <2>1. Begun(b)
    BY <1>1 DEF Begun
  <2>2. /\ b <= auth.sequence /\ NoneAsked
        /\ attempt.at # "none" => attempt.login = attempts
        /\ \A s \in Statuses : s.sequence >= b =>
              (s.state \in {"Starting", "Pending"} => s.login = attempts)
    BY <2>1 DEF SignInInv, LastBegun
  <2> QED BY <1>1, <1>3, <2>2 DEF NoneAsked, AsksToSignIn
<1>7. Settled'
  BY <1>1, <1>3 DEF SignInInv, Settled, NoneAsked, AsksToSignIn, OpenedFor
<1> QED BY <1>3, <1>5, <1>6, <1>7 DEF SignInInv

\* The first request is taken out of the bridge and answered with the status that it left.
LEMMA Taken ==
    ASSUME SignInInv, requests # << >>, requests' = Tail(requests),
           NEW n \in Nat, NEW ok \in BOOLEAN, auth' \in StatusSet, Answer(n, ok)
    PROVE  /\ requests' \in Seq(LoginRequest \cup [do : {"stop"}])
           /\ answers' \in Seq(AnswerSet)
           /\ ToSet(answers') = ToSet(answers) \cup {[request |-> n, ok |-> ok, status |-> auth']}
           /\ 1 \in DOMAIN requests /\ Head(requests) = requests[1]
           /\ \A i \in DOMAIN requests' : i \in Nat /\ i + 1 \in DOMAIN requests /\ i + 1 > 1
                                          /\ requests'[i] = requests[i + 1]
           /\ \A i \in DOMAIN requests : i \in Nat /\ (i = 1 \/ (i - 1 \in DOMAIN requests'
                                                   /\ requests'[i - 1] = requests[i]))
<1>1. requests \in Seq(LoginRequest \cup [do : {"stop"}])
      /\ answers \in Seq(AnswerSet)
  BY SignInTypings
<1>2. [request |-> n, ok |-> ok, status |-> auth'] \in AnswerSet
  BY DEF AnswerSet
<1>3. /\ answers' \in Seq(AnswerSet)
      /\ ToSet(answers') = ToSet(answers) \cup {[request |-> n, ok |-> ok, status |-> auth']}
  <2> DEFINE S == AnswerSet
             e == [request |-> n, ok |-> ok, status |-> auth']
  <2>1. answers \in Seq(S) /\ e \in S /\ answers' = Append(answers, e)
    BY <1>1, <1>2 DEF Answer
  <2> HIDE DEF S, e
  <2>2. answers' \in Seq(S) /\ ToSet(answers') = ToSet(answers) \cup {e}
    BY <2>1, ShownAppended
  <2> QED BY <2>2 DEF S, e
<1>4. /\ requests' \in Seq(LoginRequest \cup [do : {"stop"}])
      /\ DOMAIN requests' = 1..(Len(requests) - 1) /\ DOMAIN requests = 1..Len(requests)
      /\ Len(requests) \in Nat /\ Len(requests) # 0 /\ Head(requests) = requests[1]
      /\ \A i \in 1..(Len(requests) - 1) : requests'[i] = requests[i + 1]
  BY <1>1
<1>5. /\ \A i \in DOMAIN requests' : i \in Nat /\ i + 1 \in DOMAIN requests /\ i + 1 > 1
      /\ \A i \in DOMAIN requests : i \in Nat /\ (i = 1 \/ i - 1 \in DOMAIN requests')
      /\ 1 \in DOMAIN requests
  BY <1>4
<1>6. \A i \in DOMAIN requests : i - 1 \in DOMAIN requests' => requests'[i - 1] = requests[i]
  BY <1>4
<1> QED BY <1>3, <1>4, <1>5, <1>6

LEMMA LaterInOrder ==
    ASSUME SignInInv,
           NEW p, \A i \in DOMAIN p : i \in Nat /\ i + 1 \in DOMAIN requests /\ p[i] = requests[i + 1]
    PROVE  \A i \in DOMAIN p : p[i].do = "login" =>
              /\ p[i].request \in 1..attempts
              /\ auth.login < p[i].request /\ attempt.login < p[i].request
              /\ \A j \in DOMAIN p : i < j /\ p[j].do = "login" => p[i].request < p[j].request
<1> SUFFICES ASSUME NEW i \in DOMAIN p, p[i].do = "login"
             PROVE  /\ p[i].request \in 1..attempts
                    /\ auth.login < p[i].request /\ attempt.login < p[i].request
                    /\ \A j \in DOMAIN p : i < j /\ p[j].do = "login" => p[i].request < p[j].request
  OBVIOUS
<1>1. i \in Nat /\ i + 1 \in DOMAIN requests /\ p[i] = requests[i + 1]
  OBVIOUS
<1>2. /\ requests[i + 1].request \in 1..attempts
      /\ auth.login < requests[i + 1].request /\ attempt.login < requests[i + 1].request
      /\ \A k \in DOMAIN requests : i + 1 < k /\ requests[k].do = "login"
                                   => requests[i + 1].request < requests[k].request
  BY <1>1 DEF SignInInv, InOrder, BegunInOrder, AsksToSignIn
<1>3. ASSUME NEW j \in DOMAIN p, i < j, p[j].do = "login" PROVE p[i].request < p[j].request
  <2>1. j \in Nat /\ j + 1 \in DOMAIN requests /\ p[j] = requests[j + 1] /\ i + 1 < j + 1
    BY <1>1, <1>3
  <2> QED BY <1>1, <1>2, <1>3, <2>1
<1> QED BY <1>1, <1>2, <1>3

LEMMA TakeLoginKeeps ==
    ASSUME SignInInv, requests # << >>, requests' = Tail(requests), Head(requests).do = "login",
           Publish("Starting", Head(requests).request), Answer(Head(requests).request, TRUE),
           attempt' = [login |-> Head(requests).request, at |-> "starting"],
           UNCHANGED <<cut, events, view, intent, attempts, stops, opened, missed>>
    PROVE  SignInInv'
<1> DEFINE r == Head(requests)
           a == [request |-> r.request, ok |-> TRUE, status |-> auth']
<1>1. /\ requests # << >> /\ requests' = Tail(requests) /\ Publish("Starting", r.request)
      /\ Answer(r.request, TRUE) /\ attempt' = [login |-> r.request, at |-> "starting"]
      /\ UNCHANGED <<cut, events, view, intent, attempts, stops, opened, missed>>
  OBVIOUS
<1>2. requests[1] = r /\ 1 \in DOMAIN requests
  BY <1>1, SignInTypings
<1>3. AsksToSignIn(1) /\ ~NoneAsked /\ attempts \in Nat
  BY <1>2, SignInTypings DEF AsksToSignIn, NoneAsked
<1>4. r.request \in 1..attempts /\ r.request \in Nat /\ r.request # 0
  BY <1>2, <1>3 DEF SignInInv, InOrder
<1>5. /\ auth' \in StatusSet /\ auth'.sequence = auth.sequence + 1 /\ auth'.state = "Starting"
      /\ auth'.login = r.request /\ auth.sequence \in Nat /\ unsent' = unsent \cup {auth'}
      /\ unsent' \subseteq StatusSet
      /\ \A s \in Statuses : s.sequence \in Nat /\ s.sequence <= auth.sequence
                             /\ s.sequence < auth'.sequence
  BY <1>1, <1>4, Published
<1>6. /\ requests' \in Seq(LoginRequest \cup [do : {"stop"}])
      /\ answers' \in Seq(AnswerSet)
      /\ ToSet(answers') = ToSet(answers) \cup {a}
      /\ \A i \in DOMAIN requests' : i \in Nat /\ i + 1 \in DOMAIN requests /\ i + 1 > 1
                                     /\ requests'[i] = requests[i + 1]
      /\ \A i \in DOMAIN requests : i \in Nat /\ (i = 1 \/ (i - 1 \in DOMAIN requests'
                                              /\ requests'[i - 1] = requests[i]))
  BY <1>1, <1>4, <1>5, Taken
<1>7. /\ a.request = r.request /\ a.status = auth' /\ a.ok
      /\ attempt'.login = r.request /\ attempt'.at = "starting"
      /\ attempt' \in [login : Nat, at : {"none", "starting", "pending"}]
  BY <1>1, <1>4
<1> HIDE DEF a, r
<1>8. SignInTyped'
  BY <1>1, <1>5, <1>6, <1>7 DEF SignInInv, SignInTyped
<1>9. \A s \in Statuses' : s = auth' \/ s \in Statuses
  BY <1>1, <1>5, <1>6, <1>7 DEF Statuses
<1>10. NoneNewer' /\ OnItsWay'
  BY <1>5, <1>9 DEF NoneNewer, OnItsWay
<1>11. \A i \in DOMAIN requests' : requests'[i].do = "login" =>
            requests'[i].request \in 1..attempts /\ requests'[i].request > r.request
  BY <1>2, <1>3, <1>6 DEF SignInInv, InOrder, AsksToSignIn
<1>12. InOrder'
  <2>1. \A i \in DOMAIN requests' : requests'[i].do = "login" =>
            \A j \in DOMAIN requests' : i < j /\ requests'[j].do = "login"
                                          => requests'[i].request < requests'[j].request
    BY <1>6, LaterInOrder
  <2>2. \A c \in ToSet(answers') :
            c.request <= attempts /\ (c.ok /\ c.request # 0 => c.status.sequence # 0)
    BY <1>3, <1>4, <1>5, <1>6, <1>7 DEF SignInInv, InOrder
  <2> QED BY <1>1, <1>4, <1>5, <1>11, <2>1, <2>2 DEF SignInInv, InOrder, AsksToSignIn
<1>12a. BegunInOrder'
  BY <1>1, <1>4, <1>5, <1>7, <1>11 DEF BegunInOrder, AsksToSignIn
<1>12b. RefusedLast'
  <2> SUFFICES ASSUME NEW c \in ToSet(answers'), ~c.ok, c.request # 0, c.request = attempts
               PROVE  FALSE
    BY <1>1 DEF RefusedLast
  <2>1. c \in ToSet(answers)
    BY <1>6, <1>7
  <2> QED BY <1>3, <2>1 DEF SignInInv, RefusedLast
<1>13. LastBegun'
  <2> SUFFICES ASSUME NEW b \in Nat, Begun(b)'
               PROVE  /\ b <= auth'.sequence /\ NoneAsked' /\ r.request = attempts
                      /\ \A s \in Statuses' : s.sequence >= b => s = auth'
    BY <1>1, <1>5, <1>7 DEF LastBegun
  <2>1. ~Begun(b)
    BY <1>3 DEF SignInInv, LastBegun
  <2>2. a.request = attempts /\ b = auth'.sequence
    BY <1>1, <1>6, <1>7, <2>1 DEF Begun
  <2>3. NoneAsked'
    BY <1>3, <1>4, <1>7, <1>11, <2>2 DEF NoneAsked, AsksToSignIn
  <2>4. \A s \in Statuses' : s.sequence >= b => s = auth'
    BY <1>5, <1>9, <2>2
  <2> QED BY <1>1, <1>5, <1>7, <2>2, <2>3, <2>4
<1>14. WishAlive'
  <2> SUFFICES ASSUME intent.request # 0, intent.sequence = 0
               PROVE  \/ \E i \in DOMAIN requests' : requests'[i].do = "login"
                                                     /\ requests'[i].request = attempts
                      \/ \E c \in ToSet(answers') : c.request = attempts
    BY <1>1 DEF WishAlive, AsksToSignIn
  <2>1. CASE \E c \in ToSet(answers) : c.request = attempts
    BY <1>6, <2>1
  <2>2. CASE \E i \in DOMAIN requests : AsksToSignIn(i) /\ requests[i].request = attempts
    <3>1. PICK i \in DOMAIN requests : requests[i].do = "login" /\ requests[i].request = attempts
      BY <2>2 DEF AsksToSignIn
    <3>2. CASE i = 1
      BY <1>2, <1>6, <1>7, <3>1, <3>2
    <3>3. CASE i # 1
      <4>1. i - 1 \in DOMAIN requests' /\ requests'[i - 1] = requests[i]
        BY <1>6, <3>3
      <4> QED BY <3>1, <4>1
    <3> QED BY <3>2, <3>3
  <2> QED BY <2>1, <2>2 DEF SignInInv, WishAlive
<1>15. WishOpen' /\ Once' /\ Settled'
  BY <1>1, <1>3 DEF SignInInv, WishOpen, Once, OpenedFor, Settled
<1> QED BY <1>8, <1>10, <1>12, <1>12a, <1>12b, <1>13, <1>14, <1>15 DEF SignInInv

LEMMA RefuseLoginKeeps ==
    ASSUME SignInInv, requests # << >>, requests' = Tail(requests), Head(requests).do = "login",
           Answer(Head(requests).request, FALSE),
           UNCHANGED <<auth, unsent, attempt, cut, events, view, intent, attempts, stops, opened,
                       missed>>
    PROVE  SignInInv'
<1> DEFINE r == Head(requests)
           a == [request |-> r.request, ok |-> FALSE, status |-> auth']
<1>1. requests[1] = r /\ 1 \in DOMAIN requests
  BY SignInTypings
<1>2. AsksToSignIn(1) /\ ~NoneAsked /\ attempts \in Nat
  BY <1>1, SignInTypings DEF AsksToSignIn, NoneAsked
<1>3. /\ r.request \in 1..attempts /\ r.request \in Nat /\ r.request # 0
      /\ auth.login < r.request /\ attempt.login < r.request
      /\ auth.login \in Nat /\ attempt.login \in Nat /\ auth' \in StatusSet
  BY <1>1, <1>2, SignInTypings DEF SignInInv, InOrder, BegunInOrder
<1>4. /\ requests' \in Seq(LoginRequest \cup [do : {"stop"}])
      /\ answers' \in Seq(AnswerSet)
      /\ ToSet(answers') = ToSet(answers) \cup {a}
      /\ \A i \in DOMAIN requests' : i \in Nat /\ i + 1 \in DOMAIN requests /\ i + 1 > 1
                                     /\ requests'[i] = requests[i + 1]
      /\ \A i \in DOMAIN requests : i \in Nat /\ (i = 1 \/ (i - 1 \in DOMAIN requests'
                                              /\ requests'[i - 1] = requests[i]))
  BY <1>3, Taken
<1>5. a.request = r.request /\ a.status = auth /\ ~a.ok
  OBVIOUS
<1> HIDE DEF a, r
<1>6. SignInTyped'
  BY <1>4 DEF SignInInv, SignInTyped
<1>7. Statuses' \subseteq Statuses
  BY <1>4, <1>5 DEF Statuses
<1>8. NoneNewer' /\ OnItsWay'
  BY <1>4, <1>7 DEF SignInInv, NoneNewer, OnItsWay
<1>9. \A i \in DOMAIN requests' : requests'[i].do = "login" =>
            /\ requests'[i].request \in 1..attempts /\ requests'[i].request > r.request
            /\ auth.login < requests'[i].request /\ attempt.login < requests'[i].request
            /\ \A j \in DOMAIN requests' : i < j /\ requests'[j].do = "login"
                                             => requests'[i].request < requests'[j].request
  <2>1. \A i \in DOMAIN requests' : requests'[i].do = "login" =>
            /\ requests'[i].request \in 1..attempts
            /\ auth.login < requests'[i].request /\ attempt.login < requests'[i].request
            /\ \A j \in DOMAIN requests' : i < j /\ requests'[j].do = "login"
                                             => requests'[i].request < requests'[j].request
    BY <1>4, LaterInOrder
  <2>2. \A i \in DOMAIN requests' : requests'[i].do = "login" => requests'[i].request > r.request
    BY <1>1, <1>2, <1>4 DEF SignInInv, InOrder, AsksToSignIn
  <2> QED BY <2>1, <2>2
<1>10. InOrder'
  <2>1. \A c \in ToSet(answers') :
            c.request <= attempts /\ (c.ok /\ c.request # 0 => c.status.sequence # 0)
    BY <1>2, <1>3, <1>4, <1>5 DEF SignInInv, InOrder
  <2> QED BY <1>9, <2>1 DEF SignInInv, InOrder, AsksToSignIn
<1>11. BegunInOrder'
  BY <1>9 DEF SignInInv, BegunInOrder, AsksToSignIn
<1>12. RefusedLast'
  <2> SUFFICES ASSUME NEW c \in ToSet(answers'), ~c.ok, c.request # 0, c.request = attempts
               PROVE  NoneAsked' /\ auth.login # attempts /\ attempt.login # attempts
    BY DEF RefusedLast
  <2>1. c \notin ToSet(answers)
    BY <1>2 DEF SignInInv, RefusedLast
  <2>2. r.request = attempts
    BY <1>4, <1>5, <2>1
  <2> QED BY <1>2, <1>3, <1>9, <2>2 DEF NoneAsked, AsksToSignIn
<1>13. LastBegun'
  <2> SUFFICES ASSUME NEW b \in Nat, Begun(b)' PROVE FALSE
    BY DEF LastBegun
  <2>1. Begun(b)
    BY <1>4, <1>5 DEF Begun
  <2> QED BY <1>2, <2>1 DEF SignInInv, LastBegun
<1>14. WishAlive'
  <2> SUFFICES ASSUME intent.request # 0, intent.sequence = 0
               PROVE  \/ \E i \in DOMAIN requests' : requests'[i].do = "login"
                                                     /\ requests'[i].request = attempts
                      \/ \E c \in ToSet(answers') : c.request = attempts
    BY DEF WishAlive, AsksToSignIn
  <2>1. CASE \E c \in ToSet(answers) : c.request = attempts
    BY <1>4, <2>1
  <2>2. CASE \E i \in DOMAIN requests : AsksToSignIn(i) /\ requests[i].request = attempts
    <3>1. PICK i \in DOMAIN requests : requests[i].do = "login" /\ requests[i].request = attempts
      BY <2>2 DEF AsksToSignIn
    <3>2. CASE i = 1
      BY <1>1, <1>4, <1>5, <3>1, <3>2
    <3>3. CASE i # 1
      <4>1. i - 1 \in DOMAIN requests' /\ requests'[i - 1] = requests[i]
        BY <1>4, <3>3
      <4> QED BY <3>1, <4>1
    <3> QED BY <3>2, <3>3
  <2> QED BY <2>1, <2>2 DEF SignInInv, WishAlive
<1>15. WishOpen' /\ Once' /\ Settled'
  BY <1>2 DEF SignInInv, WishOpen, Once, OpenedFor, Settled
<1> QED BY <1>6, <1>8, <1>10, <1>11, <1>12, <1>13, <1>14, <1>15 DEF SignInInv

LEMMA TakeStopKeeps ==
    ASSUME SignInInv, requests # << >>, requests' = Tail(requests), Head(requests).do # "login",
           TakeStop, UNCHANGED <<cut, events, view, intent, attempts, stops, opened, missed>>
    PROVE  SignInInv'
<1>1. PICK ok \in BOOLEAN :
          /\ Publish("SignedOut", 0) \/ UNCHANGED <<auth, unsent>>
          /\ Answer(0, ok)
  BY DEF TakeStop, Unpublished
<1> DEFINE a == [request |-> 0, ok |-> ok, status |-> auth']
<1>2. /\ auth' \in StatusSet /\ unsent' \subseteq unsent \cup {auth'} /\ unsent' \subseteq StatusSet
      /\ unsent \subseteq unsent' /\ auth.sequence <= auth'.sequence
      /\ \A s \in Statuses : s.sequence \in Nat /\ s.sequence <= auth'.sequence
                             /\ (s.sequence = auth'.sequence => s = auth')
      /\ auth' = auth \/ (auth'.state = "SignedOut" /\ auth'.login = 0 /\ auth' \in unsent')
  <2>1. CASE UNCHANGED <<auth, unsent>>
    <3>1. auth \in StatusSet /\ Statuses \subseteq StatusSet /\ unsent \subseteq StatusSet
          /\ auth \in Statuses
      BY SignInTypings
    <3>2. \A s \in Statuses : s.sequence \in Nat
      BY <3>1 DEF StatusSet
    <3> QED BY <2>1, <3>1, <3>2 DEF SignInInv, NoneNewer
  <2>2. CASE Publish("SignedOut", 0)
    BY <2>2, Published
  <2> QED BY <1>1, <2>1, <2>2
<1>3. requests[1].do # "login" /\ attempts \in Nat /\ auth \in Statuses
  BY SignInTypings
<1>4. /\ requests' \in Seq(LoginRequest \cup [do : {"stop"}])
      /\ answers' \in Seq(AnswerSet)
      /\ ToSet(answers') = ToSet(answers) \cup {a}
      /\ \A i \in DOMAIN requests' : i \in Nat /\ i + 1 \in DOMAIN requests /\ i + 1 > 1
                                     /\ requests'[i] = requests[i + 1]
      /\ \A i \in DOMAIN requests : i \in Nat /\ (i = 1 \/ (i - 1 \in DOMAIN requests'
                                              /\ requests'[i - 1] = requests[i]))
  BY <1>1, <1>2, Taken
<1>5. /\ a.request = 0 /\ a.status = auth' /\ attempt'.login = 0 /\ attempt'.at = "none"
      /\ attempt' \in [login : Nat, at : {"none", "starting", "pending"}]
  BY DEF TakeStop, NoAttempt
<1> HIDE DEF a
<1>6. SignInTyped'
  BY <1>2, <1>4, <1>5 DEF SignInInv, SignInTyped
<1>7. \A s \in Statuses' : s = auth' \/ s \in Statuses
  BY <1>2, <1>4, <1>5 DEF Statuses
<1>8. NoneNewer'
  BY <1>2, <1>7 DEF NoneNewer, StatusSet
<1>9. OnItsWay'
  <2>1. CASE auth' = auth
    BY <1>2, <1>4, <2>1 DEF SignInInv, OnItsWay
  <2>2. CASE auth' \in unsent'
    BY <2>2 DEF OnItsWay
  <2> QED BY <1>2, <2>1, <2>2
<1>10. /\ \A i \in DOMAIN requests' : requests'[i].do = "login" =>
            /\ requests'[i].request \in 1..attempts
            /\ auth.login < requests'[i].request /\ attempt.login < requests'[i].request
            /\ \A j \in DOMAIN requests' : i < j /\ requests'[j].do = "login"
                                             => requests'[i].request < requests'[j].request
  BY <1>4, LaterInOrder
<1>11. InOrder'
  <2>2. \A c \in ToSet(answers') :
            c.request <= attempts /\ (c.ok /\ c.request # 0 => c.status.sequence # 0)
    BY <1>3, <1>4, <1>5 DEF SignInInv, InOrder
  <2> QED BY <1>10, <2>2 DEF SignInInv, InOrder, AsksToSignIn
<1>12. BegunInOrder'
  BY <1>2, <1>3, <1>5, <1>10 DEF SignInInv, BegunInOrder, AsksToSignIn
<1>13. NoneAsked => NoneAsked'
  BY <1>4 DEF NoneAsked, AsksToSignIn
<1>14. RefusedLast'
  <2> SUFFICES ASSUME NEW c \in ToSet(answers'), ~c.ok, c.request # 0, c.request = attempts
               PROVE  NoneAsked' /\ auth'.login # attempts /\ attempt'.login # attempts
    BY DEF RefusedLast
  <2>1. c \in ToSet(answers)
    BY <1>4, <1>5
  <2> QED BY <1>2, <1>5, <1>13, <2>1 DEF SignInInv, RefusedLast
<1>15. LastBegun'
  <2> SUFFICES ASSUME NEW b \in Nat, Begun(b)'
               PROVE  /\ b <= auth'.sequence /\ NoneAsked'
                      /\ \A s \in Statuses' : s.sequence >= b =>
                            /\ s.state \in {"Starting", "Pending"} => s.login = attempts
                            /\ auth'.state = "Pending" /\ cut # attempts
                                  => s.state \in {"Starting", "Pending"}
    BY <1>5 DEF LastBegun
  <2>1. Begun(b)
    BY <1>4, <1>5 DEF Begun
  <2>2. b <= auth.sequence /\ NoneAsked
        /\ \A s \in Statuses : s.sequence >= b =>
              /\ s.state \in {"Starting", "Pending"} => s.login = attempts
              /\ auth.state = "Pending" /\ cut # attempts => s.state \in {"Starting", "Pending"}
    BY <2>1 DEF SignInInv, LastBegun
  <2>3. b <= auth'.sequence
    BY <1>2, <1>3, <2>2 DEF StatusSet
  <2>4. CASE auth' = auth
    <3>1. Statuses' \subseteq Statuses
      BY <1>3, <1>7, <2>4
    <3> QED BY <1>13, <2>2, <2>3, <2>4, <3>1
  <2>5. CASE auth'.state = "SignedOut"
    BY <1>7, <1>13, <2>2, <2>3, <2>5
  <2> QED BY <1>2, <2>4, <2>5
<1>16. WishAlive'
  <2> SUFFICES ASSUME intent.request # 0, intent.sequence = 0
               PROVE  \/ \E i \in DOMAIN requests' : requests'[i].do = "login"
                                                     /\ requests'[i].request = attempts
                      \/ \E c \in ToSet(answers') : c.request = attempts
    BY DEF WishAlive, AsksToSignIn
  <2>1. CASE \E c \in ToSet(answers) : c.request = attempts
    BY <1>4, <2>1
  <2>2. CASE \E i \in DOMAIN requests : AsksToSignIn(i) /\ requests[i].request = attempts
    <3>1. PICK i \in DOMAIN requests : requests[i].do = "login" /\ requests[i].request = attempts
      BY <2>2 DEF AsksToSignIn
    <3>2. i - 1 \in DOMAIN requests' /\ requests'[i - 1] = requests[i]
      BY <1>3, <1>4, <3>1
    <3> QED BY <3>1, <3>2
  <2> QED BY <2>1, <2>2 DEF SignInInv, WishAlive
<1>17. WishOpen' /\ Once'
  BY DEF SignInInv, WishOpen, Once, OpenedFor
<1>18. Settled'
  BY <1>2, <1>5, <1>13 DEF SignInInv, Settled, OpenedFor
<1> QED BY <1>6, <1>8, <1>9, <1>11, <1>12, <1>14, <1>15, <1>16, <1>17, <1>18 DEF SignInInv

LEMMA TakeRequestKeeps == ASSUME SignInInv, TakeRequest PROVE SignInInv'
<1>1. /\ requests # << >> /\ requests' = Tail(requests)
      /\ IF Head(requests).do = "login" THEN TakeLogin(Head(requests)) ELSE TakeStop
      /\ UNCHANGED <<cut, events, view, intent, attempts, stops, opened, missed>>
  BY DEF TakeRequest, clientVars
<1>2. CASE Head(requests).do = "login"
  BY <1>1, <1>2, TakeLoginKeeps, RefuseLoginKeeps DEF TakeLogin, Unpublished
<1>3. CASE Head(requests).do # "login"
  BY <1>1, <1>3, TakeStopKeeps
<1> QED BY <1>2, <1>3

\* What a status does that the client takes, with the wish it has by then.
LEMMA Applied ==
    ASSUME SignInInv, NEW s \in Statuses, NEW i \in [request : Nat, sequence : Nat], ApplyStatus(s, i),
           UNCHANGED <<auth, attempt, cut, unsent, requests, attempts, stops, missed>>,
           events' \in Seq(StatusSet), ToSet(events') \subseteq ToSet(events),
           answers' \in Seq(AnswerSet), ToSet(answers') \subseteq ToSet(answers),
           i.request = intent.request, i = intent \/ s.sequence >= view.sequence,
           i.request = 0 => i = intent, i.sequence # 0 => Begun(i.sequence),
           i.request # 0 /\ i.sequence = 0 =>
               \/ \E k \in DOMAIN requests : AsksToSignIn(k) /\ requests[k].request = attempts
               \/ \E a \in ToSet(answers') : a.request = attempts,
           ~missed => \/ auth = s \/ auth = view \/ auth \in unsent \/ auth \in ToSet(events')
                      \/ \E a \in ToSet(answers') : a.ok /\ a.status = auth
    PROVE  SignInInv' /\ LatestOpened
<1>1. /\ auth \in StatusSet /\ view \in StatusSet /\ attempts \in Nat /\ opened \in Seq(Nat)
      /\ s \in StatusSet /\ intent \in [request : Nat, sequence : Nat]
      /\ auth \in Statuses /\ view \in Statuses
      /\ s.sequence \in Nat /\ auth.sequence \in Nat /\ view.sequence \in Nat /\ s.login \in Nat
  BY SignInTypings DEF StatusSet
<1>2. /\ s.sequence <= auth.sequence /\ (s.sequence = auth.sequence => s = auth)
      /\ view.sequence <= auth.sequence /\ (view.sequence = auth.sequence => view = auth)
  BY <1>1 DEF SignInInv, NoneNewer
<1>3. /\ intent.request # 0 => intent.request = attempts
      /\ intent.request = 0 => intent = NoIntent /\ i = NoIntent
      /\ i.sequence # 0 => i.request # 0
      /\ i.sequence \in Nat /\ i.request \in Nat
  BY <1>1, NoWish DEF SignInInv, InOrder, NoIntent
<1>4. i = NoIntent => intent = NoIntent
  BY <1>3 DEF NoIntent
<1>5. NoIntent.request = 0 /\ NoIntent.sequence = 0 /\ NoIntent \in [request : Nat, sequence : Nat]
  BY DEF NoIntent
\* The three things that may happen.
<1>6. CASE view.sequence > s.sequence
  <2>1. intent' = i /\ view' = view /\ opened' = opened /\ i = intent
    BY <1>1, <1>6 DEF ApplyStatus
  <2>2. Statuses' \subseteq Statuses
    BY <2>1 DEF Statuses
  <2>3. SignInTyped'
    BY <2>1 DEF SignInInv, SignInTyped
  <2>4. /\ NoneNewer' /\ InOrder' /\ WishAlive' /\ WishOpen' /\ Once' /\ Settled'
        /\ BegunInOrder' /\ RefusedLast'
    BY <2>1, <2>2 DEF SignInInv, NoneNewer, InOrder, BegunInOrder, RefusedLast, WishAlive, WishOpen,
       Once, OpenedFor, Settled, NoneAsked, AsksToSignIn
  <2>5. LastBegun'
    BY <2>1, <2>2 DEF SignInInv, LastBegun, Begun, NoneAsked, AsksToSignIn
  <2>6. OnItsWay'
    BY <1>2, <1>6, <2>1, <1>1 DEF OnItsWay
  <2> QED BY <2>1, <2>3, <2>4, <2>5, <2>6 DEF SignInInv, LatestOpened
<1>7. CASE ~(view.sequence > s.sequence)
  <2>1. /\ view' = s
        /\ intent' = IF Wanted(s, i) /\ s.state # "Starting" THEN NoIntent ELSE i
        /\ opened' = IF Wanted(s, i) /\ s.state = "Pending" THEN Append(opened, s.login) ELSE opened
    BY <1>7 DEF ApplyStatus
  <2>2. Statuses' \subseteq Statuses
    BY <2>1 DEF Statuses
  <2>3. intent' \in [request : Nat, sequence : Nat]
        /\ (intent'.sequence # 0 => intent'.sequence = i.sequence)
        /\ (intent'.request # 0 => intent'.request = i.request /\ intent' = i)
        /\ (intent'.request = 0 => intent'.sequence = 0)
    BY <1>3, <1>5, <2>1
  <2>4. NoneNewer'
    BY <2>2 DEF SignInInv, NoneNewer
  <2>5. InOrder' /\ BegunInOrder' /\ RefusedLast'
    BY <1>3, <2>3 DEF SignInInv, InOrder, BegunInOrder, RefusedLast, NoneAsked, AsksToSignIn
  <2>6. \A b \in Nat : Begun(b)' => Begun(b)
    BY <2>3 DEF Begun
  <2>7. LastBegun'
    BY <2>2, <2>6 DEF SignInInv, LastBegun, NoneAsked, AsksToSignIn
  <2>8. WishAlive'
    BY <2>3 DEF WishAlive, AsksToSignIn
  <2>9. WishOpen'
    <3> SUFFICES ASSUME intent'.sequence # 0, view'.sequence >= intent'.sequence, s.state # "Starting"
                 PROVE  FALSE
      BY <2>1 DEF WishOpen
    <3>1. i.sequence # 0 /\ s.sequence >= i.sequence
      BY <2>1, <2>3
    <3>2. intent' = NoIntent
      BY <2>1, <3>1 DEF Wanted
    <3> QED BY <1>5, <3>2
  <2>10. OnItsWay'
    BY <1>1, <1>2, <1>7, <2>1 DEF OnItsWay
  <2>11. CASE ~(Wanted(s, i) /\ s.state = "Pending")
    <3>1. opened' = opened
      BY <2>1, <2>11
    <3>2. SignInTyped'
      BY <1>1, <2>1, <2>3, <3>1 DEF SignInInv, SignInTyped
    <3>3. Once'
      <4>1. intent = NoIntent => intent' = NoIntent
        BY <1>3, <1>5, <2>1
      <4> QED BY <3>1, <4>1 DEF SignInInv, Once, OpenedFor
    <3>4. Settled'
      <4> SUFFICES ASSUME stops = 0, attempts # 0, intent' = NoIntent
                   PROVE  /\ NoneAsked
                          /\ cut # attempts =>
                                /\ attempt.login = attempts => attempt.at # "starting"
                                /\ auth.login = attempts /\ auth.state = "Pending"
                                      => OpenedFor(attempts)
        BY <3>1 DEF Settled, NoneAsked, AsksToSignIn, OpenedFor
      <4>1. CASE intent = NoIntent
        BY <4>1 DEF SignInInv, Settled
      <4>2. CASE intent # NoIntent
        <5>1. Wanted(s, i) /\ s.state # "Starting"
          BY <1>4, <2>1, <4>2
        <5>2. Begun(i.sequence) /\ s.sequence >= i.sequence
          BY <5>1 DEF Wanted
        <5>3. NoneAsked /\ (cut # attempts => attempt.at # "starting" /\ auth.state # "Pending")
          BY <1>3, <2>11, <5>1, <5>2 DEF SignInInv, LastBegun
        <5> QED BY <5>3
      <4> QED BY <4>1, <4>2
    <3> QED BY <2>4, <2>5, <2>7, <2>8, <2>9, <2>10, <3>1, <3>2, <3>3, <3>4
            DEF SignInInv, LatestOpened
  <2>12. CASE Wanted(s, i) /\ s.state = "Pending"
    <3>1. i.sequence # 0 /\ s.sequence >= i.sequence
      BY <2>12 DEF Wanted
    <3>2. NoneAsked /\ s.login = attempts /\ (cut # attempts => attempt.at # "starting")
      BY <1>3, <2>12, <3>1 DEF SignInInv, LastBegun
    <3>3. intent' = NoIntent /\ opened' = Append(opened, attempts)
      BY <2>1, <2>12, <3>2
    <3>4. attempts # 0 /\ intent # NoIntent
      BY <1>3, <1>5, <3>1
    <3>5. /\ opened' \in Seq(Nat) /\ Len(opened) \in Nat /\ DOMAIN opened = 1..Len(opened)
          /\ DOMAIN opened' = 1..(Len(opened) + 1) /\ opened'[Len(opened) + 1] = attempts
          /\ Len(opened') = Len(opened) + 1
          /\ \A k \in 1..Len(opened) : opened'[k] = opened[k]
      BY <1>1, <3>3
    <3>6. SignInTyped'
      BY <1>1, <2>1, <2>3, <3>5 DEF SignInInv, SignInTyped
    <3>7. Once'
      <4>1. \A k \in DOMAIN opened : opened[k] # attempts /\ opened[k] \in 1..attempts
        BY <3>4 DEF SignInInv, Once, OpenedFor
      <4>2. \A k, l \in DOMAIN opened : k # l => opened[k] # opened[l]
        BY DEF SignInInv, Once
      <4>3. \A k \in DOMAIN opened' : k = Len(opened) + 1 \/ k \in DOMAIN opened
        BY <3>5
      <4>4. attempts \in 1..attempts
        BY <1>1, <3>4
      <4>5. \A k \in DOMAIN opened' : opened'[k] \in 1..attempts
        BY <3>5, <4>1, <4>3, <4>4
      <4>6. \A k \in DOMAIN opened : opened'[k] = opened[k]
        BY <3>5
      <4>7. opened'[Len(opened) + 1] = attempts
        BY <3>5
      <4>8. \A k, l \in DOMAIN opened' : k # l => opened'[k] # opened'[l]
        <5>1. SUFFICES ASSUME NEW k \in DOMAIN opened', NEW l \in DOMAIN opened', k # l
                       PROVE  opened'[k] # opened'[l]
          OBVIOUS
        <5>2. CASE k = Len(opened) + 1
          <6>1. l \in DOMAIN opened /\ opened'[l] = opened[l]
            BY <4>3, <4>6, <5>1, <5>2
          <6> QED BY <4>1, <4>7, <5>2, <6>1
        <5>3. CASE k # Len(opened) + 1
          <6>1. k \in DOMAIN opened /\ opened'[k] = opened[k]
            BY <4>3, <4>6, <5>3
          <6>2. CASE l = Len(opened) + 1
            BY <4>1, <4>7, <6>1, <6>2
          <6>3. CASE l # Len(opened) + 1
            <7>1. l \in DOMAIN opened /\ opened'[l] = opened[l]
              BY <4>3, <4>6, <6>3
            <7> QED BY <4>2, <5>1, <6>1, <7>1
          <6> QED BY <6>2, <6>3
        <5> QED BY <5>2, <5>3
      <4>9. attempts' = attempts /\ intent' = NoIntent
        BY <3>3
      <4> QED BY <4>5, <4>8, <4>9 DEF Once, OpenedFor
    <3>8. Settled'
      <4>1. OpenedFor(attempts)'
        <5>1. Len(opened) + 1 \in DOMAIN opened' /\ opened'[Len(opened) + 1] = attempts'
          BY <3>5
        <5> QED BY <5>1 DEF OpenedFor
      <4>2. NoneAsked'
        BY <3>2 DEF NoneAsked, AsksToSignIn
      <4> QED BY <3>2, <4>1, <4>2 DEF Settled
    <3>9. LatestOpened
      BY <3>5 DEF LatestOpened
    <3> QED BY <2>4, <2>5, <2>7, <2>8, <2>9, <2>10, <3>6, <3>7, <3>8, <3>9 DEF SignInInv
  <2> QED BY <2>11, <2>12
<1> QED BY <1>6, <1>7

LEMMA TakeEventKeeps == ASSUME SignInInv, TakeEvent PROVE SignInInv' /\ LatestOpened
<1>1. /\ events # << >> /\ events' = Tail(events) /\ ApplyStatus(Head(events), intent)
      /\ UNCHANGED <<auth, attempt, cut, unsent, requests, answers, attempts, stops, missed>>
  BY DEF TakeEvent
<1>2. /\ events' \in Seq(StatusSet) /\ Head(events) \in ToSet(events)
      /\ ToSet(events) = ToSet(events') \cup {Head(events)}
  BY <1>1, SignInTypings, ShownTail
<1>3. Head(events) \in Statuses /\ intent \in [request : Nat, sequence : Nat]
      /\ answers' \in Seq(AnswerSet)
  BY <1>1, <1>2, SignInTypings
<1>4. intent.sequence # 0 => Begun(intent.sequence)
  BY DEF Begun
<1>5. intent.request # 0 /\ intent.sequence = 0 =>
               \/ \E k \in DOMAIN requests : AsksToSignIn(k) /\ requests[k].request = attempts
               \/ \E a \in ToSet(answers') : a.request = attempts
  BY <1>1 DEF SignInInv, WishAlive
<1>6. ~missed => \/ auth = Head(events) \/ auth = view \/ auth \in unsent \/ auth \in ToSet(events')
                 \/ \E a \in ToSet(answers') : a.ok /\ a.status = auth
  BY <1>1, <1>2 DEF SignInInv, OnItsWay
<1> QED BY <1>1, <1>2, <1>3, <1>4, <1>5, <1>6, Applied

LEMMA TakeGrantKeeps ==
    ASSUME SignInInv, TakeAnswer, Head(answers).ok PROVE SignInInv' /\ LatestOpened
<1> DEFINE a == Head(answers)
           i == IF AnswersWish(a, intent) THEN [intent EXCEPT !.sequence = a.status.sequence]
                ELSE intent
           s == Acknowledged(a, i)
<1>1. /\ answers # << >> /\ answers' = Tail(answers) /\ ApplyStatus(s, i)
      /\ UNCHANGED <<auth, attempt, cut, unsent, events, requests, attempts, stops, missed>>
  BY DEF TakeAnswer
<1>2. /\ answers' \in Seq(AnswerSet) /\ a \in ToSet(answers)
      /\ a \in AnswerSet /\ ToSet(answers) = ToSet(answers') \cup {a} /\ a.ok
  <2> DEFINE S == AnswerSet
  <2>1. answers \in Seq(S)
    BY SignInTypings
  <2> HIDE DEF S
  <2>2. /\ Tail(answers) \in Seq(S) /\ Head(answers) \in S /\ Head(answers) \in ToSet(answers)
        /\ ToSet(answers) = ToSet(Tail(answers)) \cup {Head(answers)}
    BY <1>1, <2>1, ShownTail
  <2> QED BY <1>1, <2>2 DEF S
<1>3. /\ intent \in [request : Nat, sequence : Nat] /\ events' \in Seq(StatusSet)
      /\ a.status \in Statuses /\ view \in Statuses /\ a.status \in StatusSet /\ view \in StatusSet
      /\ auth \in StatusSet /\ a.request \in Nat
  BY <1>1, <1>2, SignInTypings DEF AnswerSet
<1>4. /\ a.status.sequence \in Nat /\ view.sequence \in Nat /\ auth.sequence \in Nat
  BY <1>3 DEF StatusSet
<1>5. /\ i \in [request : Nat, sequence : Nat] /\ i.request = intent.request
      /\ AnswersWish(a, intent) => i.sequence = a.status.sequence
      /\ ~AnswersWish(a, intent) => i = intent
      /\ i.request = 0 => i = intent
  BY <1>3, <1>4 DEF AnswersWish
<1>6. s \in Statuses
  BY <1>3 DEF Acknowledged
<1>7. AnswersWish(a, intent) =>
          /\ a.request = intent.request /\ a.request = attempts /\ attempts # 0
          /\ s.sequence >= view.sequence /\ a.status.sequence # 0
  BY <1>2, <1>4, <1>5 DEF AnswersWish, Acknowledged, SignInInv, InOrder
<1>8. a.status = auth => s = auth \/ s = view
  BY DEF Acknowledged
<1>9. a.status = auth => s = auth
  <2>1. view.sequence <= auth.sequence
    BY <1>3 DEF SignInInv, NoneNewer
  <2> QED BY <1>4, <2>1 DEF Acknowledged
<1> HIDE DEF s, i, a
<1>10. i = intent \/ s.sequence >= view.sequence
  BY <1>5, <1>7
<1>11. i.sequence # 0 => Begun(i.sequence)
  BY <1>2, <1>5, <1>7 DEF Begun
<1>12. i.request # 0 /\ i.sequence = 0 =>
               \/ \E k \in DOMAIN requests : AsksToSignIn(k) /\ requests[k].request = attempts
               \/ \E c \in ToSet(answers') : c.request = attempts
  <2> SUFFICES ASSUME i.request # 0, i.sequence = 0,
                      ~\E k \in DOMAIN requests : AsksToSignIn(k) /\ requests[k].request = attempts
               PROVE  \E c \in ToSet(answers') : c.request = attempts
    OBVIOUS
  <2>1. i = intent /\ ~AnswersWish(a, intent)
    BY <1>5, <1>7
  <2>2. PICK c \in ToSet(answers) : c.request = attempts
    BY <2>1 DEF SignInInv, WishAlive
  <2>3. c # a
    BY <2>1, <2>2 DEF AnswersWish, SignInInv, InOrder
  <2> QED BY <1>2, <2>2, <2>3
<1>13. ~missed => \/ auth = s \/ auth = view \/ auth \in unsent \/ auth \in ToSet(events')
                  \/ \E c \in ToSet(answers') : c.ok /\ c.status = auth
  BY <1>1, <1>2, <1>9 DEF SignInInv, OnItsWay
<1> QED BY <1>1, <1>2, <1>3, <1>5, <1>6, <1>10, <1>11, <1>12, <1>13, Applied

LEMMA TakeRefusalKeeps ==
    ASSUME SignInInv, TakeAnswer, ~Head(answers).ok PROVE SignInInv' /\ LatestOpened
<1> DEFINE a == Head(answers)
<1>1. /\ answers # << >> /\ answers' = Tail(answers)
      /\ intent' = IF AnswersWish(a, intent) THEN NoIntent ELSE intent
      /\ UNCHANGED <<auth, attempt, cut, unsent, events, view, requests, attempts, stops, opened,
                     missed>>
  BY DEF TakeAnswer
<1>2. /\ answers' \in Seq(AnswerSet) /\ a \in ToSet(answers) /\ ~a.ok
      /\ ToSet(answers) = ToSet(answers') \cup {a}
  <2> DEFINE S == AnswerSet
  <2>1. answers \in Seq(S)
    BY SignInTypings
  <2> HIDE DEF S
  <2>2. /\ Tail(answers) \in Seq(S) /\ Head(answers) \in ToSet(answers)
        /\ ToSet(answers) = ToSet(Tail(answers)) \cup {Head(answers)}
    BY <1>1, <2>1, ShownTail
  <2> QED BY <1>1, <2>2 DEF S
<1>3. /\ intent \in [request : Nat, sequence : Nat]
      /\ intent.request # 0 => intent.request = attempts
      /\ intent'.request # 0 => intent' = intent
      /\ intent'.request = 0 => intent'.sequence = 0
      /\ intent'.sequence # 0 => intent' = intent
      /\ intent' \in [request : Nat, sequence : Nat]
      /\ intent = NoIntent => intent' = NoIntent
      /\ AnswersWish(a, intent) => a.request # 0 /\ a.request = attempts
      /\ ~AnswersWish(a, intent) => intent' = intent
  BY <1>1, SignInTypings DEF SignInInv, InOrder, NoIntent, AnswersWish
<1> HIDE DEF a
<1>4. SignInTyped'
  BY <1>1, <1>2, <1>3 DEF SignInInv, SignInTyped
<1>5. Statuses' \subseteq Statuses
  BY <1>1, <1>2 DEF Statuses
<1>6. NoneNewer' /\ InOrder' /\ BegunInOrder' /\ RefusedLast' /\ WishOpen' /\ Once'
  BY <1>1, <1>2, <1>3, <1>5 DEF SignInInv, NoneNewer, InOrder, BegunInOrder, RefusedLast, WishOpen,
     Once, OpenedFor, NoneAsked, AsksToSignIn
<1>7. LastBegun'
  <2>1. \A b \in Nat : Begun(b)' => Begun(b)
    BY <1>1, <1>2, <1>3 DEF Begun
  <2> QED BY <1>1, <1>5, <2>1 DEF SignInInv, LastBegun, NoneAsked, AsksToSignIn
<1>8. WishAlive'
  <2> SUFFICES ASSUME intent'.request # 0, intent'.sequence = 0,
                      ~\E k \in DOMAIN requests : AsksToSignIn(k) /\ requests[k].request = attempts
               PROVE  \E c \in ToSet(answers') : c.request = attempts
    BY <1>1 DEF WishAlive, AsksToSignIn
  <2>1. intent' = intent /\ intent.request = attempts
    BY <1>3
  <2>2. PICK c \in ToSet(answers) : c.request = attempts
    BY <2>1 DEF SignInInv, WishAlive
  <2>3. c # a
    BY <1>1, <2>1, <2>2 DEF AnswersWish, NoIntent
  <2> QED BY <1>2, <2>2, <2>3
<1>9. OnItsWay'
  BY <1>1, <1>2 DEF SignInInv, OnItsWay
<1>10. Settled'
  <2>1. CASE AnswersWish(a, intent)
    <3>1. NoneAsked /\ auth.login # attempts /\ attempt.login # attempts
      BY <1>2, <1>3, <2>1 DEF SignInInv, RefusedLast
    <3> QED BY <1>1, <3>1 DEF Settled, NoneAsked, AsksToSignIn
  <2>2. CASE ~AnswersWish(a, intent)
    BY <1>1, <1>3, <2>2 DEF SignInInv, Settled, NoneAsked, AsksToSignIn, OpenedFor
  <2> QED BY <2>1, <2>2
<1> QED BY <1>1, <1>4, <1>6, <1>7, <1>8, <1>9, <1>10 DEF SignInInv, LatestOpened

LEMMA SignInStep == SignInInv /\ [SignInNext]_signInVars => SignInInv' /\ LatestOpened
<1> SUFFICES ASSUME SignInInv, [SignInNext]_signInVars PROVE SignInInv' /\ LatestOpened OBVIOUS
<1>1. CASE UNCHANGED signInVars
  BY <1>1, CarriedKeeps, SignInTypings DEF signInVars, clientVars, LatestOpened, OnItsWay, SignInInv
<1>2. CASE Login
  BY <1>2, LoginKeeps DEF Login, LatestOpened
<1>3. CASE StopSignIn
  BY <1>3, StopSignInKeeps DEF StopSignIn, LatestOpened
<1>4. CASE TakeRequest
  BY <1>4, TakeRequestKeeps DEF TakeRequest, clientVars, LatestOpened
<1>5. CASE Progress
  BY <1>5, ProgressKeeps DEF Progress, clientVars, LatestOpened
<1>5a. CASE ConnectionRefused
  BY <1>5a, ConnectionRefusedKeeps DEF ConnectionRefused, clientVars, LatestOpened
<1>6. CASE ClientLags
  BY <1>6, ClientLagsKeeps DEF ClientLags, LatestOpened
<1>7. CASE \E s \in unsent : Forward(s) \/ ForwardLagged(s)
  BY <1>7, ForwardKeeps DEF Forward, ForwardLagged, clientVars, LatestOpened
<1> QED BY <1>1, <1>2, <1>3, <1>4, <1>5, <1>5a, <1>6, <1>7, TakeGrantKeeps, TakeRefusalKeeps,
        TakeEventKeeps DEF SignInNext

\* The browser opens for the last sign-in the user asked for and no second time; and when
\* everything has been delivered, the client shows the runtime's status and a sign-in that waits
\* for the user has had its browser opened (App::apply_mcp_auth_status_with), whatever was
\* refused or failed meanwhile, unless a refused connection replaced its Starting status
\* (Auth::client).
THEOREM BrowserOpensCorrect == SignInSpec => BrowserOpens
<1>1. SignInInv => BrowserOpenedOnce
  <2> SUFFICES ASSUME SignInInv PROVE BrowserOpenedOnce OBVIOUS
  <2>1. \A i, j \in DOMAIN opened : i # j => opened[i] # opened[j]
    BY DEF SignInInv, Once
  <2>2. ASSUME Delivered, ~missed PROVE view = auth
    <3>1. events = << >> /\ answers = << >> /\ unsent = {}
      BY <2>2 DEF Delivered
    <3>2. ToSet(events) = {} /\ ToSet(answers) = {}
      BY <3>1 DEF ToSet
    <3> QED BY <2>2, <3>1, <3>2 DEF SignInInv, OnItsWay
  <2>3. ASSUME Delivered, ~missed, auth.state = "Pending", auth.login = attempts, cut # attempts,
               intent # NoIntent \/ stops = 0
        PROVE  \E i \in DOMAIN opened : opened[i] = attempts
    <3>1. answers = << >> /\ requests = << >>
      BY <2>3 DEF Delivered
    <3>2. ToSet(answers) = {} /\ DOMAIN requests = {}
      BY <3>1 DEF ToSet
    <3>3. intent \in [request : Nat, sequence : Nat] /\ view = auth
      BY <2>2, <2>3, SignInTypings
    <3>4. intent = NoIntent
      <4>1. SUFFICES ASSUME intent # NoIntent PROVE FALSE
        OBVIOUS
      <4>2. intent.request # 0
        BY <3>3, <4>1, NoWish DEF SignInInv, InOrder
      <4>3. intent.sequence # 0
        BY <3>2, <4>2 DEF SignInInv, WishAlive
      <4>4. intent.sequence \in Nat /\ auth.sequence \in Nat
        BY <3>3, SignInTypings DEF StatusSet
      <4>5. Begun(intent.sequence)
        BY <4>3 DEF Begun
      <4>6. intent.sequence <= auth.sequence
        BY <4>4, <4>5 DEF SignInInv, LastBegun
      <4>7. view.sequence >= intent.sequence
        BY <3>3, <4>4, <4>6
      <4> QED BY <2>3, <3>3, <4>3, <4>7 DEF SignInInv, WishOpen
    <3>5. attempts # 0
      BY <2>3 DEF SignInInv, BegunInOrder
    <3> QED BY <2>3, <3>4, <3>5 DEF SignInInv, Settled, OpenedFor
  <2> QED BY <2>1, <2>2, <2>3 DEF BrowserOpenedOnce
<1>2. SignInInv /\ [SignInNext]_signInVars => SignInInv'
  BY SignInStep
<1>3. SignInInv /\ [SignInNext]_signInVars => LatestOpened
  BY SignInStep
<1>4. SignInInit => SignInInv
  BY SignInInvInit
<1> QED BY <1>1, <1>2, <1>3, <1>4, PTL DEF SignInSpec, BrowserOpens
=============================================================================
