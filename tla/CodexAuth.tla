----------------------------- MODULE CodexAuth ------------------------------
(***************************************************************************)
(* The OpenAI Codex credentials, kept in one file that several processes   *)
(* share (openai-codex auth.rs, auth/login.rs, auth/storage.rs).  Each     *)
(* process keeps a copy in memory and looks at the file only when it       *)
(* refreshes.  The server may replace the refresh token at every use, and  *)
(* then accepts the old one no more.  A refresh runs in a task of its own, *)
(* under the file lock, so that a cancelled request cannot lose the token  *)
(* it was given.                                                           *)
(***************************************************************************)
EXTENDS Naturals, WellFoundedInduction, TLAPS

CONSTANTS
    Procs,       \* processes that share the file
    MaxGenerations, \* credentials issued (bound)
    MaxLogins,      \* sign-ins started (bound)
    MaxLogouts,     \* sign-outs started (bound)
    Ports           \* the registered callback ports, numbers tried in order

ASSUME BoundsAssumption ==
    MaxGenerations \in Nat \ {0} /\ MaxLogins \in Nat /\ MaxLogouts \in Nat /\ Ports \subseteq Nat \ {0}

VARIABLES
    file,       \* the credentials on disk: refresh token, generation, ghost: epoch
    memory,     \* ControllerState.auth of each process
    lock,       \* the holder of the file lock: a process and its operation
    request,    \* a request of each process that needs fresh credentials
    refresh,    \* the refresh task of each process
    pending,    \* ControllerState.pending: the attempt under way, 0 for none
    attempt,    \* the login task of each process
    gate,       \* login_gate: the operation that holds it
    spent,      \* refresh tokens the server has replaced
    issued,     \* credentials issued so far
    logins, logouts,  \* operations started
    epoch,      \* ghost: sign-ins and sign-outs committed to the file
    reused,     \* ghost: a refresh was sent with a token already replaced
    unheard,    \* ghost: tokens whose replacement never reached the process
    tabs        \* browser pages still open: the attempt they are for and the port they call

vars == <<file, memory, lock, request, refresh, pending, attempt, gate, spent, issued, logins,
               logouts, epoch, reused, unheard, tabs>>

NoAuth == [token |-> 0, generation |-> 0, epoch |-> 0]
NoOne == << >>
Idle == [at |-> "idle"]

Init ==
    /\ file \in {NoAuth, [token |-> 1, generation |-> 1, epoch |-> 0]}
    /\ memory = [p \in Procs |-> file]
    /\ lock = NoOne /\ request = [p \in Procs |-> Idle] /\ refresh = [p \in Procs |-> Idle]
    /\ pending = [p \in Procs |-> 0] /\ attempt = [p \in Procs |-> Idle]
    /\ gate = [p \in Procs |-> "free"] /\ spent = {} /\ issued = 1
    /\ logins = 0 /\ logouts = 0 /\ epoch = 0
    /\ reused = FALSE /\ unheard = {} /\ tabs = {}

Locked(p, what) == lock = <<p, what>>
Remembers(p, auth) == memory' = [memory EXCEPT ![p] = auth]

-----------------------------------------------------------------------------
(* get_request_auth and refresh_request_auth: a request whose credentials are old or refused. *)

NeedsRefresh(p) ==
    /\ request[p] = Idle /\ memory[p] # NoAuth
    /\ request' = [request EXCEPT ![p] = [at |-> "waiting", expected |-> memory[p]]]
    /\ UNCHANGED <<file, memory, lock, refresh, pending, attempt, gate, spent, issued, logins,
                   logouts, epoch, reused, unheard, tabs>>

\* Mutant: the credentials in memory are refreshed without looking at the file.
FreshAuthInMemory(p) == memory[p]
\* load_auth_file
FreshAuth(p) == file

\* Under the refresh gate and the file lock the file is read again: nothing, credentials that
\* another process or a sign-in has renewed (used, unless they are of another account), or the
\* ones expected, which are then refreshed.
RefreshBegins(p) ==
    /\ request[p].at = "waiting" /\ lock = NoOne /\ refresh[p] = Idle
    /\ LET auth == FreshAuth(p) expected == request[p].expected IN
       /\ Remembers(p, auth)
       /\ IF auth # NoAuth /\ auth.generation = expected.generation
          THEN /\ lock' = <<p, "refresh">>
               /\ refresh' = [refresh EXCEPT ![p] = [at |-> "asking", auth |-> auth]]
               /\ request' = [request EXCEPT ![p].at = "refreshing"]
               /\ reused' = (reused \/ (auth.token \in spent /\ auth.token \notin unheard))
          ELSE /\ request' = [request EXCEPT ![p] = Idle]
               /\ UNCHANGED <<lock, refresh, reused>>
    /\ UNCHANGED <<file, pending, attempt, gate, spent, issued, logins, logouts, epoch, unheard, tabs>>

\* Mutant: the refresh is dropped together with the request that asked for it.
AfterCancelDropped(p) == [task |-> Idle, lock |-> IF Locked(p, "refresh") THEN NoOne ELSE lock]
\* The spawned task goes on, and keeps the lock.
AfterCancel(p) == [task |-> refresh[p], lock |-> lock]

RequestCancelled(p) ==
    /\ request[p] # Idle
    /\ request' = [request EXCEPT ![p] = Idle]
    /\ refresh' = [refresh EXCEPT ![p] = AfterCancel(p).task] /\ lock' = AfterCancel(p).lock
    /\ UNCHANGED <<file, memory, pending, attempt, gate, spent, issued, logins, logouts, epoch,
                   reused, unheard, tabs>>

\* The server answers with new credentials, and perhaps a new refresh token.
ServerAnswers(p) ==
    /\ refresh[p].at = "asking" /\ refresh[p].auth.token \notin spent /\ issued < MaxGenerations
    /\ issued' = issued + 1
    /\ \E rotates \in BOOLEAN :
          LET token == IF rotates THEN issued + 1 ELSE refresh[p].auth.token IN
          /\ spent' = IF rotates THEN spent \cup {refresh[p].auth.token} ELSE spent
          /\ refresh' = [refresh EXCEPT ![p] =
                [at |-> "answered", auth |-> [@.auth EXCEPT !.token = token, !.generation = issued + 1]]]
    /\ UNCHANGED <<file, memory, lock, request, pending, attempt, gate, logins, logouts, epoch,
                   reused, unheard, tabs>>

\* persist_auth_locked: file and memory change in one blocking task, which then unlocks.
RefreshCommits(p) ==
    /\ refresh[p].at = "answered"
    /\ file' = refresh[p].auth /\ Remembers(p, refresh[p].auth)
    /\ lock' = NoOne /\ refresh' = [refresh EXCEPT ![p] = Idle]
    /\ request' = [request EXCEPT ![p] = IF @.at = "refreshing" THEN Idle ELSE @]
    /\ UNCHANGED <<pending, attempt, gate, spent, issued, logins, logouts, epoch, reused,
                   unheard, tabs>>

\* Refused, or answered for another account: the credentials are deleted.
RefreshRefused(p) ==
    /\ refresh[p].at \in {"asking", "answered"}
    /\ refresh[p].at = "asking" => refresh[p].auth.token \in spent
    /\ file' = NoAuth /\ Remembers(p, NoAuth)
    /\ lock' = NoOne /\ refresh' = [refresh EXCEPT ![p] = Idle]
    /\ request' = [request EXCEPT ![p] = IF @.at = "refreshing" THEN Idle ELSE @]
    /\ UNCHANGED <<pending, attempt, gate, spent, issued, logins, logouts, epoch, reused,
                   unheard, tabs>>

\* The timeout, an error, or an answer that cannot be read, before or after the server acted.
RefreshFails(p) ==
    /\ refresh[p].at \in {"asking", "answered"}
    /\ lock' = NoOne /\ refresh' = [refresh EXCEPT ![p] = Idle]
    /\ request' = [request EXCEPT ![p] = IF @.at = "refreshing" THEN Idle ELSE @]
    /\ unheard' = IF refresh[p].at = "answered" THEN unheard \cup spent ELSE unheard
    /\ UNCHANGED <<file, memory, pending, attempt, gate, spent, issued, logins, logouts, epoch,
                   reused, tabs>>

-----------------------------------------------------------------------------
(* start_browser_login, start_device_code_login, install_login_task, finish_login_attempt. *)

\* bind_listener: the first registered port that no other process listens on.
bind_listener(p) ==
    LET others == {attempt[q].port : q \in {r \in Procs \ {p} : attempt[r].at = "running"}}
        free == Ports \ others
    IN IF free = {} THEN 0 ELSE CHOOSE n \in free : \A k \in free : n <= k

\* Under the login gate the attempt under way is aborted, awaited and a new one installed.  Port
\* 0 stands for a sign-in with a device code.  A callback port taken by other processes only
\* leaves no attempt at all.
StartLogin(p) ==
    /\ gate[p] = "free" /\ logins < MaxLogins /\ logins' = logins + 1
    /\ \E device \in BOOLEAN :
          LET port == IF device THEN 0 ELSE bind_listener(p)
          IN IF device \/ port # 0
             THEN /\ attempt' = [attempt EXCEPT ![p] =
                                    [at |-> "running", id |-> logins + 1, port |-> port]]
                  /\ pending' = [pending EXCEPT ![p] = logins + 1]
                  /\ tabs' = IF device THEN tabs ELSE tabs \cup {<<logins + 1, port>>}
             ELSE /\ attempt' = [attempt EXCEPT ![p] = Idle]
                  /\ pending' = [pending EXCEPT ![p] = 0] /\ UNCHANGED tabs
    /\ UNCHANGED <<file, memory, lock, request, refresh, gate, spent, issued, logouts, epoch,
                   reused, unheard>>

StateMatchesAny(p, tab) == TRUE

\* The callback's state is the one this attempt generated.
StateMatches(p, tab) == tab[1] = attempt[p].id

Worked(p, by) ==
    attempt' = [attempt EXCEPT ![p] = [at |-> "worked", id |-> @.id, by |-> by]]

\* run_browser_login: whichever page calls the port is answered, and ends the attempt; 0 stands
\* for a failure.
Callback(p) ==
    /\ attempt[p].at = "running"
    /\ \E tab \in tabs :
          /\ tab[2] = attempt[p].port /\ tabs' = tabs \ {tab}
          /\ \E by \in {0, tab[1]} : /\ by # 0 => StateMatches(p, tab)
                                   /\ Worked(p, by)
    /\ UNCHANGED <<file, memory, lock, request, refresh, pending, gate, spent, issued, logins,
                   logouts, epoch, reused, unheard>>

\* run_device_code_login: the server grants the code, or it expires.
DeviceCode(p) ==
    /\ attempt[p].at = "running" /\ attempt[p].port = 0
    /\ \E by \in {0, attempt[p].id} : Worked(p, by)
    /\ UNCHANGED <<file, memory, lock, request, refresh, pending, gate, spent, issued, logins,
                   logouts, epoch, reused, unheard, tabs>>

\* The worker has its result and waits for the gate; an attempt that was replaced stops here.
LoginFinishes(p) ==
    /\ attempt[p].at = "worked" /\ gate[p] = "free"
    /\ IF pending[p] = attempt[p].id
       THEN gate' = [gate EXCEPT ![p] = "finish"] /\ attempt' = [attempt EXCEPT ![p].at = "finishing"]
       ELSE attempt' = [attempt EXCEPT ![p] = Idle] /\ UNCHANGED gate
    /\ UNCHANGED <<file, memory, lock, request, refresh, pending, spent, issued, logins, logouts,
                   epoch, reused, unheard, tabs>>

\* With the file lock, file and memory change in one blocking task.
LoginCommits(p) ==
    /\ attempt[p].at = "finishing" /\ attempt[p].by # 0 /\ lock = NoOne
    /\ issued < MaxGenerations
    /\ LET auth == [token |-> issued + 1, generation |-> issued + 1, epoch |-> epoch + 1]
       IN file' = auth /\ Remembers(p, auth)
    /\ issued' = issued + 1 /\ epoch' = epoch + 1
    /\ pending' = [pending EXCEPT ![p] = 0] /\ attempt' = [attempt EXCEPT ![p] = Idle]
    /\ gate' = [gate EXCEPT ![p] = "free"]
    /\ UNCHANGED <<lock, request, refresh, spent, logins, logouts, reused, unheard, tabs>>

\* The exchange failed, the user refused, the code expired, or the file could not be written.
LoginFails(p) ==
    /\ attempt[p].at = "finishing"
    /\ pending' = [pending EXCEPT ![p] = 0] /\ attempt' = [attempt EXCEPT ![p] = Idle]
    /\ gate' = [gate EXCEPT ![p] = "free"]
    /\ UNCHANGED <<file, memory, lock, request, refresh, spent, issued, logins, logouts, epoch,
                   reused, unheard, tabs>>

\* cancel_pending_task_locked, on a cancellation.
CancelLogin(p) ==
    /\ gate[p] = "free" /\ pending[p] # 0
    /\ pending' = [pending EXCEPT ![p] = 0] /\ attempt' = [attempt EXCEPT ![p] = Idle]
    /\ UNCHANGED <<file, memory, lock, request, refresh, gate, spent, issued, logins, logouts,
                   epoch, reused, unheard, tabs>>

-----------------------------------------------------------------------------
(* logout *)

StartLogout(p) ==
    /\ gate[p] = "free" /\ logouts < MaxLogouts /\ logouts' = logouts + 1
    /\ gate' = [gate EXCEPT ![p] = "logout"]
    /\ pending' = [pending EXCEPT ![p] = 0] /\ attempt' = [attempt EXCEPT ![p] = Idle]
    /\ UNCHANGED <<file, memory, lock, request, refresh, spent, issued, logins, epoch, reused,
                   unheard, tabs>>

\* Mutant: the file is deleted without waiting for the lock.
MayDeleteNow == TRUE
\* acquire_auth_file_lock
MayDelete == lock = NoOne

LogoutCommits(p) ==
    /\ gate[p] = "logout" /\ MayDelete
    /\ file' = NoAuth /\ Remembers(p, NoAuth) /\ epoch' = epoch + 1
    /\ gate' = [gate EXCEPT ![p] = "free"]
    /\ UNCHANGED <<lock, request, refresh, pending, attempt, spent, issued, logins, logouts,
                   reused, unheard, tabs>>

\* The lock cannot be had, or the file cannot be deleted: then the process has forgotten the
\* credentials all the same.
LogoutFails(p) ==
    /\ gate[p] = "logout" /\ gate' = [gate EXCEPT ![p] = "free"]
    /\ (MayDelete /\ Remembers(p, NoAuth)) \/ UNCHANGED memory
    /\ UNCHANGED <<file, lock, request, refresh, pending, attempt, spent, issued, logins, logouts,
                   epoch, reused, unheard, tabs>>

Next == \E p \in Procs :
    \/ NeedsRefresh(p) \/ RefreshBegins(p) \/ RequestCancelled(p) \/ ServerAnswers(p)
    \/ RefreshCommits(p) \/ RefreshRefused(p) \/ RefreshFails(p)
    \/ StartLogin(p) \/ Callback(p) \/ DeviceCode(p)
    \/ LoginFinishes(p) \/ LoginCommits(p) \/ LoginFails(p) \/ CancelLogin(p)
    \/ StartLogout(p) \/ LogoutCommits(p) \/ LogoutFails(p)

Spec == Init /\ [][Next]_vars

-----------------------------------------------------------------------------
Auths == [token : 0..MaxGenerations, generation : 0..MaxGenerations, epoch : Nat]

CodexTypeOK ==
    /\ file \in Auths /\ memory \in [Procs -> Auths]
    /\ lock \in {NoOne} \cup (Procs \X {"refresh"})
    /\ request \in [Procs -> {Idle} \cup [at : {"waiting", "refreshing"}, expected : Auths]]
    /\ refresh \in [Procs -> {Idle} \cup [at : {"asking", "answered"}, auth : Auths]]
    /\ pending \in [Procs -> 0..MaxLogins] /\ gate \in [Procs -> {"free", "finish", "logout"}]
    /\ attempt \in [Procs -> {Idle}
          \cup [at : {"running"}, id : 1..MaxLogins, port : Ports \cup {0}]
          \cup [at : {"worked", "finishing"}, id : 1..MaxLogins, by : 0..MaxLogins]]
    /\ issued \in 1..MaxGenerations /\ spent \subseteq 0..MaxGenerations /\ unheard \subseteq spent
    /\ logins \in 0..MaxLogins /\ logouts \in 0..MaxLogouts /\ epoch \in Nat
    /\ reused \in BOOLEAN /\ tabs \subseteq (1..MaxLogins) \X Ports

\* No process sends the server a refresh token that the server has already replaced, however
\* refreshes of several processes, cancelled requests and sign-ins interleave, unless the
\* server's answer to the refresh that replaced it was lost.
TokenUsedOnce == ~reused

\* A sign-out or a sign-in is final: what the file holds comes from the last one committed, by any
\* process, and is never a refresh of credentials from before it.
SignOutFinal == file # NoAuth => file.epoch = epoch

\* A sign-in is completed only by the page that was opened for it: a page left over from another
\* attempt, of this or another process, may call the port this attempt listens on.
OwnConsent ==
    \A p \in Procs : attempt[p].at = "finishing" => attempt[p].by \in {0, attempt[p].id}

\* What the processes that share the credentials can rely on: a refresh token is used once, the
\* last sign-in or sign-out counts, and a sign-in is completed by its own page.
CredentialsSafe == TokenUsedOnce /\ SignOutFinal /\ OwnConsent

-----------------------------------------------------------------------------
(* The inductive invariant. *)

\* The lock is held exactly as long as a refresh is under way, by the process that refreshes.
LockInv == \A p \in Procs : refresh[p].at # "idle" <=> lock = <<p, "refresh">>

\* What is refreshed is what the file holds, until the server has answered.
AskingInv == \A p \in Procs : refresh[p].at = "asking" => file # NoAuth /\ refresh[p].auth = file

\* A replaced token is in the file only behind an answer that is being stored or was lost, and
\* what the server answered with has not been replaced.
TokenInv ==
    /\ spent \subseteq 1..issued
    /\ file # NoAuth => file.token \in 1..issued
    /\ file.token \in spent \ unheard => \E p \in Procs : refresh[p].at = "answered"
    /\ \A p \in Procs : refresh[p].at = "answered" => refresh[p].auth.token \in (1..issued) \ spent

\* Neither the file nor an answer comes from before the last sign-in or sign-out.
EpochInv ==
    /\ file # NoAuth => file.epoch = epoch
    /\ \A p \in Procs : refresh[p].at = "answered" => refresh[p].auth.epoch = epoch

\* The page that ended an attempt is its own, from the moment it called.
ConsentInv ==
    \A p \in Procs : attempt[p].at \in {"worked", "finishing"} => attempt[p].by \in {0, attempt[p].id}

IInv ==
    /\ CodexTypeOK /\ LockInv /\ AskingInv /\ TokenInv /\ EpochInv /\ ConsentInv
    /\ ~reused

-----------------------------------------------------------------------------
LEMMA LeastOne == ASSUME NEW S, S \subseteq Nat, S # {} PROVE \E n \in S : \A k \in S : n <= k
<1>1. \E n \in S : \A k \in S : ~ (<<k, n>> \in OpToRel(<, Nat))
  BY WFMin, NatLessThanWellFounded
<1>2. ASSUME NEW n \in Nat, NEW k \in Nat, k < n PROVE <<k, n>> \in OpToRel(<, Nat)
  BY <1>2, Zenon DEF OpToRel
<1>3. PICK n \in S : \A k \in S : ~ (<<k, n>> \in OpToRel(<, Nat))
  BY <1>1
<1>4. \A k \in S : ~ (k < n)
  BY <1>2, <1>3, Zenon
<1>5. QED BY <1>4

LEMMA BoundPort == ASSUME NEW p \in Procs PROVE bind_listener(p) \in Ports \cup {0}
<1> DEFINE others == {attempt[q].port : q \in {r \in Procs \ {p} : attempt[r].at = "running"}}
           free == Ports \ others
<1>1. CASE free = {}
  BY <1>1 DEF bind_listener
<1>2. CASE free # {}
  <2>1. \E n \in free : \A k \in free : n <= k
    BY <1>2, LeastOne, BoundsAssumption
  <2>2. (CHOOSE n \in free : \A k \in free : n <= k) \in free
    BY <2>1
  <2>3. QED BY <1>2, <2>2 DEF bind_listener
<1>3. QED BY <1>1, <1>2

LEMMA AuthFacts ==
    /\ NoAuth \in Auths /\ NoAuth.token = 0 /\ NoAuth.epoch = 0
    /\ \A a \in Auths : a.token \in 0..MaxGenerations /\ a.generation \in 0..MaxGenerations /\ a.epoch \in Nat
    /\ Idle.at = "idle"
BY BoundsAssumption DEF NoAuth, Auths, Idle

LEMMA AnsweredAuth ==
    ASSUME NEW a \in Auths, NEW t \in 0..MaxGenerations, NEW g \in 0..MaxGenerations
    PROVE  LET b == [a EXCEPT !.token = t, !.generation = g]
           IN  b \in Auths /\ b.token = t /\ b.epoch = a.epoch
BY DEF Auths

LEMMA RefreshFacts ==
    ASSUME CodexTypeOK, NEW p \in Procs
    PROVE  /\ refresh[p].at \in {"idle", "asking", "answered"}
           /\ refresh[p].at = "idle" => refresh[p] = Idle
           /\ refresh[p].at # "idle" => refresh[p].auth \in Auths
BY DEF CodexTypeOK, Idle

LEMMA AttemptFacts ==
    ASSUME CodexTypeOK, NEW p \in Procs
    PROVE  /\ attempt[p].at \in {"idle", "running", "worked", "finishing"}
           /\ attempt[p].at = "running" => attempt[p].id \in 1..MaxLogins
           /\ attempt[p].at \in {"worked", "finishing"} =>
                 /\ attempt[p] \in [at : {"worked", "finishing"}, id : 1..MaxLogins, by : 0..MaxLogins]
                 /\ attempt[p].id \in 1..MaxLogins /\ attempt[p].by \in 0..MaxLogins
BY DEF CodexTypeOK, Idle

\* The two ways a refresh begins: the file holds what was expected, or something else.
LEMMA BeginsCases ==
    ASSUME NEW p \in Procs, RefreshBegins(p)
    PROVE  \/ /\ file # NoAuth /\ lock' = <<p, "refresh">>
              /\ refresh' = [refresh EXCEPT ![p] = [at |-> "asking", auth |-> file]]
              /\ request' = [request EXCEPT ![p].at = "refreshing"]
              /\ reused' = (reused \/ (file.token \in spent /\ file.token \notin unheard))
           \/ /\ request' = [request EXCEPT ![p] = Idle]
              /\ lock' = lock /\ refresh' = refresh /\ reused' = reused
BY Zenon DEF RefreshBegins, FreshAuth

\* The server answers with the refresh token it was sent, or with a new one.
LEMMA AnswersCases ==
    ASSUME NEW p \in Procs, ServerAnswers(p)
    PROVE  \E token :
             /\ \/ token = issued + 1 /\ spent' = spent \cup {refresh[p].auth.token}
                \/ token = refresh[p].auth.token /\ spent' = spent
             /\ refresh' = [refresh EXCEPT ![p] = [at |-> "answered",
                      auth |-> [refresh[p].auth EXCEPT !.token = token, !.generation = issued + 1]]]
<1>1. PICK rotates \in BOOLEAN :
        LET token == IF rotates THEN issued + 1 ELSE refresh[p].auth.token IN
        /\ spent' = IF rotates THEN spent \cup {refresh[p].auth.token} ELSE spent
        /\ refresh' = [refresh EXCEPT ![p] =
              [at |-> "answered", auth |-> [@.auth EXCEPT !.token = token, !.generation = issued + 1]]]
  BY Zenon DEF ServerAnswers
<1>2. CASE rotates
  BY <1>1, <1>2, Zenon
<1>3. CASE ~rotates
  BY <1>1, <1>3, Zenon
<1>4. QED BY <1>2, <1>3

LEMMA TypeInit == Init => CodexTypeOK
<1>1. [token |-> 1, generation |-> 1, epoch |-> 0] \in Auths
  BY BoundsAssumption DEF Auths
<1> SUFFICES ASSUME Init PROVE CodexTypeOK
  OBVIOUS
<1>2. file \in Auths
  BY <1>1, AuthFacts DEF Init
<1>3. reused \in BOOLEAN
  BY Zenon DEF Init
<1>4. QED BY <1>2, <1>3, BoundsAssumption DEF Init, CodexTypeOK

LEMMA TypeStep == ASSUME CodexTypeOK, [Next]_vars PROVE CodexTypeOK'
<1> USE BoundsAssumption DEF CodexTypeOK
<1>1. ASSUME NEW p \in Procs, NeedsRefresh(p) PROVE CodexTypeOK'
  BY <1>1, SMT DEF NeedsRefresh
<1>2. ASSUME NEW p \in Procs, RefreshBegins(p) PROVE CodexTypeOK'
  <2>1. /\ memory' = [memory EXCEPT ![p] = file]
        /\ UNCHANGED <<file, pending, attempt, gate, spent, issued, logins, logouts, epoch, unheard, tabs>>
    BY <1>2 DEF RefreshBegins, Remembers, FreshAuth
  <2>2. request[p] \in [at : {"waiting", "refreshing"}, expected : Auths]
    BY <1>2 DEF RefreshBegins, Idle
  <2>3. [request EXCEPT ![p].at = "refreshing"] \in [Procs -> {Idle} \cup [at : {"waiting", "refreshing"}, expected : Auths]]
    BY <2>2
  <2>4. [refresh EXCEPT ![p] = [at |-> "asking", auth |-> file]]
           \in [Procs -> {Idle} \cup [at : {"asking", "answered"}, auth : Auths]]
    OBVIOUS
  <2>5. /\ request' \in [Procs -> {Idle} \cup [at : {"waiting", "refreshing"}, expected : Auths]]
        /\ refresh' \in [Procs -> {Idle} \cup [at : {"asking", "answered"}, auth : Auths]]
        /\ lock' \in {NoOne} \cup (Procs \X {"refresh"})
    <3>1. \/ /\ lock' = <<p, "refresh">>
             /\ refresh' = [refresh EXCEPT ![p] = [at |-> "asking", auth |-> file]]
             /\ request' = [request EXCEPT ![p].at = "refreshing"]
          \/ /\ request' = [request EXCEPT ![p] = Idle]
             /\ lock' = lock /\ refresh' = refresh
      BY <1>2, BeginsCases, Zenon
    <3>2. [request EXCEPT ![p] = Idle] \in [Procs -> {Idle} \cup [at : {"waiting", "refreshing"}, expected : Auths]]
      OBVIOUS
    <3>3. <<p, "refresh">> \in {NoOne} \cup (Procs \X {"refresh"})
      OBVIOUS
    <3>4. lock \in {NoOne} \cup (Procs \X {"refresh"}) /\ refresh \in [Procs -> {Idle} \cup [at : {"asking", "answered"}, auth : Auths]]
      OBVIOUS
    <3> HIDE DEF CodexTypeOK
    <3>5. QED BY <2>3, <2>4, <3>1, <3>2, <3>3, <3>4, Zenon
  <2>6. reused' \in BOOLEAN
    <3>1. \/ reused' = (reused \/ (file.token \in spent /\ file.token \notin unheard))
          \/ reused' = reused
      BY <1>2, BeginsCases, Zenon
    <3>2. (reused \/ (file.token \in spent /\ file.token \notin unheard)) \in BOOLEAN
      BY Zenon
    <3>3. QED BY <3>1, <3>2, Zenon
  <2>7. QED BY <2>1, <2>5, <2>6
<1>3. ASSUME NEW p \in Procs, RequestCancelled(p) PROVE CodexTypeOK'
  BY <1>3, SMT DEF RequestCancelled, AfterCancel
<1>4. ASSUME NEW p \in Procs, ServerAnswers(p) PROVE CodexTypeOK'
  <2>1. refresh[p].auth \in Auths
    BY <1>4, RefreshFacts DEF ServerAnswers
  <2>2. PICK token :
          /\ \/ token = issued + 1 /\ spent' = spent \cup {refresh[p].auth.token}
             \/ token = refresh[p].auth.token /\ spent' = spent
          /\ refresh' = [refresh EXCEPT ![p] = [at |-> "answered",
                   auth |-> [refresh[p].auth EXCEPT !.token = token, !.generation = issued + 1]]]
    BY <1>4, AnswersCases, Zenon
  <2> DEFINE auth == [refresh[p].auth EXCEPT !.token = token, !.generation = issued + 1]
  <2>3. issued' = issued + 1 /\ issued' \in 1..MaxGenerations
    BY <1>4 DEF ServerAnswers
  <2>4. token \in 0..MaxGenerations
    BY <2>1, <2>2, <2>3, AuthFacts
  <2>5. auth \in Auths
    <3>1. issued + 1 \in 0..MaxGenerations
      BY <2>3
    <3> HIDE DEF CodexTypeOK
    <3>2. QED BY <2>1, <2>4, <3>1, AnsweredAuth, Zenon
  <2>6. refresh' \in [Procs -> {Idle} \cup [at : {"asking", "answered"}, auth : Auths]]
    BY <2>2, <2>5
  <2>7. spent' \subseteq 0..MaxGenerations /\ spent \subseteq spent'
    <3>1. refresh[p].auth.token \in 0..MaxGenerations
      BY <2>1, AuthFacts
    <3>2. spent' = spent \cup {refresh[p].auth.token} \/ spent' = spent
      BY <2>2, Zenon
    <3>3. QED BY <3>1, <3>2
  <2>8. QED BY <1>4, <2>3, <2>6, <2>7 DEF ServerAnswers
<1>5. ASSUME NEW p \in Procs, RefreshCommits(p) PROVE CodexTypeOK'
  BY <1>5, RefreshFacts, SMT DEF RefreshCommits, Remembers
<1>6. ASSUME NEW p \in Procs, RefreshRefused(p) PROVE CodexTypeOK'
  BY <1>6, AuthFacts, SMT DEF RefreshRefused, Remembers
<1>7. ASSUME NEW p \in Procs, RefreshFails(p) PROVE CodexTypeOK'
  BY <1>7, SMT DEF RefreshFails
<1>8. ASSUME NEW p \in Procs, StartLogin(p) PROVE CodexTypeOK'
  BY <1>8, BoundPort, SMT DEF StartLogin
<1>9. ASSUME NEW p \in Procs, Callback(p) PROVE CodexTypeOK'
  BY <1>9, AttemptFacts, SMT DEF Callback, Worked
<1>10. ASSUME NEW p \in Procs, DeviceCode(p) PROVE CodexTypeOK'
  BY <1>10, AttemptFacts, SMT DEF DeviceCode, Worked
<1>11. ASSUME NEW p \in Procs, LoginFinishes(p) PROVE CodexTypeOK'
  BY <1>11, AttemptFacts, SMT DEF LoginFinishes
<1>12. ASSUME NEW p \in Procs, LoginCommits(p) PROVE CodexTypeOK'
  BY <1>12, SMT DEF LoginCommits, Remembers, Auths
<1>13. ASSUME NEW p \in Procs, LoginFails(p) PROVE CodexTypeOK'
  BY <1>13, SMT DEF LoginFails
<1>14. ASSUME NEW p \in Procs, CancelLogin(p) PROVE CodexTypeOK'
  BY <1>14, SMT DEF CancelLogin
<1>15. ASSUME NEW p \in Procs, StartLogout(p) PROVE CodexTypeOK'
  BY <1>15, SMT DEF StartLogout
<1>16. ASSUME NEW p \in Procs, LogoutCommits(p) PROVE CodexTypeOK'
  BY <1>16, AuthFacts, SMT DEF LogoutCommits, Remembers, MayDelete
<1>17. ASSUME NEW p \in Procs, LogoutFails(p) PROVE CodexTypeOK'
  BY <1>17, AuthFacts, SMT DEF LogoutFails, Remembers, MayDelete
<1>18. CASE UNCHANGED vars
  BY <1>18 DEF vars
<1>19. QED
  BY <1>1, <1>2, <1>3, <1>4, <1>5, <1>6, <1>7, <1>8, <1>9, <1>10, <1>11, <1>12, <1>13, <1>14, <1>15, <1>16, <1>17,
     <1>18 DEF Next
-----------------------------------------------------------------------------
(* Steps that touch neither the file, its lock, a refresh nor what the server knows. *)

LEMMA QuietSteps ==
    ASSUME CodexTypeOK, NEW p \in Procs,
           \/ NeedsRefresh(p) \/ RequestCancelled(p) \/ StartLogin(p) \/ Callback(p) \/ DeviceCode(p)
           \/ LoginFinishes(p) \/ LoginFails(p) \/ CancelLogin(p) \/ StartLogout(p) \/ LogoutFails(p)
    PROVE  UNCHANGED <<file, lock, refresh, spent, issued, epoch, reused, unheard>>
<1>1. CASE RequestCancelled(p)
  <2>1. refresh' = [refresh EXCEPT ![p] = refresh[p]] /\ lock' = lock
    BY <1>1 DEF RequestCancelled, AfterCancel
  <2>2. refresh' = refresh
    BY <2>1 DEF CodexTypeOK
  <2>3. QED BY <1>1, <2>1, <2>2 DEF RequestCancelled
<1>2. CASE NeedsRefresh(p) \/ StartLogin(p) \/ Callback(p) \/ DeviceCode(p)
  BY <1>2, Zenon DEF NeedsRefresh, StartLogin, Callback, DeviceCode
<1>3. CASE LoginFinishes(p) \/ LoginFails(p) \/ CancelLogin(p) \/ StartLogout(p) \/ LogoutFails(p)
  BY <1>3, Zenon DEF LoginFinishes, LoginFails, CancelLogin, StartLogout, LogoutFails
<1>4. QED BY <1>1, <1>2, <1>3

-----------------------------------------------------------------------------
(* What the lock tells about refreshes. *)

LEMMA NoneRefreshes ==
    ASSUME CodexTypeOK, LockInv, lock = NoOne
    PROVE  \A q \in Procs : refresh[q].at = "idle" /\ refresh[q] = Idle
BY RefreshFacts DEF LockInv, NoOne

LEMMA OthersIdle ==
    ASSUME CodexTypeOK, LockInv, NEW p \in Procs, refresh[p].at # "idle"
    PROVE  /\ lock = <<p, "refresh">>
           /\ \A q \in Procs : q # p => refresh[q].at = "idle" /\ refresh[q] = Idle
BY RefreshFacts DEF LockInv

\* The parts of the invariant that refreshes and commits can disturb.
Shared == LockInv /\ AskingInv /\ TokenInv /\ EpochInv /\ ~reused

\* When nobody refreshes, the lock is free, and a replaced token in the file is one whose
\* replacement was lost, the rest of the invariant follows.
LEMMA AtRest ==
    ASSUME lock' = NoOne, \A q \in Procs : refresh'[q] = Idle, ~reused',
           spent' \subseteq 1..issued', file'.token \in spent' => file'.token \in unheard',
           file' # NoAuth => file'.token \in 1..issued' /\ file'.epoch = epoch'
    PROVE  Shared'
<1>1. \A q \in Procs : refresh'[q].at = "idle"
  BY AuthFacts
<1>2. LockInv'
  BY <1>1 DEF LockInv, NoOne
<1>3. AskingInv' /\ EpochInv'
  BY <1>1 DEF AskingInv, EpochInv
<1>4. TokenInv'
  BY <1>1 DEF TokenInv
<1>5. QED BY <1>2, <1>3, <1>4 DEF Shared

LEMMA BeginsShared ==
    ASSUME CodexTypeOK, Shared, NEW p \in Procs, RefreshBegins(p)
    PROVE  Shared'
<1>1. \A q \in Procs : refresh[q].at = "idle" /\ refresh[q] = Idle
  BY NoneRefreshes DEF Shared, RefreshBegins
<1>2. /\ file' = file /\ spent' = spent /\ issued' = issued /\ unheard' = unheard /\ epoch' = epoch
      /\ lock = NoOne
  BY DEF RefreshBegins
<1>3. file.token \in spent => file.token \in unheard
  BY <1>1 DEF Shared, TokenInv
<1>4. ~reused
  BY DEF Shared
<1>5. CASE /\ file # NoAuth /\ lock' = <<p, "refresh">>
           /\ refresh' = [refresh EXCEPT ![p] = [at |-> "asking", auth |-> file]]
           /\ reused' = (reused \/ (file.token \in spent /\ file.token \notin unheard))
  <2>1. ~reused'
    BY <1>3, <1>4, <1>5, Zenon
  <2>2. /\ refresh'[p].at = "asking" /\ refresh'[p].auth = file
        /\ \A q \in Procs : q # p => refresh'[q].at = "idle"
    BY <1>1, <1>5 DEF CodexTypeOK
  <2>3. LockInv'
    BY <1>5, <2>2 DEF LockInv
  <2>4. AskingInv'
    BY <1>2, <1>5, <2>2 DEF AskingInv
  <2>5. TokenInv'
    BY <1>2, <1>3, <2>2 DEF TokenInv, Shared
  <2>6. EpochInv'
    BY <1>2, <2>2 DEF EpochInv, Shared
  <2>7. QED BY <2>1, <2>3, <2>4, <2>5, <2>6 DEF Shared
<1>6. CASE lock' = lock /\ refresh' = refresh /\ reused' = reused
  BY <1>2, <1>6 DEF Shared, LockInv, AskingInv, TokenInv, EpochInv
<1>7. QED BY <1>5, <1>6, BeginsCases, Zenon

LEMMA AnswersShared ==
    ASSUME CodexTypeOK, Shared, NEW p \in Procs, ServerAnswers(p)
    PROVE  Shared'
<1>1. /\ refresh[p].at = "asking" /\ refresh[p].auth.token \notin spent
      /\ issued' = issued + 1 /\ issued < MaxGenerations
      /\ file' = file /\ lock' = lock /\ epoch' = epoch /\ unheard' = unheard /\ reused' = reused
  BY DEF ServerAnswers
<1>2. /\ lock = <<p, "refresh">>
      /\ \A q \in Procs : q # p => refresh[q].at = "idle" /\ refresh[q] = Idle
  BY <1>1, OthersIdle DEF Shared
<1>3. file # NoAuth /\ refresh[p].auth = file
  BY <1>1 DEF Shared, AskingInv
<1>4. file \in Auths /\ issued \in 1..MaxGenerations /\ file.token \in 1..issued /\ file.epoch = epoch
      /\ spent \subseteq 1..issued
  BY <1>3 DEF CodexTypeOK, Shared, TokenInv, EpochInv
<1>5. PICK token :
        /\ \/ token = issued + 1 /\ spent' = spent \cup {refresh[p].auth.token}
           \/ token = refresh[p].auth.token /\ spent' = spent
        /\ refresh' = [refresh EXCEPT ![p] = [at |-> "answered",
                 auth |-> [refresh[p].auth EXCEPT !.token = token, !.generation = issued + 1]]]
  BY AnswersCases, Zenon
<1> DEFINE auth == [file EXCEPT !.token = token, !.generation = issued + 1]
<1>6. token \in 0..MaxGenerations /\ issued + 1 \in 0..MaxGenerations
  BY <1>1, <1>3, <1>4, <1>5, BoundsAssumption
<1>7. auth.token = token /\ auth.epoch = epoch
  <2>1. file \in Auths /\ file.epoch = epoch
    BY <1>4
  <2>2. auth.token = token /\ auth.epoch = file.epoch
    BY <1>6, <2>1 DEF Auths
  <2>3. QED BY <2>1, <2>2
<1> HIDE DEF auth
<1>8. refresh' = [refresh EXCEPT ![p] = [at |-> "answered", auth |-> auth]]
  BY <1>3, <1>5 DEF auth
<1>9. /\ refresh'[p].at = "answered" /\ refresh'[p].auth = auth
      /\ \A q \in Procs : q # p => refresh'[q].at = "idle"
  BY <1>2, <1>8 DEF CodexTypeOK
<1>10. LockInv'
  BY <1>1, <1>2, <1>9 DEF LockInv
<1>11. AskingInv'
  BY <1>9 DEF AskingInv
<1>12. spent' \subseteq 1..issued' /\ token \in (1..issued') \ spent'
  BY <1>1, <1>3, <1>4, <1>5
<1>13. TokenInv'
  <2>1. file' # NoAuth => file'.token \in 1..issued'
    BY <1>1, <1>4
  <2>2. \E q \in Procs : refresh'[q].at = "answered"
    BY <1>9
  <2>3. \A q \in Procs : refresh'[q].at = "answered" => refresh'[q].auth.token \in (1..issued') \ spent'
    BY <1>7, <1>9, <1>12
  <2>4. QED BY <1>12, <2>1, <2>2, <2>3, Zenon DEF TokenInv
<1>14. EpochInv'
  BY <1>1, <1>4, <1>7, <1>9 DEF EpochInv
<1>15. ~reused'
  BY <1>1, Zenon DEF Shared
<1>16. QED BY <1>10, <1>11, <1>13, <1>14, <1>15 DEF Shared

LEMMA EndsIdle ==
    ASSUME CodexTypeOK, Shared, NEW p \in Procs, refresh[p].at # "idle",
           refresh' = [refresh EXCEPT ![p] = Idle]
    PROVE  \A q \in Procs : refresh'[q] = Idle
<1>1. \A q \in Procs : q # p => refresh[q] = Idle
  BY OthersIdle DEF Shared
<1>2. QED BY <1>1 DEF CodexTypeOK

LEMMA CommitsShared ==
    ASSUME CodexTypeOK, Shared, NEW p \in Procs, RefreshCommits(p)
    PROVE  Shared'
<1>1. /\ refresh[p].at = "answered" /\ file' = refresh[p].auth /\ lock' = NoOne
      /\ refresh' = [refresh EXCEPT ![p] = Idle]
      /\ spent' = spent /\ issued' = issued /\ epoch' = epoch /\ reused' = reused /\ unheard' = unheard
  BY DEF RefreshCommits
<1>2. \A q \in Procs : refresh'[q] = Idle
  BY <1>1, EndsIdle
<1>3. file'.token \in (1..issued) \ spent /\ file'.epoch = epoch /\ spent \subseteq 1..issued
  BY <1>1 DEF Shared, TokenInv, EpochInv
<1>4. ~reused'
  BY <1>1, Zenon DEF Shared
<1>5. QED BY <1>1, <1>2, <1>3, <1>4, AtRest

LEMMA RefusedShared ==
    ASSUME CodexTypeOK, Shared, NEW p \in Procs, RefreshRefused(p)
    PROVE  Shared'
<1>1. /\ refresh[p].at # "idle" /\ file' = NoAuth /\ lock' = NoOne
      /\ refresh' = [refresh EXCEPT ![p] = Idle]
      /\ spent' = spent /\ issued' = issued /\ epoch' = epoch /\ reused' = reused /\ unheard' = unheard
  BY DEF RefreshRefused
<1>2. \A q \in Procs : refresh'[q] = Idle
  BY <1>1, EndsIdle
<1>3. spent \subseteq 1..issued /\ file'.token \notin spent
  BY <1>1, AuthFacts DEF Shared, TokenInv, CodexTypeOK
<1>4. ~reused'
  BY <1>1, Zenon DEF Shared
<1>5. QED BY <1>1, <1>2, <1>3, <1>4, AtRest

LEMMA FailsShared ==
    ASSUME CodexTypeOK, Shared, NEW p \in Procs, RefreshFails(p)
    PROVE  Shared'
<1>1. /\ refresh[p].at \in {"asking", "answered"} /\ file' = file /\ lock' = NoOne
      /\ refresh' = [refresh EXCEPT ![p] = Idle]
      /\ spent' = spent /\ issued' = issued /\ epoch' = epoch /\ reused' = reused
      /\ unheard' = IF refresh[p].at = "answered" THEN unheard \cup spent ELSE unheard
  BY DEF RefreshFails
<1>2. \A q \in Procs : refresh'[q] = Idle
  BY <1>1, EndsIdle
<1>3. file.token \in spent => file.token \in unheard'
  <2>1. CASE refresh[p].at = "answered"
    BY <1>1, <2>1
  <2>2. CASE refresh[p].at = "asking"
    <3>1. ~ \E q \in Procs : refresh[q].at = "answered"
      BY <2>2, OthersIdle DEF Shared
    <3>2. QED BY <1>1, <2>2, <3>1 DEF Shared, TokenInv
  <2>3. QED BY <1>1, <2>1, <2>2
<1>4. spent \subseteq 1..issued /\ (file # NoAuth => file.token \in 1..issued /\ file.epoch = epoch)
  BY DEF Shared, TokenInv, EpochInv
<1>5. ~reused'
  BY <1>1, Zenon DEF Shared
<1>6. QED BY <1>1, <1>2, <1>3, <1>4, <1>5, AtRest

LEMMA SignedInShared ==
    ASSUME CodexTypeOK, Shared, NEW p \in Procs, LoginCommits(p)
    PROVE  Shared'
<1>1. /\ lock = NoOne /\ lock' = lock /\ refresh' = refresh /\ spent' = spent /\ unheard' = unheard
      /\ file' = [token |-> issued + 1, generation |-> issued + 1, epoch |-> epoch + 1]
      /\ issued' = issued + 1 /\ epoch' = epoch + 1 /\ reused' = reused
  BY DEF LoginCommits
<1>2. \A q \in Procs : refresh'[q] = Idle
  BY <1>1, NoneRefreshes DEF Shared
<1>3. issued \in Nat /\ spent \subseteq 1..issued
  BY DEF CodexTypeOK, Shared, TokenInv
<1>4. file'.token = issued + 1 /\ file'.epoch = epoch'
  BY <1>1
<1>5. file'.token \notin spent' /\ spent' \subseteq 1..issued' /\ file'.token \in 1..issued'
  BY <1>1, <1>3, <1>4
<1>6. ~reused'
  BY <1>1, Zenon DEF Shared
<1>7. QED BY <1>1, <1>2, <1>4, <1>5, <1>6, AtRest

LEMMA SignedOutShared ==
    ASSUME CodexTypeOK, Shared, NEW p \in Procs, LogoutCommits(p)
    PROVE  Shared'
<1>1. /\ lock = NoOne /\ lock' = lock /\ refresh' = refresh /\ spent' = spent /\ unheard' = unheard
      /\ file' = NoAuth /\ issued' = issued /\ epoch' = epoch + 1 /\ reused' = reused
  BY DEF LogoutCommits, MayDelete
<1>2. \A q \in Procs : refresh'[q] = Idle
  BY <1>1, NoneRefreshes DEF Shared
<1>3. spent \subseteq 1..issued /\ file'.token \notin spent
  BY <1>1, AuthFacts DEF Shared, TokenInv, CodexTypeOK
<1>4. ~reused'
  BY <1>1, Zenon DEF Shared
<1>5. QED BY <1>1, <1>2, <1>3, <1>4, AtRest

LEMMA SharedStep == ASSUME CodexTypeOK, Shared, [Next]_vars PROVE Shared'
<1>1. ASSUME NEW p \in Procs,
             \/ NeedsRefresh(p) \/ RequestCancelled(p) \/ StartLogin(p) \/ Callback(p) \/ DeviceCode(p)
             \/ LoginFinishes(p) \/ LoginFails(p) \/ CancelLogin(p) \/ StartLogout(p) \/ LogoutFails(p)
      PROVE  Shared'
  <2>1. UNCHANGED <<file, lock, refresh, spent, issued, epoch, reused, unheard>>
    BY <1>1, QuietSteps
  <2>2. QED BY <2>1, Zenon DEF Shared, LockInv, AskingInv, TokenInv, EpochInv
<1>2. CASE UNCHANGED vars
  BY <1>2, Zenon DEF vars, Shared, LockInv, AskingInv, TokenInv, EpochInv
<1>3. QED
  BY <1>1, <1>2, BeginsShared, AnswersShared, CommitsShared, RefusedShared, FailsShared,
     SignedInShared, SignedOutShared, Zenon DEF Next

LEMMA ConsentStep == ASSUME CodexTypeOK, ConsentInv, [Next]_vars PROVE ConsentInv'
<1> SUFFICES ASSUME NEW q \in Procs, attempt'[q].at \in {"worked", "finishing"}
             PROVE  attempt'[q].by \in {0, attempt'[q].id}
  BY DEF ConsentInv
<1> USE DEF CodexTypeOK
<1>1. ASSUME attempt' = attempt PROVE attempt'[q].by \in {0, attempt'[q].id}
  BY <1>1 DEF ConsentInv
<1>2. ASSUME NEW p \in Procs, attempt' = [attempt EXCEPT ![p] = Idle]
      PROVE  attempt'[q].by \in {0, attempt'[q].id}
  BY <1>2, AuthFacts DEF ConsentInv
<1>3. ASSUME NEW p \in Procs, NEW by, by \in {0, attempt[p].id}, Worked(p, by)
      PROVE  attempt'[q].by \in {0, attempt'[q].id}
  BY <1>3 DEF ConsentInv, Worked
<1>4. ASSUME NEW p \in Procs, StartLogin(p) PROVE attempt'[q].by \in {0, attempt'[q].id}
  <2>1. \/ attempt' = [attempt EXCEPT ![p] = Idle]
        \/ \E port : attempt' = [attempt EXCEPT ![p] = [at |-> "running", id |-> logins + 1, port |-> port]]
    BY <1>4, Zenon DEF StartLogin
  <2>2. ASSUME NEW port, attempt' = [attempt EXCEPT ![p] = [at |-> "running", id |-> logins + 1, port |-> port]]
        PROVE  attempt'[q].by \in {0, attempt'[q].id}
    BY <2>2 DEF ConsentInv
  <2>3. QED BY <1>2, <2>1, <2>2
<1>5. ASSUME NEW p \in Procs, Callback(p) PROVE attempt'[q].by \in {0, attempt'[q].id}
  <2>1. \E by \in {0, attempt[p].id} : Worked(p, by)
    BY <1>5 DEF Callback, StateMatches
  <2>2. QED BY <1>3, <2>1
<1>6. ASSUME NEW p \in Procs, DeviceCode(p) PROVE attempt'[q].by \in {0, attempt'[q].id}
  BY <1>3, <1>6 DEF DeviceCode
<1>7. ASSUME NEW p \in Procs, LoginFinishes(p) PROVE attempt'[q].by \in {0, attempt'[q].id}
  <2>1. CASE attempt' = [attempt EXCEPT ![p] = Idle]
    BY <1>2, <2>1
  <2>2. CASE attempt' = [attempt EXCEPT ![p].at = "finishing"]
    <3>1. attempt[p] \in [at : {"worked", "finishing"}, id : 1..MaxLogins, by : 0..MaxLogins]
      BY <1>7, AttemptFacts DEF LoginFinishes
    <3>2. CASE q = p
      <4>1. attempt'[p].by = attempt[p].by /\ attempt'[p].id = attempt[p].id
        BY <2>2, <3>1
      <4>2. attempt[p].by \in {0, attempt[p].id}
        BY <1>7 DEF LoginFinishes, ConsentInv
      <4>3. QED BY <3>2, <4>1, <4>2
    <3>3. CASE q # p
      BY <2>2, <3>3 DEF ConsentInv
    <3>4. QED BY <3>2, <3>3
  <2>3. QED BY <1>7, <2>1, <2>2 DEF LoginFinishes
<1>8. ASSUME NEW p \in Procs, LoginCommits(p) \/ LoginFails(p) \/ CancelLogin(p) \/ StartLogout(p)
      PROVE  attempt'[q].by \in {0, attempt'[q].id}
  <2>1. attempt' = [attempt EXCEPT ![p] = Idle]
    BY <1>8, Zenon DEF LoginCommits, LoginFails, CancelLogin, StartLogout
  <2>2. QED BY <1>2, <2>1
<1>9. ASSUME NEW p \in Procs,
             \/ NeedsRefresh(p) \/ RefreshBegins(p) \/ RequestCancelled(p) \/ ServerAnswers(p)
             \/ RefreshCommits(p) \/ RefreshRefused(p) \/ RefreshFails(p) \/ LogoutCommits(p) \/ LogoutFails(p)
      PROVE  attempt'[q].by \in {0, attempt'[q].id}
  <2>1. attempt' = attempt
    BY <1>9, Zenon DEF NeedsRefresh, RefreshBegins, RequestCancelled, ServerAnswers, RefreshCommits,
       RefreshRefused, RefreshFails, LogoutCommits, LogoutFails
  <2>2. QED BY <1>1, <2>1
<1>10. CASE UNCHANGED vars
  BY <1>1, <1>10 DEF vars
<1> HIDE DEF CodexTypeOK
<1>11. QED BY <1>4, <1>5, <1>6, <1>7, <1>8, <1>9, <1>10, Zenon DEF Next

-----------------------------------------------------------------------------
LEMMA InvInit == Init => IInv
<1> SUFFICES ASSUME Init PROVE IInv
  OBVIOUS
<1>1. CodexTypeOK
  BY TypeInit
<1>2. \A q \in Procs : refresh[q] = Idle /\ attempt[q] = Idle
  BY DEF Init
<1>3. ~reused
  BY Zenon DEF Init
<1>4. lock = NoOne /\ spent = {} /\ issued = 1 /\ epoch = 0
  BY DEF Init
<1>5. file # NoAuth => file.token \in 1..issued /\ file.epoch = epoch
  BY <1>4 DEF Init
<1>6. Shared
  <2>1. \A q \in Procs : refresh[q].at = "idle"
    BY <1>2, AuthFacts
  <2>2. LockInv /\ AskingInv
    BY <1>4, <2>1 DEF LockInv, AskingInv, NoOne
  <2>3. TokenInv /\ EpochInv
    BY <1>4, <1>5, <2>1 DEF TokenInv, EpochInv
  <2>4. QED BY <1>3, <2>2, <2>3 DEF Shared
<1>7. ConsentInv
  BY <1>2, AuthFacts DEF ConsentInv
<1>8. QED BY <1>1, <1>6, <1>7 DEF IInv, Shared

LEMMA InvStep == IInv /\ [Next]_vars => IInv'
<1> SUFFICES ASSUME IInv, [Next]_vars PROVE IInv'
  OBVIOUS
<1>1. CodexTypeOK /\ Shared /\ ConsentInv
  BY DEF IInv, Shared
<1>2. CodexTypeOK' /\ Shared' /\ ConsentInv'
  BY <1>1, TypeStep, SharedStep, ConsentStep
<1>3. QED BY <1>2 DEF IInv, Shared

\* Every variable keeps its type (openai-codex auth.rs, auth/login.rs).
THEOREM TypeCorrect == Spec => []CodexTypeOK
<1>1. IInv => CodexTypeOK
  BY DEF IInv
<1>2. QED BY InvInit, InvStep, <1>1, PTL DEF Spec

\* However the refreshes, cancelled requests, sign-ins and sign-outs of any number of processes
\* interleave, no token is sent again after its replacement was received, the file never holds
\* credentials from before the last sign-in or sign-out, and a sign-in is completed by its own
\* page (persist_auth_locked, refresh_request_auth, run_browser_login).
THEOREM CredentialsSafeCorrect == Spec => []CredentialsSafe
<1>1. IInv => CredentialsSafe
  BY DEF IInv, CredentialsSafe, TokenUsedOnce, SignOutFinal, OwnConsent, EpochInv, ConsentInv
<1>2. QED BY InvInit, InvStep, <1>1, PTL DEF Spec

\* The file lock is held exactly by the process whose refresh is under way, so two processes never
\* have a refresh of the shared credentials outstanding (acquire_auth_file_lock).
THEOREM OneRefreshAtATime ==
    Spec => [](\A p, q \in Procs : refresh[p].at # "idle" /\ refresh[q].at # "idle" => p = q)
<1>1. IInv => \A p, q \in Procs : refresh[p].at # "idle" /\ refresh[q].at # "idle" => p = q
  BY OthersIdle DEF IInv
<1>2. QED BY InvInit, InvStep, <1>1, PTL DEF Spec
=============================================================================
