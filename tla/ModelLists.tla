----------------------------- MODULE ModelLists -----------------------------
(***************************************************************************)
(* The list of models of one provider, which all processes share through   *)
(* one row of the database: a process refreshes it after claiming the row  *)
(* for a while, and the others install what it stored.                     *)
(*                                                                         *)
(* A process has one synchronisation under way at a time (config_reload),  *)
(* with the time at which it was asked for.  One action is one transaction *)
(* or one request to the provider; anything may happen in between.         *)
(***************************************************************************)
EXTENDS Integers

CONSTANTS
    Runtimes,   \* processes that open the same database
    Sources,    \* where a configuration may say the list comes from
    NoSource,   \* the row has no list
    MaxAge,     \* MAX_AGE, in ticks
    ClaimTtl,   \* CLAIM_TTL, in ticks
    MaxClock    \* bound: ticks explored

ASSUME ModelListsAssumption ==
    /\ NoSource \notin Sources
    /\ MaxAge \in Nat /\ ClaimTtl \in Nat /\ MaxClock \in Nat

VARIABLES
    catalogRow, \* model_lists: source and fetched_at as a version, and claimed_until
    clock,      \* unix_millis, in ticks
    task,       \* what the process is doing, and the locals of ProviderSyncTask
    source,     \* model_list_source of its configuration
    due,        \* time of a poll that waits for its turn; 0 is none
    installed,  \* SyncState::installed
    failed,     \* SyncState::failed_claims; 0 is none
    late        \* history: a list was saved after its claim had run out

vars == <<catalogRow, clock, task, source, due, installed, failed, late>>

(* ModelListVersion; a row without a list has the columns '' and 0. *)
Version(s, t) == [source |-> s, at |-> t]
NoVersion == Version(NoSource, 0)
Versions == [source : Sources \cup {NoSource}, at : Nat]

(* The row with a stored version and a claim. *)
Row(v, u) == [version |-> v, until |-> u]

(* A task: its stage, what asked for it and when, the stored version it    *)
(* has seen, its claim, and whether it could use the stored list.          *)
Task(stage, by, now, seen, until, list) ==
    [stage |-> stage, by |-> by, now |-> now, seen |-> seen, until |-> until, list |-> list]
Down == Task("down", "none", 0, NoVersion, 0, "usable")
Idle == Task("idle", "none", 0, NoVersion, 0, "usable")

Stages == {"down", "idle", "reset", "loaded", "seen", "claim", "fetch", "save"}
Askers == {"none", "reload", "poll"}
Lists == {"usable", "unusable"}
Tasks == [stage : Stages, by : Askers, now : Nat, seen : Versions, until : Nat, list : Lists]
Rows == [version : Versions, until : Nat]

TypeOK ==
    /\ catalogRow \in Rows
    /\ clock \in Nat
    /\ task \in [Runtimes -> Tasks]
    /\ source \in [Runtimes -> Sources]
    /\ due \in [Runtimes -> Nat]
    /\ installed \in [Runtimes -> Versions]
    /\ failed \in [Runtimes -> Nat]
    /\ late \in BOOLEAN
    /\ catalogRow.version.at <= clock
    /\ \A r \in Runtimes : due[r] <= clock /\ task[r].now <= clock

Init ==
    /\ catalogRow = Row(NoVersion, 0)
    /\ clock = 1
    /\ task = [r \in Runtimes |-> Down]
    /\ source \in [Runtimes -> Sources]
    /\ due = [r \in Runtimes |-> 0]
    /\ installed = [r \in Runtimes |-> NoVersion]
    /\ failed = [r \in Runtimes |-> 0]
    /\ late = FALSE

At(r, stage) == task[r].stage = stage
Enter(r, t) == task' = [task EXCEPT ![r] = t]

(* The task goes on at another stage. *)
GoOn(r, stage) ==
    Enter(r, Task(stage, task[r].by, task[r].now, task[r].seen, task[r].until, task[r].list))

-----------------------------------------------------------------------------
(* load_providers_config_and_emit, at startup and whenever the             *)
(* configuration changes: the new providers have nothing installed, and    *)
(* reset takes the failed claims to release them.                          *)
Load(r) ==
    /\ At(r, "down") \/ At(r, "idle")
    /\ GoOn(r, "reset")
    /\ \E s \in Sources : source' = [source EXCEPT ![r] = s]
    /\ installed' = [installed EXCEPT ![r] = NoVersion]
    /\ UNCHANGED <<catalogRow, clock, due, failed, late>>

(* Variant: whatever claim there is, is released. *)
ReleasedAny(u) == Row(catalogRow.version, 0)

(* SqliteModelListStore::release *)
Released(u) == IF catalogRow.until = u THEN Row(catalogRow.version, 0) ELSE catalogRow

(* The rest of reset, and the time of the synchronisation that follows it. *)
(* A release that fails is only logged.                                    *)
Reset(r) ==
    /\ At(r, "reset")
    /\ catalogRow' = catalogRow \/ (failed[r] # 0 /\ catalogRow' = Released(failed[r]))
    /\ failed' = [failed EXCEPT ![r] = 0]
    /\ Enter(r, Task("loaded", "reload", clock, NoVersion, 0, "usable"))
    /\ UNCHANGED <<clock, source, due, installed, late>>

(* The poll of every five seconds takes the time, then waits for its turn; *)
(* the next one comes after it.                                            *)
Poll(r) ==
    /\ ~At(r, "down")
    /\ due[r] = 0 /\ task[r].by # "poll"
    /\ due' = [due EXCEPT ![r] = clock]
    /\ UNCHANGED <<catalogRow, clock, task, source, installed, failed, late>>

(* sync reads the stored version, after a reload or for a poll. *)
Sync(r) ==
    /\ \/ /\ At(r, "loaded")
          /\ Enter(r, Task("seen", task[r].by, task[r].now, catalogRow.version, 0, "usable"))
          /\ UNCHANGED due
       \/ /\ At(r, "idle")
          /\ due[r] # 0
          /\ due' = [due EXCEPT ![r] = 0]
          /\ Enter(r, Task("seen", "poll", due[r], catalogRow.version, 0, "usable"))
    /\ UNCHANGED <<catalogRow, clock, source, installed, failed, late>>

(* The database fails. *)
SyncFails(r) ==
    /\ \/ At(r, "loaded") /\ UNCHANGED due
       \/ At(r, "idle") /\ due[r] # 0 /\ due' = [due EXCEPT ![r] = 0]
    /\ Enter(r, Idle)
    /\ UNCHANGED <<catalogRow, clock, source, installed, failed, late>>

-----------------------------------------------------------------------------
(* ProviderSyncTask::run *)

(* The list in use, if it is from the configured source. *)
Current(r) == IF installed[r].source = source[r] THEN installed[r] ELSE NoVersion

(* Variant: the stored list is not compared with the one in use. *)
InstallsAny(r) == task[r].seen.source = source[r]

(* The stored list is newer than the one in use. *)
Installs(r) ==
    /\ task[r].seen.source = source[r]
    /\ task[r].seen.at > Current(r).at

(* A list of the configured source that is not too old. *)
Fresh(r, v) == v.source = source[r] /\ task[r].now - v.at < MaxAge

(* On with the version `v' in use, having seen `seen' in the row. *)
Decide(r, v, seen, list) ==
    \/ /\ Fresh(r, v)
       /\ Enter(r, Idle)
    \/ /\ ~Fresh(r, v)
       /\ Enter(r, Task("claim", task[r].by, task[r].now, seen, 0, list))

(* install_stored reads the row again and finds it usable. *)
Install(r) ==
    /\ At(r, "seen")
    /\ Installs(r)
    /\ catalogRow.version.source = source[r]
    /\ installed' = [installed EXCEPT ![r] = catalogRow.version]
    /\ failed' = [failed EXCEPT ![r] = 0]
    /\ Decide(r, catalogRow.version, catalogRow.version, "usable")
    /\ UNCHANGED <<catalogRow, clock, source, due, late>>

(* The database fails, the row has another source by now, or the provider  *)
(* does not take the list.                                                 *)
InstallFails(r) ==
    /\ At(r, "seen")
    /\ Installs(r)
    /\ Decide(r, Current(r), task[r].seen, "unusable")
    /\ UNCHANGED <<catalogRow, clock, source, due, installed, failed, late>>

(* No newer list is stored. *)
Skip(r) ==
    /\ At(r, "seen")
    /\ ~Installs(r)
    /\ Decide(r, Current(r), task[r].seen, "usable")
    /\ UNCHANGED <<catalogRow, clock, source, due, installed, failed, late>>

(* Variant: the claim does not compare the version that was seen. *)
ClaimableUnseen(r) == catalogRow.until <= task[r].now

(* The condition of SqliteModelListStore::claim. *)
Claimable(r) == catalogRow.until <= task[r].now /\ catalogRow.version = task[r].seen

(* claimed_until *)
ClaimUntil(r) == task[r].now + ClaimTtl

(* SqliteModelListStore::claim *)
Claim(r) ==
    /\ At(r, "claim")
    /\ Claimable(r)
    /\ catalogRow' = Row(catalogRow.version, ClaimUntil(r))
    /\ Enter(r, Task("fetch", task[r].by, task[r].now, task[r].seen,
                     ClaimUntil(r), task[r].list))
    /\ UNCHANGED <<clock, source, due, installed, failed, late>>

(* The claim is refused, or the database fails. *)
ClaimFails(r) ==
    /\ At(r, "claim")
    /\ Enter(r, Idle)
    /\ UNCHANGED <<catalogRow, clock, source, due, installed, failed, late>>

(* fetch_model_list and install_model_list *)
Fetch(r) ==
    /\ At(r, "fetch")
    /\ GoOn(r, "save")
    /\ UNCHANGED <<catalogRow, clock, source, due, installed, failed, late>>

(* The claim stays, and is remembered for the next reload. *)
FetchFails(r) ==
    /\ At(r, "fetch")
    /\ failed' = [failed EXCEPT ![r] = task[r].until]
    /\ Enter(r, Idle)
    /\ UNCHANGED <<catalogRow, clock, source, due, installed, late>>

(* Variant: the last save wins. *)
SavedAlways(v) == Row(v, 0)

(* Variant: the list is stamped with the end of the claim. *)
SavedAhead(v) ==
    IF v.at > catalogRow.version.at THEN Row(Version(v.source, v.at + ClaimTtl), 0)
    ELSE catalogRow

(* SqliteModelListStore::save *)
Saved(v) == IF v.at > catalogRow.version.at THEN Row(v, 0) ELSE catalogRow

(* The fetched list is in use whether or not it could be stored. *)
Save(r) ==
    /\ At(r, "save")
    /\ installed' = [installed EXCEPT ![r] = Version(source[r], task[r].now)]
    /\ \/ /\ catalogRow' = Saved(Version(source[r], task[r].now))
          /\ failed' = [failed EXCEPT ![r] = 0]
          /\ late' = (late \/ task[r].until <= clock)
       \/ /\ failed' = [failed EXCEPT ![r] = task[r].until]
          /\ UNCHANGED <<catalogRow, late>>
    /\ Enter(r, Idle)
    /\ UNCHANGED <<clock, source, due>>

-----------------------------------------------------------------------------
(* The process ends, or is killed. *)
Crash(r) ==
    /\ ~At(r, "down")
    /\ Enter(r, Down)
    /\ installed' = [installed EXCEPT ![r] = NoVersion]
    /\ failed' = [failed EXCEPT ![r] = 0]
    /\ due' = [due EXCEPT ![r] = 0]
    /\ UNCHANGED <<catalogRow, clock, source, late>>

Tick ==
    /\ clock < MaxClock
    /\ clock' = clock + 1
    /\ UNCHANGED <<catalogRow, task, source, due, installed, failed, late>>

Step(r) ==
    \/ Load(r) \/ Reset(r) \/ Poll(r) \/ Sync(r) \/ SyncFails(r)
    \/ Install(r) \/ InstallFails(r) \/ Skip(r)
    \/ Claim(r) \/ ClaimFails(r) \/ Fetch(r) \/ FetchFails(r) \/ Save(r)
    \/ Crash(r)

Next == Tick \/ \E r \in Runtimes : Step(r)

Spec == Init /\ [][Next]_vars

-----------------------------------------------------------------------------
Fetching(r) == At(r, "fetch") \/ At(r, "save")

(* The process fetches under a claim that has not run out. *)
FetchingInTime(r) == Fetching(r) /\ task[r].until > clock

(* Two processes never fetch the list at the same time under claims that   *)
(* have not run out, whatever failed, was released or crashed; only a list *)
(* saved too late, which drops the next claim, may let a third one in.     *)
OneFetcher ==
    late \/ \A r, s \in Runtimes : FetchingInTime(r) /\ FetchingInTime(s) => r = s

(* Nobody asks the provider for a list that is already stored and fresh,   *)
(* not even with the time and the version of a poll that had to wait.      *)
FetchNeeded ==
    [][\A r \in Runtimes :
          At(r, "claim") /\ At(r, "fetch")' =>
              ~Fresh(r, catalogRow.version) \/ task[r].list = "unusable"]_vars

(* The models a process offers never go back to an older list of the same  *)
(* source, although another process may store its list later.              *)
InstalledMovesOn ==
    [][\A r \in Runtimes :
          installed[r].source = installed'[r].source =>
              installed'[r].at >= installed[r].at]_vars

(* A list that arrives late, fetched under a claim that ran out, does not  *)
(* replace a newer one.                                                    *)
StoredMovesOn == [][catalogRow'.version.at >= catalogRow.version.at]_vars

=============================================================================
