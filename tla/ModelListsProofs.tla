-------------------------- MODULE ModelListsProofs --------------------------
(***************************************************************************)
(* The claims and the versions of ModelLists, for any number of processes  *)
(* and sources and any lengths of time.                                    *)
(***************************************************************************)
EXTENDS ModelLists, TLAPS

-----------------------------------------------------------------------------
(* What the constructors of records build. *)

LEMMA VersionFacts ==
    ASSUME NEW s \in Sources \cup {NoSource}, NEW t \in Nat
    PROVE  /\ Version(s, t) \in Versions
           /\ Version(s, t).source = s
           /\ Version(s, t).at = t
BY DEF Version, Versions

LEMMA NoVersionFacts ==
    NoVersion \in Versions /\ NoVersion.source = NoSource /\ NoVersion.at = 0
BY VersionFacts DEF NoVersion

LEMMA RowFacts ==
    ASSUME NEW v \in Versions, NEW u \in Nat
    PROVE  Row(v, u) \in Rows /\ Row(v, u).version = v /\ Row(v, u).until = u
BY DEF Row, Rows

LEMMA TaskFacts ==
    ASSUME NEW stage \in Stages, NEW by \in Askers, NEW now \in Nat,
           NEW seen \in Versions, NEW until \in Nat, NEW list \in Lists
    PROVE  LET t == Task(stage, by, now, seen, until, list)
           IN  /\ t \in Tasks
               /\ t.stage = stage /\ t.by = by /\ t.now = now /\ t.seen = seen
               /\ t.until = until /\ t.list = list
BY DEF Task, Tasks

LEMMA RestFacts ==
    /\ Idle \in Tasks /\ Idle.stage = "idle" /\ Idle.now = 0 /\ Idle.seen = NoVersion
    /\ Down \in Tasks /\ Down.stage = "down" /\ Down.now = 0 /\ Down.seen = NoVersion
BY NoVersionFacts DEF Idle, Down, Task, Tasks, Stages, Askers, Lists

LEMMA FieldTypes ==
    ASSUME TypeOK
    PROVE  /\ catalogRow.version \in Versions /\ catalogRow.until \in Nat
           /\ catalogRow.version.source \in Sources \cup {NoSource} /\ catalogRow.version.at \in Nat
           /\ \A r \in Runtimes :
                 /\ task[r] \in Tasks
                 /\ task[r].stage \in Stages /\ task[r].now \in Nat
                 /\ task[r].seen \in Versions /\ task[r].until \in Nat
                 /\ task[r].by \in Askers /\ task[r].list \in Lists
                 /\ task[r].seen.source \in Sources \cup {NoSource}
                 /\ task[r].seen.at \in Nat
                 /\ installed[r] \in Versions
                 /\ installed[r].source \in Sources \cup {NoSource}
                 /\ installed[r].at \in Nat
                 /\ source[r] \in Sources /\ due[r] \in Nat /\ failed[r] \in Nat
<1>1. catalogRow.version \in Versions /\ catalogRow.until \in Nat
  BY DEF TypeOK, Rows
<1>2. catalogRow.version.source \in Sources \cup {NoSource} /\ catalogRow.version.at \in Nat
  BY <1>1 DEF Versions
<1>3. ASSUME NEW r \in Runtimes
      PROVE  /\ task[r] \in Tasks
             /\ task[r].stage \in Stages /\ task[r].now \in Nat
             /\ task[r].seen \in Versions /\ task[r].until \in Nat
             /\ task[r].by \in Askers /\ task[r].list \in Lists
  BY DEF TypeOK, Tasks
<1>4. ASSUME NEW r \in Runtimes
      PROVE  /\ installed[r] \in Versions
             /\ source[r] \in Sources /\ due[r] \in Nat /\ failed[r] \in Nat
  BY DEF TypeOK
<1>5. ASSUME NEW r \in Runtimes
      PROVE  /\ task[r].seen.source \in Sources \cup {NoSource}
             /\ task[r].seen.at \in Nat
             /\ installed[r].source \in Sources \cup {NoSource}
             /\ installed[r].at \in Nat
  BY <1>3, <1>4 DEF Versions
<1>6. QED BY <1>1, <1>2, <1>3, <1>4, <1>5

-----------------------------------------------------------------------------
(* A step of one process replaces its own task, and leaves the others'.    *)

LEMMA EnterFacts ==
    ASSUME TypeOK, NEW r \in Runtimes, NEW t \in Tasks, Enter(r, t)
    PROVE  /\ task' \in [Runtimes -> Tasks]
           /\ task'[r] = t
           /\ \A s \in Runtimes \ {r} : task'[s] = task[s]
BY DEF TypeOK, Enter

LEMMA GoOnFacts ==
    ASSUME TypeOK, NEW r \in Runtimes, NEW stage \in Stages, GoOn(r, stage)
    PROVE  /\ task' \in [Runtimes -> Tasks]
           /\ task'[r].stage = stage
           /\ task'[r].now = task[r].now /\ task'[r].seen = task[r].seen
           /\ task'[r].until = task[r].until /\ task'[r].list = task[r].list
           /\ \A s \in Runtimes \ {r} : task'[s] = task[s]
<1> DEFINE t == Task(stage, task[r].by, task[r].now, task[r].seen, task[r].until, task[r].list)
<1>1. /\ t \in Tasks /\ t.stage = stage /\ t.now = task[r].now /\ t.seen = task[r].seen
      /\ t.until = task[r].until /\ t.list = task[r].list
  BY FieldTypes, TaskFacts
<1>2. Enter(r, t)
  BY DEF GoOn
<1> HIDE DEF t
<1>3. QED BY <1>1, <1>2, EnterFacts

LEMMA DecideFacts ==
    ASSUME TypeOK, NEW r \in Runtimes, NEW v \in Versions, NEW seen \in Versions,
           NEW list \in Lists, Decide(r, v, seen, list)
    PROVE  /\ task' \in [Runtimes -> Tasks]
           /\ \A s \in Runtimes \ {r} : task'[s] = task[s]
           /\ \/ task'[r] = Idle
              \/ /\ ~Fresh(r, v)
                 /\ task'[r].stage = "claim" /\ task'[r].now = task[r].now
                 /\ task'[r].seen = seen /\ task'[r].list = list
<1> DEFINE t == Task("claim", task[r].by, task[r].now, seen, 0, list)
<1>1. /\ t \in Tasks /\ t.stage = "claim" /\ t.now = task[r].now /\ t.seen = seen
      /\ t.list = list
  <2>1. "claim" \in Stages /\ task[r].by \in Askers /\ task[r].now \in Nat
    BY FieldTypes DEF Stages, Lists
  <2>2. QED BY <2>1 DEF Task, Tasks
<1>2. Enter(r, Idle) \/ (~Fresh(r, v) /\ Enter(r, t))
  BY DEF Decide
<1> HIDE DEF t
<1>3. QED BY <1>1, <1>2, EnterFacts, RestFacts

LEMMA CurrentFacts ==
    ASSUME TypeOK, NEW r \in Runtimes
    PROVE  /\ Current(r) \in Versions /\ Current(r).at \in Nat
           /\ Current(r) = installed[r] \/ Current(r) = NoVersion
BY FieldTypes, NoVersionFacts DEF Current

(* What the statements on the row leave in it. *)
LEMMA ReleasedFacts ==
    ASSUME TypeOK, NEW u
    PROVE  /\ Released(u) \in Rows
           /\ Released(u).version = catalogRow.version
           /\ Released(u).until = IF catalogRow.until = u THEN 0 ELSE catalogRow.until
BY FieldTypes, RowFacts DEF Released, TypeOK

LEMMA SavedFacts ==
    ASSUME TypeOK, NEW v \in Versions
    PROVE  /\ Saved(v) \in Rows
           /\ Saved(v) = catalogRow \/ (v.at > catalogRow.version.at /\ Saved(v).version = v)
           /\ Saved(v).version.at >= catalogRow.version.at
<1>1. v.at \in Nat
  BY DEF Versions
<1>2. QED BY <1>1, FieldTypes, RowFacts DEF Saved, TypeOK

-----------------------------------------------------------------------------
(* Every action keeps the types: one step per action that writes more than *)
(* its task.                                                               *)

(* The part of TypeOK that a step of `r' can disturb. *)
LEMMA TypeFromParts ==
    ASSUME TypeOK, NEW r \in Runtimes, clock' = clock,
           catalogRow' \in Rows, catalogRow'.version.at <= clock,
           task' \in [Runtimes -> Tasks],
           \A s \in Runtimes \ {r} : task'[s] = task[s],
           task'[r].now <= clock,
           source' \in [Runtimes -> Sources],
           due' \in [Runtimes -> Nat], \A s \in Runtimes : due'[s] <= clock,
           installed' \in [Runtimes -> Versions],
           failed' \in [Runtimes -> Nat], late' \in BOOLEAN
    PROVE  TypeOK'
<1>1. \A s \in Runtimes : task'[s].now <= clock
  BY DEF TypeOK
<1>2. QED BY <1>1 DEF TypeOK

LEMMA TypeInit == Init => TypeOK
<1> SUFFICES ASSUME Init PROVE TypeOK
  OBVIOUS
<1>1. catalogRow \in Rows /\ catalogRow.version.at = 0
  BY NoVersionFacts, RowFacts DEF Init
<1>2. task \in [Runtimes -> Tasks] /\ \A r \in Runtimes : task[r].now = 0
  BY RestFacts DEF Init
<1>3. installed \in [Runtimes -> Versions]
  BY NoVersionFacts DEF Init
<1>4. late \in BOOLEAN
  BY DEF Init
<1>5. due \in [Runtimes -> Nat] /\ failed \in [Runtimes -> Nat] /\ clock = 1
  BY DEF Init
<1>6. source \in [Runtimes -> Sources]
  BY DEF Init
<1>7. \A r \in Runtimes : due[r] = 0
  BY DEF Init
<1>8. QED BY <1>1, <1>2, <1>3, <1>4, <1>5, <1>6, <1>7 DEF TypeOK

LEMMA TypeStep == TypeOK /\ [Next]_vars => TypeOK'
<1> SUFFICES ASSUME TypeOK, [Next]_vars PROVE TypeOK'
  OBVIOUS
<1> USE ModelListsAssumption
<1>t. /\ catalogRow \in Rows /\ catalogRow.version.at <= clock /\ clock \in Nat
      /\ task \in [Runtimes -> Tasks] /\ \A r \in Runtimes : task[r].now <= clock
      /\ source \in [Runtimes -> Sources]
      /\ due \in [Runtimes -> Nat] /\ \A r \in Runtimes : due[r] <= clock
      /\ installed \in [Runtimes -> Versions]
      /\ failed \in [Runtimes -> Nat] /\ late \in BOOLEAN
  BY DEF TypeOK
<1>1. CASE UNCHANGED vars
  BY <1>1 DEF TypeOK, vars
<1>2. CASE Tick
  <2>1. clock' \in Nat /\ clock' >= clock
    BY <1>2, <1>t DEF Tick
  <2>2. catalogRow.version.at \in Nat /\ \A r \in Runtimes : task[r].now \in Nat /\ due[r] \in Nat
    BY FieldTypes
  <2>3. QED BY <1>2, <1>t, <2>1, <2>2 DEF Tick, TypeOK
<1>3. ASSUME NEW r \in Runtimes, Step(r) PROVE TypeOK'
  <2>a. task[r].now \in Nat /\ task[r].now <= clock /\ due[r] \in Nat /\ due[r] <= clock
    BY FieldTypes, <1>t
  <2>1. CASE Load(r)
    <3>1. /\ task' \in [Runtimes -> Tasks] /\ \A s \in Runtimes \ {r} : task'[s] = task[s]
          /\ task'[r].now = task[r].now
      BY <2>1, GoOnFacts DEF Load, Stages
    <3>2. source' \in [Runtimes -> Sources] /\ installed' \in [Runtimes -> Versions]
      BY <2>1, <1>t, NoVersionFacts DEF Load
    <3>3. UNCHANGED <<catalogRow, clock, due, failed, late>>
      BY <2>1 DEF Load
    <3>4. QED BY <3>1, <3>2, <3>3, <1>t, <2>a, TypeFromParts
  <2>2. CASE Reset(r)
    <3>1. /\ task' \in [Runtimes -> Tasks] /\ \A s \in Runtimes \ {r} : task'[s] = task[s]
          /\ task'[r].now = clock
      <4> DEFINE t == Task("loaded", "reload", clock, NoVersion, 0, "usable")
      <4>1. "reload" \in Askers /\ "usable" \in Lists /\ "loaded" \in Stages /\ clock \in Nat /\ NoVersion \in Versions
        BY <1>t, NoVersionFacts DEF Stages, Askers, Lists
      <4>2. t \in Tasks /\ t.now = clock
        BY <4>1, TaskFacts
      <4>3. Enter(r, t)
        BY <2>2 DEF Reset
      <4> HIDE DEF t
      <4>4. QED BY <4>2, <4>3, EnterFacts
    <3>2. catalogRow' \in Rows /\ catalogRow'.version = catalogRow.version
      BY <2>2, <1>t, ReleasedFacts DEF Reset
    <3>3. failed' \in [Runtimes -> Nat]
      BY <2>2, <1>t DEF Reset
    <3>4. UNCHANGED <<clock, source, due, installed, late>>
      BY <2>2 DEF Reset
    <3>5. QED BY <3>1, <3>2, <3>3, <3>4, <1>t, TypeFromParts
  <2>3. CASE Poll(r)
    <3>1. due' \in [Runtimes -> Nat] /\ \A s \in Runtimes : due'[s] <= clock
      BY <2>3, <1>t DEF Poll
    <3>2. UNCHANGED <<catalogRow, clock, task, source, installed, failed, late>>
      BY <2>3 DEF Poll
    <3>3. QED BY <3>1, <3>2, <1>t, TypeFromParts
  <2>4. CASE Sync(r)
    <3>1. /\ due' \in [Runtimes -> Nat] /\ \A s \in Runtimes : due'[s] <= clock
          /\ UNCHANGED <<catalogRow, clock, source, installed, failed, late>>
      BY <2>4, <1>t DEF Sync
    <3>2. PICK by \in Askers, n \in Nat : /\ n <= clock
                           /\ Enter(r, Task("seen", by, n, catalogRow.version, 0, "usable"))
      BY <2>4, <2>a, FieldTypes DEF Sync, Askers
    <3> DEFINE t == Task("seen", by, n, catalogRow.version, 0, "usable")
    <3>3. "usable" \in Lists /\ "seen" \in Stages /\ catalogRow.version \in Versions
      BY FieldTypes DEF Stages, Lists
    <3>4. t \in Tasks /\ t.now = n
      BY <3>3, TaskFacts
    <3>5. Enter(r, t)
      BY <3>2
    <3> HIDE DEF t
    <3>6. /\ task' \in [Runtimes -> Tasks] /\ \A s \in Runtimes \ {r} : task'[s] = task[s]
          /\ task'[r].now <= clock
      BY <3>2, <3>4, <3>5, EnterFacts
    <3>7. QED BY <3>1, <3>6, <1>t, TypeFromParts
  <2>5. CASE SyncFails(r)
    <3>1. /\ due' \in [Runtimes -> Nat] /\ \A s \in Runtimes : due'[s] <= clock
          /\ UNCHANGED <<catalogRow, clock, source, installed, failed, late>>
      BY <2>5, <1>t DEF SyncFails
    <3>2. /\ task' \in [Runtimes -> Tasks] /\ \A s \in Runtimes \ {r} : task'[s] = task[s]
          /\ task'[r].now <= clock
      BY <2>5, <1>t, EnterFacts, RestFacts DEF SyncFails
    <3>3. QED BY <3>1, <3>2, <1>t, TypeFromParts
  <2>6. CASE Install(r)
    <3>1. /\ task' \in [Runtimes -> Tasks] /\ \A s \in Runtimes \ {r} : task'[s] = task[s]
          /\ task'[r].now <= clock
      BY <2>6, <1>t, <2>a, DecideFacts, FieldTypes, RestFacts DEF Install, Lists
    <3>2. installed' \in [Runtimes -> Versions] /\ failed' \in [Runtimes -> Nat]
      BY <2>6, <1>t, FieldTypes DEF Install
    <3>3. UNCHANGED <<catalogRow, clock, source, due, late>>
      BY <2>6 DEF Install
    <3>4. QED BY <3>1, <3>2, <3>3, <1>t, TypeFromParts
  <2>7. CASE InstallFails(r) \/ Skip(r)
    <3>1. /\ task' \in [Runtimes -> Tasks] /\ \A s \in Runtimes \ {r} : task'[s] = task[s]
          /\ task'[r].now <= clock
      BY <2>7, <1>t, <2>a, DecideFacts, CurrentFacts, FieldTypes, RestFacts
         DEF InstallFails, Skip, Lists
    <3>2. UNCHANGED <<catalogRow, clock, source, due, installed, failed, late>>
      BY <2>7 DEF InstallFails, Skip
    <3>3. QED BY <3>1, <3>2, <1>t, TypeFromParts
  <2>8. CASE Claim(r)
    <3> DEFINE t == Task("fetch", task[r].by, task[r].now, task[r].seen, ClaimUntil(r), task[r].list)
    <3>1. "fetch" \in Stages /\ ClaimUntil(r) \in Nat
      BY <2>a DEF Stages, ClaimUntil
    <3>2. t \in Tasks /\ t.now = task[r].now
      BY <3>1, FieldTypes, TaskFacts
    <3>3. Enter(r, t)
      BY <2>8 DEF Claim
    <3> HIDE DEF t
    <3>4. /\ task' \in [Runtimes -> Tasks] /\ \A s \in Runtimes \ {r} : task'[s] = task[s]
          /\ task'[r].now <= clock
      BY <2>a, <3>2, <3>3, EnterFacts
    <3>5. catalogRow' \in Rows /\ catalogRow'.version = catalogRow.version
      BY <2>8, <3>1, FieldTypes, RowFacts DEF Claim
    <3>6. UNCHANGED <<clock, source, due, installed, failed, late>>
      BY <2>8 DEF Claim
    <3>7. QED BY <3>4, <3>5, <3>6, <1>t, TypeFromParts
  <2>9. CASE ClaimFails(r)
    <3>1. /\ task' \in [Runtimes -> Tasks] /\ \A s \in Runtimes \ {r} : task'[s] = task[s]
          /\ task'[r].now <= clock
      BY <2>9, <1>t, EnterFacts, RestFacts DEF ClaimFails
    <3>2. UNCHANGED <<catalogRow, clock, source, due, installed, failed, late>>
      BY <2>9 DEF ClaimFails
    <3>3. QED BY <3>1, <3>2, <1>t, TypeFromParts
  <2>10. CASE Fetch(r)
    <3>1. /\ task' \in [Runtimes -> Tasks] /\ \A s \in Runtimes \ {r} : task'[s] = task[s]
          /\ task'[r].now = task[r].now
      BY <2>10, GoOnFacts DEF Fetch, Stages
    <3>2. UNCHANGED <<catalogRow, clock, source, due, installed, failed, late>>
      BY <2>10 DEF Fetch
    <3>3. QED BY <3>1, <3>2, <1>t, <2>a, TypeFromParts
  <2>11. CASE FetchFails(r)
    <3>1. /\ task' \in [Runtimes -> Tasks] /\ \A s \in Runtimes \ {r} : task'[s] = task[s]
          /\ task'[r].now <= clock
      BY <2>11, <1>t, EnterFacts, RestFacts DEF FetchFails
    <3>2. failed' \in [Runtimes -> Nat]
      BY <2>11, <1>t, FieldTypes DEF FetchFails
    <3>3. UNCHANGED <<catalogRow, clock, source, due, installed, late>>
      BY <2>11 DEF FetchFails
    <3>4. QED BY <3>1, <3>2, <3>3, <1>t, TypeFromParts
  <2>12. CASE Save(r)
    <3> DEFINE v == Version(source[r], task[r].now)
    <3>1. v \in Versions /\ v.at = task[r].now
      BY FieldTypes, VersionFacts
    <3>2. catalogRow' = catalogRow \/ catalogRow' = Saved(v)
      BY <2>12 DEF Save
    <3>3. installed' = [installed EXCEPT ![r] = v]
      BY <2>12 DEF Save
    <3> HIDE DEF v
    <3>4. catalogRow' \in Rows /\ catalogRow'.version.at <= clock
      BY <3>1, <3>2, <1>t, <2>a, SavedFacts
    <3>5. installed' \in [Runtimes -> Versions]
      BY <3>1, <3>3, <1>t
    <3>6. failed' \in [Runtimes -> Nat]
      BY <2>12, <1>t, FieldTypes DEF Save
    <3>10. late' \in BOOLEAN
      BY <2>12, <1>t, Zenon DEF Save
    <3>7. /\ task' \in [Runtimes -> Tasks] /\ \A s \in Runtimes \ {r} : task'[s] = task[s]
          /\ task'[r].now <= clock
      BY <2>12, <1>t, EnterFacts, RestFacts DEF Save
    <3>8. UNCHANGED <<clock, source, due>>
      BY <2>12 DEF Save
    <3>9. QED BY <3>4, <3>5, <3>6, <3>7, <3>8, <3>10, <1>t, TypeFromParts
  <2>13. CASE Crash(r)
    <3>1. /\ task' \in [Runtimes -> Tasks] /\ \A s \in Runtimes \ {r} : task'[s] = task[s]
          /\ task'[r].now <= clock
      BY <2>13, <1>t, EnterFacts, RestFacts DEF Crash
    <3>2. /\ installed' \in [Runtimes -> Versions] /\ failed' \in [Runtimes -> Nat]
          /\ due' \in [Runtimes -> Nat] /\ \A s \in Runtimes : due'[s] <= clock
      BY <2>13, <1>t, NoVersionFacts DEF Crash
    <3>3. UNCHANGED <<catalogRow, clock, source, late>>
      BY <2>13 DEF Crash
    <3>4. QED BY <3>1, <3>2, <3>3, <1>t, TypeFromParts
  <2>14. QED
    BY <1>3, <2>1, <2>2, <2>3, <2>4, <2>5, <2>6, <2>7, <2>8, <2>9, <2>10, <2>11,
       <2>12, <2>13 DEF Step
<1>4. QED BY <1>1, <1>2, <1>3 DEF Next

(* Every reachable state is well typed, and no time that a process or the  *)
(* row remembers lies in the future: a request keeps the time at which it  *)
(* was asked for, however long it waits.                                   *)
THEOREM TypeCorrect == Spec => []TypeOK
<1>1. QED BY TypeInit, TypeStep, PTL DEF Spec

-----------------------------------------------------------------------------
(* What a process does leaves the memory of the others alone. *)

LEMMA Frame ==
    ASSUME TypeOK, NEW r \in Runtimes, Step(r)
    PROVE  /\ clock' = clock
           /\ \A s \in Runtimes \ {r} :
                 /\ task'[s] = task[s] /\ failed'[s] = failed[s]
                 /\ installed'[s] = installed[s] /\ source'[s] = source[s]
<1>1. clock' = clock
  BY DEF Step, Load, Reset, Poll, Sync, SyncFails, Install, InstallFails, Skip, Claim,
         ClaimFails, Fetch, FetchFails, Save, Crash
<1>2. \A s \in Runtimes \ {r} : task'[s] = task[s]
  <2>1. \A t : Enter(r, t) => \A s \in Runtimes \ {r} : task'[s] = task[s]
    BY DEF Enter, TypeOK
  <2>2. (\E t : Enter(r, t)) \/ task' = task
    BY DEF Step, Load, Reset, Poll, Sync, SyncFails, Install, InstallFails, Skip, Claim,
           ClaimFails, Fetch, FetchFails, Save, Crash, GoOn, Decide
  <2>3. QED BY <2>1, <2>2
<1>3. \A s \in Runtimes \ {r} : failed'[s] = failed[s]
  <2>1. failed' = failed \/ \E u : failed' = [failed EXCEPT ![r] = u]
    BY DEF Step, Load, Reset, Poll, Sync, SyncFails, Install, InstallFails, Skip, Claim,
           ClaimFails, Fetch, FetchFails, Save, Crash
  <2>2. QED BY <2>1 DEF TypeOK
<1>4. \A s \in Runtimes \ {r} : installed'[s] = installed[s]
  <2>1. installed' = installed \/ \E v : installed' = [installed EXCEPT ![r] = v]
    BY DEF Step, Load, Reset, Poll, Sync, SyncFails, Install, InstallFails, Skip, Claim,
           ClaimFails, Fetch, FetchFails, Save, Crash
  <2>2. QED BY <2>1 DEF TypeOK
<1>5. \A s \in Runtimes \ {r} : source'[s] = source[s]
  <2>1. source' = source \/ \E v : source' = [source EXCEPT ![r] = v]
    BY DEF Step, Load, Reset, Poll, Sync, SyncFails, Install, InstallFails, Skip, Claim,
           ClaimFails, Fetch, FetchFails, Save, Crash
  <2>2. QED BY <2>1 DEF TypeOK
<1>6. QED BY <1>1, <1>2, <1>3, <1>4, <1>5

-----------------------------------------------------------------------------
(* Claims.  A process remembers a claim while it fetches under it, and in  *)
(* failed_claims after the fetch failed; it may only be released or        *)
(* dropped by a save while it is still the one in the row.                 *)

(* The claim that a process fetches under; 0 is none. *)
Held(r) == IF Fetching(r) THEN task[r].until ELSE 0

(* The process remembers a claim that has not run out. *)
Live(r) == Held(r) > clock \/ failed[r] > clock

(* A claim that has not run out is in the row, and only one process        *)
(* remembers one.                                                          *)
ClaimInv ==
    late \/ /\ \A r \in Runtimes : Held(r) > clock => catalogRow.until = Held(r)
            /\ \A r \in Runtimes : failed[r] > clock => catalogRow.until = failed[r]
            /\ \A r, s \in Runtimes : Live(r) /\ Live(s) => r = s

(* What the step of a process may do to its claims. *)
Keeps(r) ==
    /\ catalogRow'.until = catalogRow.until /\ late' = late
    /\ Held(r)' = 0 \/ Held(r)' = Held(r)
    /\ failed'[r] = 0 \/ failed'[r] = failed[r]

Releases(r) ==
    /\ late' = late
    /\ Held(r)' = 0 /\ failed'[r] = 0
    /\ catalogRow'.until = IF catalogRow.until = failed[r] THEN 0 ELSE catalogRow.until

Claims(r) ==
    /\ late' = late
    /\ catalogRow.until <= clock
    /\ Held(r)' = catalogRow'.until /\ failed'[r] = failed[r]

Fails(r) ==
    /\ catalogRow'.until = catalogRow.until /\ late' = late
    /\ Held(r)' = 0 /\ failed'[r] = Held(r)

Saves(r) ==
    /\ ~late' => ~late /\ Held(r) > clock
    /\ Held(r)' = 0 /\ failed'[r] = 0

LEMMA HeldType ==
    ASSUME TypeOK
    PROVE  \A r \in Runtimes : Held(r) \in Nat
BY FieldTypes DEF Held

LEMMA HeldNext ==
    ASSUME NEW r \in Runtimes
    PROVE  /\ task'[r].stage \notin {"fetch", "save"} => Held(r)' = 0
           /\ task'[r].stage \in {"fetch", "save"} => Held(r)' = task'[r].until
BY DEF Held, Fetching, At

LEMMA HeldNow ==
    ASSUME NEW r \in Runtimes
    PROVE  /\ task[r].stage \notin {"fetch", "save"} => Held(r) = 0
           /\ task[r].stage \in {"fetch", "save"} => Held(r) = task[r].until
BY DEF Held, Fetching, At

LEMMA ClaimSteps ==
    ASSUME TypeOK, NEW r \in Runtimes, Step(r)
    PROVE  Keeps(r) \/ Releases(r) \/ Claims(r) \/ Fails(r) \/ Saves(r)
<1> USE ModelListsAssumption
<1>t. /\ failed \in [Runtimes -> Nat] /\ clock \in Nat /\ task[r].now <= clock
      /\ task[r].now \in Nat
  BY FieldTypes DEF TypeOK
<1>1. CASE Load(r)
  <2>1. task'[r].stage = "reset"
    BY <1>1, GoOnFacts DEF Load, Stages
  <2>2. QED BY <1>1, <2>1, HeldNext DEF Load, Keeps
<1>2. CASE Reset(r)
  <2>1. task'[r].stage = "loaded"
    <3>1. "reload" \in Askers /\ "usable" \in Lists /\ "loaded" \in Stages /\ clock \in Nat /\ NoVersion \in Versions
      BY <1>t, NoVersionFacts DEF Stages, Askers, Lists
    <3>2. QED BY <3>1, <1>2, TaskFacts, EnterFacts DEF Reset
  <2>2. Held(r)' = 0 /\ failed'[r] = 0 /\ late' = late
    BY <1>2, <1>t, <2>1, HeldNext DEF Reset
  <2>3. CASE catalogRow' = catalogRow
    BY <2>2, <2>3 DEF Keeps
  <2>4. CASE catalogRow' = Released(failed[r])
    BY <2>2, <2>4, ReleasedFacts DEF Releases
  <2>5. QED BY <1>2, <2>3, <2>4 DEF Reset
<1>3. CASE Poll(r)
  <2>1. Held(r)' = Held(r)
    BY <1>3 DEF Poll, Held, Fetching, At
  <2>2. QED BY <1>3, <2>1 DEF Poll, Keeps
<1>4. CASE Sync(r)
  <2>1. PICK by \in Askers, n \in Nat : Enter(r, Task("seen", by, n, catalogRow.version, 0, "usable"))
    BY <1>4, FieldTypes DEF Sync, Askers
  <2>2. task'[r].stage = "seen"
    <3>1. "usable" \in Lists /\ "seen" \in Stages /\ catalogRow.version \in Versions
      BY FieldTypes DEF Stages, Lists
    <3>2. QED BY <2>1, <3>1, TaskFacts, EnterFacts
  <2>3. QED BY <1>4, <2>2, HeldNext DEF Sync, Keeps
<1>5. CASE SyncFails(r) \/ ClaimFails(r)
  <2>1. task'[r].stage = "idle"
    BY <1>5, EnterFacts, RestFacts DEF SyncFails, ClaimFails
  <2>2. QED BY <1>5, <2>1, HeldNext DEF SyncFails, ClaimFails, Keeps
<1>6. CASE Install(r)
  <2>1. task'[r].stage \in {"idle", "claim"}
    BY <1>6, DecideFacts, FieldTypes, RestFacts DEF Install, Lists
  <2>2. QED BY <1>6, <1>t, <2>1, HeldNext DEF Install, Keeps
<1>7. CASE InstallFails(r) \/ Skip(r)
  <2>1. task'[r].stage \in {"idle", "claim"}
    BY <1>7, DecideFacts, CurrentFacts, FieldTypes, RestFacts DEF InstallFails, Skip, Lists
  <2>2. QED BY <1>7, <2>1, HeldNext DEF InstallFails, Skip, Keeps
<1>8. CASE Claim(r)
  <2> DEFINE t == Task("fetch", task[r].by, task[r].now, task[r].seen, ClaimUntil(r), task[r].list)
  <2>1. "fetch" \in Stages /\ ClaimUntil(r) \in Nat
    BY <1>t DEF Stages, ClaimUntil
  <2>2. t \in Tasks /\ t.stage = "fetch" /\ t.until = ClaimUntil(r)
    BY <2>1, FieldTypes, TaskFacts
  <2>3. Enter(r, t)
    BY <1>8 DEF Claim
  <2> HIDE DEF t
  <2>4. task'[r].stage = "fetch" /\ task'[r].until = ClaimUntil(r)
    BY <2>2, <2>3, EnterFacts
  <2>5. catalogRow'.until = ClaimUntil(r)
    BY <1>8, <2>1, FieldTypes, RowFacts DEF Claim
  <2>6. catalogRow.until <= clock
    BY <1>8, <1>t, FieldTypes DEF Claim, Claimable
  <2>7. QED BY <1>8, <2>4, <2>5, <2>6, HeldNext DEF Claim, Claims
<1>9. CASE Fetch(r)
  <2>1. task'[r].stage = "save" /\ task'[r].until = task[r].until
    BY <1>9, GoOnFacts DEF Fetch, Stages
  <2>2. QED BY <1>9, <2>1, HeldNext, HeldNow DEF Fetch, Keeps, At
<1>10. CASE FetchFails(r)
  <2>1. task'[r].stage = "idle"
    BY <1>10, EnterFacts, RestFacts DEF FetchFails
  <2>2. QED BY <1>10, <1>t, <2>1, HeldNext, HeldNow DEF FetchFails, Fails, At
<1>11. CASE Save(r)
  <2>1. Held(r)' = 0
    BY <1>11, EnterFacts, RestFacts, HeldNext DEF Save
  <2>2. Held(r) = task[r].until /\ task[r].until \in Nat
    BY <1>11, HeldNow, FieldTypes DEF Save, At
  <2>3. CASE failed' = [failed EXCEPT ![r] = task[r].until] /\ UNCHANGED <<catalogRow, late>>
    BY <2>1, <2>2, <2>3, <1>t DEF Fails
  <2>4. CASE /\ failed' = [failed EXCEPT ![r] = 0]
             /\ late' = (late \/ task[r].until <= clock)
    <3>1. ~late' => ~late /\ Held(r) > clock
      <4>1. ~late' => ~late /\ ~(task[r].until <= clock)
        BY <2>4, Zenon
      <4>2. ~(task[r].until <= clock) => Held(r) > clock
        BY <2>2, <1>t
      <4>3. QED BY <4>1, <4>2, Zenon
    <3>2. QED BY <2>1, <2>4, <3>1, <1>t DEF Saves
  <2>5. QED BY <1>11, <2>3, <2>4 DEF Save
<1>12. CASE Crash(r)
  <2>1. task'[r].stage = "down"
    BY <1>12, EnterFacts, RestFacts DEF Crash
  <2>2. QED BY <1>12, <1>t, <2>1, HeldNext DEF Crash, Keeps
<1>13. QED
  BY <1>1, <1>2, <1>3, <1>4, <1>5, <1>6, <1>7, <1>8, <1>9, <1>10, <1>11, <1>12 DEF Step

LEMMA ClaimInit == Init => ClaimInv
<1> SUFFICES ASSUME Init PROVE ClaimInv
  OBVIOUS
<1>1. \A r \in Runtimes : Held(r) = 0 /\ failed[r] = 0
  BY RestFacts, HeldNow DEF Init
<1>2. QED BY <1>1 DEF Init, ClaimInv, Live

LEMMA ClaimStep == TypeOK /\ ClaimInv /\ [Next]_vars => ClaimInv'
<1> SUFFICES ASSUME TypeOK, ClaimInv, [Next]_vars, ~late'
             PROVE  /\ \A r \in Runtimes : Held(r)' > clock' => catalogRow'.until = Held(r)'
                    /\ \A r \in Runtimes : failed'[r] > clock' => catalogRow'.until = failed'[r]
                    /\ \A r, s \in Runtimes : Live(r)' /\ Live(s)' => r = s
  BY DEF ClaimInv
<1> DEFINE Good ==
      /\ \A r \in Runtimes : Held(r) > clock => catalogRow.until = Held(r)
      /\ \A r \in Runtimes : failed[r] > clock => catalogRow.until = failed[r]
      /\ \A r, s \in Runtimes : Live(r) /\ Live(s) => r = s
<1>g. ~late => Good
  BY DEF ClaimInv
<1>n. /\ clock \in Nat /\ catalogRow.until \in Nat
      /\ \A r \in Runtimes : Held(r) \in Nat /\ failed[r] \in Nat
  BY FieldTypes, HeldType DEF TypeOK
<1>1. CASE UNCHANGED vars
  <2>1. \A r \in Runtimes : Held(r)' = Held(r)
    BY <1>1 DEF Held, Fetching, At, vars
  <2>2. QED BY <1>1, <1>g, <2>1 DEF vars, Live
<1>2. CASE Tick
  <2>1. \A r \in Runtimes : Held(r)' = Held(r)
    BY <1>2 DEF Held, Fetching, At, Tick
  <2>2. QED BY <1>2, <1>g, <1>n, <2>1 DEF Tick, Live
<1>3. ASSUME NEW r \in Runtimes, Step(r)
      PROVE  /\ \A s \in Runtimes : Held(s)' > clock' => catalogRow'.until = Held(s)'
             /\ \A s \in Runtimes : failed'[s] > clock' => catalogRow'.until = failed'[s]
             /\ \A s, t \in Runtimes : Live(s)' /\ Live(t)' => s = t
  <2>1. /\ clock' = clock
        /\ \A s \in Runtimes \ {r} : Held(s)' = Held(s) /\ failed'[s] = failed[s]
    BY <1>3, Frame DEF Held, Fetching, At
  <2>2. CASE Keeps(r)
    BY <2>1, <2>2, <1>g, <1>n DEF Keeps, Live
  <2>3. CASE Releases(r)
    BY <2>1, <2>3, <1>g, <1>n DEF Releases, Live
  <2>4. CASE Claims(r)
    BY <2>1, <2>4, <1>g, <1>n DEF Claims, Live
  <2>5. CASE Fails(r)
    BY <2>1, <2>5, <1>g, <1>n DEF Fails, Live
  <2>6. CASE Saves(r)
    BY <2>1, <2>6, <1>g, <1>n DEF Saves, Live
  <2>7. QED BY <1>3, ClaimSteps, <2>2, <2>3, <2>4, <2>5, <2>6
<1>4. QED BY <1>1, <1>2, <1>3 DEF Next

(* At most one process asks the provider under a claim that has not run    *)
(* out, as long as no list was saved after its claim had run out.          *)
THEOREM OneFetcherCorrect == Spec => []OneFetcher
<1>1. TypeOK /\ ClaimInv => OneFetcher
  BY FieldTypes DEF ClaimInv, OneFetcher, FetchingInTime, Live, Held
<1>2. Spec => [](TypeOK /\ ClaimInv)
  BY TypeInit, TypeStep, ClaimInit, ClaimStep, PTL DEF Spec
<1>3. QED BY <1>1, <1>2, PTL

-----------------------------------------------------------------------------
(* Versions.  A claim is only asked for when neither the list in use nor   *)
(* the stored list that was seen is fresh, unless that one is unusable;    *)
(* nothing that happens meanwhile can make an old list fresh, since the    *)
(* task keeps the time it was asked for.                                   *)

(* Only a row without a list has no time. *)
Valid(v) == v.source = NoSource <=> v.at = 0

ClaimStages == {"claim", "fetch", "save"}

VersionInv(r) ==
    /\ Valid(task[r].seen) /\ Valid(installed[r])
    /\ task[r].stage \in {"loaded", "seen"} \cup ClaimStages => task[r].now > 0
    /\ task[r].stage = "seen" => task[r].seen.at <= catalogRow.version.at
    /\ task[r].stage \in ClaimStages => ~Fresh(r, installed[r])
    /\ task[r].stage = "claim" => task[r].list = "unusable" \/ ~Fresh(r, task[r].seen)

FreshInv ==
    /\ clock > 0
    /\ Valid(catalogRow.version)
    /\ \A r \in Runtimes : VersionInv(r)

LEMMA NoVersionValid == Valid(NoVersion)
BY NoVersionFacts DEF Valid

(* Only a save changes the stored list, and only for a newer one. *)
LEMMA RowMovesOn ==
    ASSUME TypeOK, NEW r \in Runtimes, Step(r)
    PROVE  /\ catalogRow'.version.at >= catalogRow.version.at
           /\ \/ catalogRow'.version = catalogRow.version
              \/ At(r, "save") /\ catalogRow'.version = Version(source[r], task[r].now)
<1>t. catalogRow.version \in Versions /\ catalogRow.version.at \in Nat /\ catalogRow.until \in Nat
  BY FieldTypes
<1>1. CASE Save(r)
  <2> DEFINE v == Version(source[r], task[r].now)
  <2>1. v \in Versions
    BY FieldTypes, VersionFacts
  <2>2. At(r, "save") /\ (catalogRow' = catalogRow \/ catalogRow' = Saved(v))
    BY <1>1 DEF Save
  <2>3. catalogRow' = catalogRow \/ catalogRow'.version = v
    BY <2>1, <2>2, SavedFacts
  <2>4. catalogRow'.version.at >= catalogRow.version.at
    BY <1>t, <2>1, <2>2, SavedFacts
  <2>5. QED BY <2>2, <2>3, <2>4
<1>2. CASE Claim(r)
  <2>1. ClaimUntil(r) \in Nat
    BY FieldTypes, ModelListsAssumption DEF ClaimUntil
  <2>2. catalogRow'.version = catalogRow.version
    BY <1>2, <1>t, <2>1, RowFacts DEF Claim
  <2>3. QED BY <1>t, <2>2
<1>3. CASE Reset(r)
  <2>1. catalogRow'.version = catalogRow.version
    BY <1>3, ReleasedFacts DEF Reset
  <2>2. QED BY <1>t, <2>1
<1>4. CASE catalogRow' = catalogRow
  BY <1>t, <1>4
<1>5. QED
  BY <1>1, <1>2, <1>3, <1>4 DEF Step, Load, Poll, Sync, SyncFails, Install, InstallFails,
     Skip, ClaimFails, Fetch, FetchFails, Crash

LEMMA FreshInit == Init => FreshInv
<1> SUFFICES ASSUME Init PROVE FreshInv
  OBVIOUS
<1>1. clock > 0 /\ Valid(catalogRow.version)
  BY NoVersionFacts, NoVersionValid, RowFacts DEF Init
<1>2. \A r \in Runtimes : /\ task[r].stage = "down" /\ task[r].seen = NoVersion
                          /\ installed[r] = NoVersion
  BY RestFacts DEF Init
<1>3. \A r \in Runtimes : VersionInv(r)
  BY <1>2, NoVersionValid DEF VersionInv, ClaimStages
<1>4. QED BY <1>1, <1>3 DEF FreshInv

(* The process that takes the step. *)
LEMMA VersionStep ==
    ASSUME TypeOK, FreshInv, NEW r \in Runtimes, Step(r)
    PROVE  VersionInv(r)'
<1> USE ModelListsAssumption
<1>t. /\ clock \in Nat /\ clock > 0 /\ Valid(catalogRow.version) /\ VersionInv(r)
      /\ clock' = clock
  BY Frame DEF FreshInv, TypeOK
<1>v. Valid(task[r].seen) /\ Valid(installed[r])
  BY <1>t DEF VersionInv
<1>m. catalogRow'.version.at >= catalogRow.version.at
  BY RowMovesOn
(* A task at rest needs only valid versions. *)
<1>r. ASSUME task'[r].stage \in {"down", "idle", "reset"},
             Valid(task'[r].seen), Valid(installed'[r])
      PROVE  VersionInv(r)'
  BY <1>r DEF VersionInv, ClaimStages, Valid
<1>1. CASE Load(r)
  <2>1. task'[r].stage = "reset" /\ task'[r].seen = task[r].seen
    BY <1>1, GoOnFacts DEF Load, Stages
  <2>2. installed'[r] = NoVersion
    BY <1>1 DEF Load, TypeOK
  <2>3. QED BY <1>r, <1>v, <2>1, <2>2, NoVersionValid
<1>2. CASE Reset(r)
  <2>1. /\ task'[r].stage = "loaded" /\ task'[r].now = clock
        /\ task'[r].seen = NoVersion
    <3>1. "reload" \in Askers /\ "usable" \in Lists /\ "loaded" \in Stages /\ clock \in Nat /\ NoVersion \in Versions
      BY <1>t, NoVersionFacts DEF Stages, Askers, Lists
    <3>2. QED BY <3>1, <1>2, TaskFacts, EnterFacts DEF Reset
  <2>2. installed'[r] = installed[r]
    BY <1>2 DEF Reset
  <2>3. QED BY <1>t, <1>v, <2>1, <2>2, NoVersionValid DEF VersionInv, ClaimStages, Valid
<1>3. CASE Poll(r)
  <2>1. UNCHANGED <<catalogRow, task, installed, source>>
    BY <1>3 DEF Poll
  <2>2. QED BY <1>t, <2>1 DEF VersionInv, Valid, Fresh
<1>4. CASE Sync(r)
  <2>1. PICK by \in Askers, n \in Nat : n > 0 /\ Enter(r, Task("seen", by, n, catalogRow.version, 0, "usable"))
    <3>1. CASE At(r, "loaded")
      BY <1>4, <1>t, <3>1, FieldTypes DEF Sync, Askers, At, VersionInv
    <3>2. CASE At(r, "idle")
      BY <1>4, <3>2, FieldTypes DEF Sync, Askers, At
    <3>3. QED BY <1>4, <3>1, <3>2 DEF Sync
  <2>2. /\ task'[r].stage = "seen" /\ task'[r].now = n /\ task'[r].seen = catalogRow.version
    <3>1. "usable" \in Lists /\ "seen" \in Stages /\ catalogRow.version \in Versions
      BY FieldTypes DEF Stages, Lists
    <3>2. QED BY <2>1, <3>1, TaskFacts, EnterFacts
  <2>3. installed'[r] = installed[r] /\ catalogRow' = catalogRow /\ catalogRow.version.at \in Nat
    BY <1>4, FieldTypes DEF Sync
  <2>4. QED BY <1>t, <1>v, <2>1, <2>2, <2>3 DEF VersionInv, ClaimStages, Valid
<1>5. CASE SyncFails(r) \/ ClaimFails(r)
  <2>1. task'[r] = Idle /\ installed'[r] = installed[r]
    BY <1>5, EnterFacts, RestFacts DEF SyncFails, ClaimFails
  <2>2. QED BY <1>r, <1>v, <2>1, RestFacts, NoVersionValid
<1>6. CASE Install(r)
  <2>1. \/ task'[r] = Idle
        \/ /\ ~Fresh(r, catalogRow.version)
           /\ task'[r].stage = "claim" /\ task'[r].now = task[r].now
           /\ task'[r].seen = catalogRow.version
    BY <1>6, DecideFacts, FieldTypes DEF Install, Lists
  <2>2. installed'[r] = catalogRow.version /\ source'[r] = source[r]
    BY <1>6 DEF Install, TypeOK
  <2>3. CASE task'[r] = Idle
    BY <1>r, <1>t, <2>2, <2>3, RestFacts, NoVersionValid
  <2>4. CASE task'[r] # Idle
    <3>1. task[r].now > 0
      BY <1>6, <1>t DEF Install, At, VersionInv
    <3>2. QED BY <1>t, <2>1, <2>2, <2>4, <3>1 DEF VersionInv, ClaimStages, Valid, Fresh
  <2>5. QED BY <2>3, <2>4
<1>7. CASE InstallFails(r) \/ Skip(r)
  <2>1. PICK list \in Lists : Decide(r, Current(r), task[r].seen, list)
                              /\ (InstallFails(r) => list = "unusable")
                              /\ (~InstallFails(r) => Skip(r))
    BY <1>7 DEF InstallFails, Skip, Lists
  <2>2. \/ task'[r] = Idle
        \/ /\ ~Fresh(r, Current(r))
           /\ task'[r].stage = "claim" /\ task'[r].now = task[r].now
           /\ task'[r].seen = task[r].seen /\ task'[r].list = list
    BY <2>1, DecideFacts, CurrentFacts, FieldTypes
  <2>3. installed'[r] = installed[r] /\ source'[r] = source[r]
    BY <1>7 DEF InstallFails, Skip
  <2>4. CASE task'[r] = Idle
    BY <1>r, <1>v, <2>3, <2>4, RestFacts, NoVersionValid
  <2>5. CASE task'[r] # Idle
    <3>1. task[r].now > 0
      BY <1>7, <1>t DEF InstallFails, Skip, At, VersionInv
    <3>2. ~Fresh(r, installed[r])
      BY <2>2, <2>5 DEF Current, Fresh
    <3>3. list = "unusable" \/ ~Fresh(r, task[r].seen)
      <4> SUFFICES ASSUME Skip(r), Fresh(r, task[r].seen) PROVE FALSE
        BY <2>1
      <4>1. /\ task[r].seen.source = source[r] /\ source[r] # NoSource
            /\ task[r].now - task[r].seen.at < MaxAge
            /\ task[r].seen.at \in Nat /\ task[r].now \in Nat
        BY FieldTypes DEF Fresh
      <4>2. task[r].seen.at > 0
        BY <1>v, <4>1 DEF Valid
      <4>3. task[r].seen.at <= Current(r).at /\ Current(r).at \in Nat
        BY <4>1, CurrentFacts DEF Skip, Installs
      <4>4. Current(r) = installed[r] /\ installed[r].source = source[r]
        <5>1. Current(r).at # 0
          BY <4>1, <4>2, <4>3
        <5>2. Current(r) # NoVersion
          BY <5>1, NoVersionFacts
        <5>3. QED BY <5>2 DEF Current
      <4>5. Fresh(r, installed[r])
        BY <4>1, <4>3, <4>4 DEF Fresh
      <4>6. QED BY <3>2, <4>5
    <3>4. QED BY <1>v, <2>2, <2>3, <2>5, <3>1, <3>2, <3>3
             DEF VersionInv, ClaimStages, Valid, Fresh
  <2>6. QED BY <2>4, <2>5
<1>8. CASE Claim(r)
  <2> DEFINE t == Task("fetch", task[r].by, task[r].now, task[r].seen, ClaimUntil(r), task[r].list)
  <2>1. "fetch" \in Stages /\ ClaimUntil(r) \in Nat
    BY FieldTypes DEF Stages, ClaimUntil
  <2>2. t \in Tasks /\ t.stage = "fetch" /\ t.now = task[r].now /\ t.seen = task[r].seen
    BY <2>1, FieldTypes, TaskFacts
  <2>3. Enter(r, t)
    BY <1>8 DEF Claim
  <2> HIDE DEF t
  <2>4. /\ task'[r].stage = "fetch" /\ task'[r].now = task[r].now
        /\ task'[r].seen = task[r].seen
    BY <2>2, <2>3, EnterFacts
  <2>5. installed'[r] = installed[r] /\ source'[r] = source[r]
    BY <1>8 DEF Claim
  <2>6. task[r].now > 0 /\ ~Fresh(r, installed[r])
    BY <1>8, <1>t DEF Claim, At, VersionInv, ClaimStages
  <2>7. QED BY <1>v, <2>4, <2>5, <2>6 DEF VersionInv, ClaimStages, Valid, Fresh
<1>9. CASE Fetch(r)
  <2>1. /\ task'[r].stage = "save" /\ task'[r].now = task[r].now
        /\ task'[r].seen = task[r].seen
    BY <1>9, GoOnFacts DEF Fetch, Stages
  <2>2. installed'[r] = installed[r] /\ source'[r] = source[r]
    BY <1>9 DEF Fetch
  <2>3. task[r].now > 0 /\ ~Fresh(r, installed[r])
    BY <1>9, <1>t DEF Fetch, At, VersionInv, ClaimStages
  <2>4. QED BY <1>v, <2>1, <2>2, <2>3 DEF VersionInv, ClaimStages, Valid, Fresh
<1>10. CASE FetchFails(r)
  <2>1. task'[r] = Idle /\ installed'[r] = installed[r]
    BY <1>10, EnterFacts, RestFacts DEF FetchFails
  <2>2. QED BY <1>r, <1>v, <2>1, RestFacts, NoVersionValid
<1>11. CASE Save(r)
  <2>1. task'[r] = Idle /\ installed'[r] = Version(source[r], task[r].now)
    BY <1>11, EnterFacts, RestFacts DEF Save, TypeOK
  <2>2. task[r].now > 0 /\ source[r] # NoSource
    BY <1>11, <1>t, FieldTypes DEF Save, At, VersionInv, ClaimStages
  <2>3. Valid(installed'[r])
    BY <2>1, <2>2, FieldTypes, VersionFacts DEF Valid
  <2>4. QED BY <1>r, <2>1, <2>3, RestFacts, NoVersionValid
<1>12. CASE Crash(r)
  <2>1. task'[r] = Down /\ installed'[r] = NoVersion
    BY <1>12, EnterFacts, RestFacts DEF Crash, TypeOK
  <2>2. QED BY <1>r, <2>1, RestFacts, NoVersionValid
<1>13. QED
  BY <1>1, <1>2, <1>3, <1>4, <1>5, <1>6, <1>7, <1>8, <1>9, <1>10, <1>11, <1>12 DEF Step

LEMMA FreshStep == TypeOK /\ FreshInv /\ [Next]_vars => FreshInv'
<1> SUFFICES ASSUME TypeOK, FreshInv, [Next]_vars PROVE FreshInv'
  OBVIOUS
<1>1. CASE UNCHANGED vars
  BY <1>1 DEF vars, FreshInv, VersionInv, Valid, Fresh
<1>2. CASE Tick
  <2>1. clock' > 0
    BY <1>2 DEF Tick, FreshInv, TypeOK
  <2>2. UNCHANGED <<catalogRow, task, source, installed>>
    BY <1>2 DEF Tick
  <2>3. QED BY <2>1, <2>2 DEF FreshInv, VersionInv, Valid, Fresh
<1>3. ASSUME NEW r \in Runtimes, Step(r) PROVE FreshInv'
  <2>1. clock' > 0
    BY <1>3, Frame DEF FreshInv
  <2>2. Valid(catalogRow'.version)
    <3>1. CASE catalogRow'.version = catalogRow.version
      BY <3>1 DEF FreshInv
    <3>2. CASE At(r, "save") /\ catalogRow'.version = Version(source[r], task[r].now)
      <4>1. task[r].now > 0 /\ task[r].now \in Nat /\ source[r] \in Sources
        BY <3>2, FieldTypes DEF FreshInv, VersionInv, At, ClaimStages
      <4>2. QED BY <3>2, <4>1, VersionFacts, ModelListsAssumption DEF Valid
    <3>3. QED BY <1>3, <3>1, <3>2, RowMovesOn
  <2>3. VersionInv(r)'
    BY <1>3, VersionStep
  <2>4. ASSUME NEW s \in Runtimes, s # r PROVE VersionInv(s)'
    <3>1. task'[s] = task[s] /\ installed'[s] = installed[s] /\ source'[s] = source[s]
      BY <1>3, <2>4, Frame
    <3>2. catalogRow'.version.at >= catalogRow.version.at
      BY <1>3, RowMovesOn
    <3>3. catalogRow'.version.at \in Nat /\ catalogRow.version.at \in Nat /\ task[s].seen.at \in Nat
      <4>1. TypeOK'
        BY <1>3, TypeStep
      <4>2. QED BY <4>1, FieldTypes DEF TypeOK, Rows, Versions
    <3>4. VersionInv(s)
      BY DEF FreshInv
    <3>5. QED BY <3>1, <3>2, <3>3, <3>4 DEF VersionInv, Valid, Fresh
  <2>5. QED BY <2>1, <2>2, <2>3, <2>4 DEF FreshInv, Valid
<1>4. QED BY <1>1, <1>2, <1>3 DEF Next

LEMMA FreshAlways == Spec => [](TypeOK /\ FreshInv)
<1>1. QED BY TypeInit, TypeStep, FreshInit, FreshStep, PTL DEF Spec

-----------------------------------------------------------------------------
(* The stored list is only ever replaced by one fetched later. *)
THEOREM StoredMovesOnCorrect == Spec => StoredMovesOn
<1>1. TypeOK /\ [Next]_vars => [catalogRow'.version.at >= catalogRow.version.at]_vars
  <2> SUFFICES ASSUME TypeOK, Next PROVE catalogRow'.version.at >= catalogRow.version.at
    OBVIOUS
  <2>1. CASE Tick
    BY <2>1, FieldTypes DEF Tick
  <2>2. QED BY <2>1, RowMovesOn DEF Next
<1>2. QED BY <1>1, TypeCorrect, PTL DEF Spec, StoredMovesOn

(* A fetch begins only when the stored list is of another source, too old  *)
(* at the time of the request, or unusable: the comparison of the version  *)
(* in the claim makes up for everything stored since it was read.          *)
THEOREM FetchNeededCorrect == Spec => FetchNeeded
<1> DEFINE Needed(r) == At(r, "claim") /\ At(r, "fetch")' =>
                            ~Fresh(r, catalogRow.version) \/ task[r].list = "unusable"
<1>1. TypeOK /\ FreshInv /\ [Next]_vars => [\A r \in Runtimes : Needed(r)]_vars
  <2> SUFFICES ASSUME TypeOK, FreshInv, Next, NEW r \in Runtimes,
                      At(r, "claim"), At(r, "fetch")'
               PROVE  ~Fresh(r, catalogRow.version) \/ task[r].list = "unusable"
    OBVIOUS
  <2>1. PICK s \in Runtimes : Step(s)
    BY DEF Next, Tick, At
  <2>2. s = r
    BY <2>1, Frame DEF At
  <2>3. Claim(r)
    <3>1. CASE Poll(r)
      BY <3>1 DEF Poll, At
    <3>2. CASE InstallFails(r) \/ Skip(r) \/ Install(r) \/ Sync(r) \/ Load(r) \/ Reset(r)
               \/ Fetch(r) \/ FetchFails(r) \/ Save(r)
      BY <3>2 DEF InstallFails, Skip, Install, Sync, Load, Reset, Fetch, FetchFails, Save, At
    <3>3. CASE SyncFails(r) \/ ClaimFails(r) \/ Crash(r)
      BY <3>3, EnterFacts, RestFacts DEF SyncFails, ClaimFails, Crash, At
    <3>4. QED BY <2>1, <2>2, <3>1, <3>2, <3>3 DEF Step
  <2>4. catalogRow.version = task[r].seen
    BY <2>3 DEF Claim, Claimable
  <2>5. QED BY <2>4 DEF FreshInv, VersionInv, At
<1>2. QED BY <1>1, FreshAlways, PTL DEF Spec, FetchNeeded

(* The list in use is never replaced by an older one of the same source:   *)
(* a stored list is compared before it is installed, and the time of a     *)
(* fetched one is later than that of the list that was too old.            *)
THEOREM InstalledMovesOnCorrect == Spec => InstalledMovesOn
<1> DEFINE Later(r) == installed[r].source = installed'[r].source =>
                           installed'[r].at >= installed[r].at
<1>1. TypeOK /\ FreshInv /\ [Next]_vars => [\A r \in Runtimes : Later(r)]_vars
  <2> SUFFICES ASSUME TypeOK, FreshInv, Next, NEW r \in Runtimes,
                      installed[r].source = installed'[r].source
               PROVE  installed'[r].at >= installed[r].at
    OBVIOUS
  <2>t. /\ installed[r].at \in Nat /\ task[r].now \in Nat /\ catalogRow.version.at \in Nat
        /\ task[r].seen.at \in Nat /\ source[r] \in Sources \cup {NoSource}
        /\ VersionInv(r)
    BY FieldTypes DEF FreshInv
  <2>1. CASE installed'[r] = installed[r]
    BY <2>t, <2>1
  <2>2. CASE installed'[r] = NoVersion
    BY <2>t, <2>2, NoVersionFacts DEF VersionInv, Valid
  <2>3. CASE Install(r)
    <3>1. installed'[r] = catalogRow.version /\ catalogRow.version.source = source[r]
      BY <2>3 DEF Install, TypeOK
    <3>2. task[r].seen.at > installed[r].at
      BY <2>3, <3>1 DEF Install, Installs, Current
    <3>3. catalogRow.version.at >= task[r].seen.at
      BY <2>3, <2>t DEF Install, At, VersionInv
    <3>4. QED BY <2>t, <3>1, <3>2, <3>3
  <2>4. CASE Save(r)
    <3>1. installed'[r] = Version(source[r], task[r].now)
      BY <2>4 DEF Save, TypeOK
    <3>2. installed'[r].source = source[r] /\ installed'[r].at = task[r].now
      BY <2>t, <3>1, VersionFacts
    <3>3. ~Fresh(r, installed[r])
      BY <2>4, <2>t DEF Save, At, VersionInv, ClaimStages
    <3>4. QED BY <2>t, <3>2, <3>3, ModelListsAssumption DEF Fresh
  <2>5. QED
    <3>1. CASE Tick
      BY <2>1, <3>1 DEF Tick
    <3>2. ASSUME NEW s \in Runtimes, Step(s), s # r PROVE installed'[r] = installed[r]
      BY <3>2, Frame
    <3>3. ASSUME Step(r)
          PROVE  \/ installed'[r] = installed[r] \/ installed'[r] = NoVersion
                 \/ Install(r) \/ Save(r)
      BY <3>3 DEF Step, Load, Reset, Poll, Sync, SyncFails, InstallFails, Skip, Claim,
         ClaimFails, Fetch, FetchFails, Crash, TypeOK
    <3>4. QED BY <2>1, <2>2, <2>3, <2>4, <3>1, <3>2, <3>3 DEF Next
<1>2. QED BY <1>1, FreshAlways, PTL DEF Spec, InstalledMovesOn

=============================================================================
