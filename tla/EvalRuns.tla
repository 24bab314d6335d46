------------------------------ MODULE EvalRuns ------------------------------
(***************************************************************************)
(* The commands that run an evaluation (kraai-eval): a command resolves    *)
(* the results folder of its harness, locks it, runs every attempt that    *)
(* has no result yet in staging, and writes the summary.  Commands of      *)
(* several processes may overlap, any of them may die at any step, and a   *)
(* rerun of the command is how an interrupted evaluation is finished.      *)
(*                                                                         *)
(* An attempt's folder is absent, "torn" (there, without its result.json)  *)
(* or holds a result.  Tasks, hashes, logs and metrics are left out; a     *)
(* workspace is the set of the layers in it.                               *)
(***************************************************************************)
EXTENDS Naturals, Sequences, FiniteSets

CONSTANTS
    Procs,        \* the processes that may run the command
    Attempts,     \* 1..n: the attempts a command asks for, in this order
    Dates,        \* 1..m: days, each the name of a results folder created on it
    Graders,      \* the number of grader commands
    MaxCommands,  \* bound: commands started
    MaxFaults     \* bound: crashes, controller errors, damaged files

VARIABLES
    today,     \* the day
    folders,   \* the days whose results folder exists
    lock,      \* [Dates -> Procs or "free"]: kernel locks on the folders' lock files
    final,     \* [Dates -> [Attempts -> the attempt's folder]]
    staging,   \* [Dates -> the staging directories, each named by its process or "orphan"]
    deps,      \* the dependency cache: "absent" or "complete"
    job,       \* [Procs -> the command the process runs]
    summary,   \* [Dates -> the last summary.json]
    commands,  \* ghost: commands started
    faults,    \* ghost: faults so far
    torn       \* ghost: a process died while it discarded a controller failure

vars == <<today, folders, lock, final, staging, deps, job, summary, commands, faults, torn>>

Evaluated == {"passed", "failed", "runnerFailed"}
Statuses == Evaluated \cup {"controllerFailed"}
Layers == {"base", "work", "left", "hidden"}

NoFolder == [status |-> "absent", grades |-> <<>>, tree |-> {}]
Torn == [NoFolder EXCEPT !.status = "torn"]
Saved(status, grades, tree) == [status |-> status, grades |-> grades, tree |-> tree]

Idle == [pc |-> "idle", dir |-> 0, at |-> 0, tree |-> {}, grades |-> <<>>, status |-> "none",
         failed |-> {}, clean |-> TRUE]

NoSummary == [evaluated |-> 0, passed |-> 0, controller |-> 0, launch |-> 0, requested |-> 0,
              wasSaved |-> {}, clean |-> FALSE]

Stages == {"idle", "resolved", "attempt", "discarding", "begin", "fetching", "fetched", "ready",
           "ran", "captured", "grading", "decided", "summary"}

EvalTypeOK ==
    /\ today \in Dates /\ folders \subseteq Dates
    /\ lock \in [Dates -> Procs \cup {"free"}]
    /\ \A d \in Dates, a \in Attempts :
         /\ final[d][a].status \in Statuses \cup {"absent", "torn", "damaged"}
         /\ final[d][a].tree \subseteq Layers
    /\ \A d \in Dates : staging[d] \subseteq Procs \cup {"orphan"}
    /\ deps \in {"absent", "complete"}
    /\ \A p \in Procs : job[p].pc \in Stages /\ job[p].dir \in Dates \cup {0}
    /\ faults \in 0..MaxFaults /\ commands \in 0..MaxCommands /\ torn \in BOOLEAN

Init ==
    /\ today = 1 /\ folders = {} /\ lock = [d \in Dates |-> "free"]
    /\ final = [d \in Dates |-> [a \in Attempts |-> NoFolder]]
    /\ staging = [d \in Dates |-> {}] /\ deps = "absent"
    /\ job = [p \in Procs |-> Idle]
    /\ summary = [d \in Dates |-> NoSummary]
    /\ commands = 0 /\ faults = 0 /\ torn = FALSE

At(p, pc) == job[p].pc = pc
Go(p, pc) == job' = [job EXCEPT ![p].pc = pc]
Folder(p) == final[job[p].dir][job[p].at]

-----------------------------------------------------------------------------
(* The command line: the folder of this harness version is the one that exists, or one named
   after today.  Several that match are an error. *)
ResolvedFolder == IF folders = {} THEN today ELSE CHOOSE d \in folders : TRUE

Start(p) ==
    /\ At(p, "idle") /\ commands < MaxCommands
    /\ Cardinality(folders) <= 1
    /\ job' = [job EXCEPT ![p] = [Idle EXCEPT !.pc = "resolved", !.dir = ResolvedFolder]]
    /\ commands' = commands + 1
    /\ UNCHANGED <<today, folders, lock, final, staging, deps, summary, faults, torn>>

(* The staging directories of the folder are removed only once the lock is held. *)
WipedBeforeLock(p, held) == {}

Wiped(p, held) == IF held THEN {} ELSE staging[job[p].dir]
(* The lock is tried once; a folder in use is reported as already running. *)
Free(d) == lock[d] = "free"

LockFolder(p) ==
    LET d == job[p].dir
        held == Free(d) IN
    /\ At(p, "resolved")
    /\ staging' = [staging EXCEPT ![d] = Wiped(p, held)]
    /\ lock' = IF held THEN [lock EXCEPT ![d] = p] ELSE lock
    /\ folders' = IF held THEN folders \cup {d} ELSE folders
    /\ job' = [job EXCEPT ![p] = IF held THEN [@ EXCEPT !.pc = "attempt", !.at = 1] ELSE Idle]
    /\ UNCHANGED <<today, final, deps, summary, commands, faults, torn>>

-----------------------------------------------------------------------------
(* One attempt. *)

Last == Cardinality(Attempts)

(* What the suite does after one run: the next attempt, or the summary. *)
AfterRun(j) ==
    [j EXCEPT !.pc = IF j.at < Last THEN "attempt" ELSE "summary",
              !.at = IF j.at < Last THEN @ + 1 ELSE @,
              !.tree = {}, !.grades = <<>>, !.status = "none"]

(* crate::run returned an error: a launch failure of this attempt. *)
LaunchFailed(j) == AfterRun([j EXCEPT !.failed = @ \cup {j.at}])

(* A saved result is returned as it is, unless the controller itself had failed. *)
RetriedUnpassed(status) == status \in {"controllerFailed", "runnerFailed"}

Retried(status) == status = "controllerFailed"
LoadResult(p) ==
    /\ At(p, "attempt")
    /\ LET s == Folder(p).status IN
       job' = [job EXCEPT ![p] =
                 IF s = "damaged" THEN LaunchFailed(@)
                 ELSE IF s \in {"absent", "torn"} THEN [@ EXCEPT !.pc = "begin"]
                 ELSE IF Retried(s) THEN [@ EXCEPT !.pc = "discarding"]
                 ELSE AfterRun(@)]
    /\ UNCHANGED <<today, folders, lock, final, staging, deps, summary, commands, faults, torn>>

(* The request is refused before the saved result is read (the task, the runner or the provider
   configuration cannot be read). *)
RefuseRun(p) ==
    /\ At(p, "attempt") /\ faults < MaxFaults
    /\ job' = [job EXCEPT ![p] = LaunchFailed([@ EXCEPT !.clean = FALSE])]
    /\ faults' = faults + 1
    /\ UNCHANGED <<today, folders, lock, final, staging, deps, summary, commands, torn>>

(* Removing the folder of a controller failure takes its files one after the other: the first
   step takes result.json, the second the folder. *)
Discard(p) ==
    /\ At(p, "discarding")
    /\ final' = [final EXCEPT ![job[p].dir][job[p].at] = IF @.status = "torn" THEN NoFolder ELSE Torn]
    /\ IF Folder(p).status = "torn" THEN Go(p, "begin") ELSE UNCHANGED job
    /\ UNCHANGED <<today, folders, lock, staging, deps, summary, commands, faults, torn>>

Begin(p) ==
    /\ At(p, "begin")
    /\ staging' = [staging EXCEPT ![job[p].dir] = @ \cup {p}]
    /\ Go(p, "fetching")
    /\ UNCHANGED <<today, folders, lock, final, deps, summary, commands, faults, torn>>

(* The task's revision and its public patch become the base; its dependencies are fetched into a
   directory of their own unless the cache is complete. *)
Cached == deps = "complete"

Materialize(p) ==
    /\ At(p, "fetching")
    /\ job' = [job EXCEPT ![p].tree = {"base"},
                          ![p].pc = IF Cached THEN "ready" ELSE "fetched"]
    /\ UNCHANGED <<today, folders, lock, final, staging, deps, summary, commands, faults, torn>>

(* Renamed into place, complete; a rename that finds another's complete cache reuses it. *)
CommitDependencies(p) ==
    /\ At(p, "fetched")
    /\ deps' = "complete" /\ Go(p, "ready")
    /\ UNCHANGED <<today, folders, lock, final, staging, summary, commands, faults, torn>>

(* The agent runs on a copy of the base: it leaves work and files Git ignores. *)
RunAgent(p) ==
    /\ At(p, "ready")
    /\ \E work \in SUBSET {"work", "left"}, ok \in BOOLEAN :
         job' = [job EXCEPT ![p].tree = {"base"} \cup work, ![p].pc = "ran",
                            ![p].status = IF ok THEN "passed" ELSE "runnerFailed"]
    /\ UNCHANGED <<today, folders, lock, final, staging, deps, summary, commands, faults, torn>>

(* The submission is what the agent changed in files Git tracks. *)
Submission(tree) == tree \cap {"work"}

(* It is replayed on a fresh copy of the base, and the hidden tests are applied on top. *)
GradingTreeInPlace(tree) == tree \cup {"hidden"}

GradingTree(tree) == {"base"} \cup Submission(tree) \cup {"hidden"}
CaptureSubmission(p) ==
    /\ At(p, "ran")
    /\ job' = [job EXCEPT ![p] =
                 IF @.status = "passed" THEN [@ EXCEPT !.pc = "grading", !.tree = GradingTree(@)]
                 ELSE [@ EXCEPT !.pc = "decided", !.tree = {}]]
    /\ UNCHANGED <<today, folders, lock, final, staging, deps, summary, commands, faults, torn>>

(* Every grader runs; the attempt passes when all of them succeed. *)
GradedLast(status, ok) == IF ok THEN "passed" ELSE "failed"

Graded(status, ok) == IF status = "passed" /\ ok THEN "passed" ELSE "failed"
Grade(p) ==
    /\ At(p, "grading")
    /\ \E ok \in BOOLEAN :
         job' = [job EXCEPT ![p].grades = Append(@, ok),
                            ![p].status = Graded(@, ok),
                            ![p].pc = IF Len(job[p].grades) + 1 = Graders THEN "decided" ELSE "grading"]
    /\ UNCHANGED <<today, folders, lock, final, staging, deps, summary, commands, faults, torn>>

(* An error of the controller in any stage of the execution is a result of its own. *)
ControllerFails(p) ==
    /\ job[p].pc \in {"fetching", "fetched", "ready", "ran", "grading"}
    /\ faults < MaxFaults /\ faults' = faults + 1
    /\ job' = [job EXCEPT ![p].pc = "decided", ![p].status = "controllerFailed",
                          ![p].tree = {}, ![p].grades = <<>>, ![p].clean = FALSE]
    /\ UNCHANGED <<today, folders, lock, final, staging, deps, summary, commands, torn>>

(* The result moves into place only when nothing is there; either way the staging directory is
   gone afterwards (renamed, or removed as it goes out of scope). *)
CommitResult(p) ==
    LET j == job[p]
        lost == p \notin staging[j.dir]
        free == Folder(p).status = "absent" /\ ~lost IN
    /\ At(p, "decided")
    /\ final' = IF free THEN [final EXCEPT ![j.dir][j.at] = Saved(j.status, j.grades, j.tree)] ELSE final
    /\ staging' = [staging EXCEPT ![j.dir] = @ \ {p}]
    /\ job' = [job EXCEPT ![p] = IF free THEN AfterRun(@) ELSE LaunchFailed(@)]
    /\ UNCHANGED <<today, folders, lock, deps, summary, commands, faults, torn>>

-----------------------------------------------------------------------------
(* The summary counts the saved results and the attempts that failed to launch; a result that
   cannot be read is a launch failure too, once. *)
WithStatus(d, statuses) == {a \in Attempts : final[d][a].status \in statuses}
Unlaunched(d, failed) == failed \cup (WithStatus(d, {"damaged"}) \ failed)
CountLaunchTwice(d, failed) == Cardinality(failed) + Cardinality(WithStatus(d, {"damaged"}))

CountLaunch(d, failed) == Cardinality(Unlaunched(d, failed))
Summarize(p) ==
    LET d == job[p].dir
        results == WithStatus(d, Statuses) IN
    /\ At(p, "summary")
    /\ summary' = [summary EXCEPT ![d] =
                     [evaluated |-> Cardinality(WithStatus(d, Evaluated)),
                      passed |-> Cardinality(WithStatus(d, {"passed"})),
                      controller |-> Cardinality(WithStatus(d, {"controllerFailed"})),
                      launch |-> CountLaunch(d, job[p].failed),
                      requested |-> Cardinality(results) + CountLaunch(d, job[p].failed),
                      wasSaved |-> results \cap job[p].failed,
                      clean |-> job[p].clean]]
    /\ lock' = [lock EXCEPT ![d] = "free"]
    /\ job' = [job EXCEPT ![p] = Idle]
    /\ UNCHANGED <<today, folders, final, staging, deps, commands, faults, torn>>

-----------------------------------------------------------------------------
(* The environment. *)

(* The process dies: its locks are released, its staging directory stays. *)
Crash(p) ==
    LET d == job[p].dir IN
    /\ ~At(p, "idle") /\ faults < MaxFaults /\ faults' = faults + 1
    /\ lock' = [e \in Dates |-> IF lock[e] = p THEN "free" ELSE lock[e]]
    /\ staging' = [e \in Dates |-> IF p \in staging[e] THEN (staging[e] \ {p}) \cup {"orphan"}
                                  ELSE staging[e]]
    /\ torn' = (torn \/ (At(p, "discarding") /\ Folder(p).status = "torn"))
    /\ job' = [job EXCEPT ![p] = Idle]
    /\ UNCHANGED <<today, folders, final, deps, summary, commands>>

(* A saved attempt's files are changed on disk so that its result cannot be loaded. *)
Damage(d, a) ==
    /\ final[d][a].status \in Statuses /\ faults < MaxFaults
    /\ \A p \in Procs : lock[d] # p
    /\ final' = [final EXCEPT ![d][a] = [NoFolder EXCEPT !.status = "damaged"]]
    /\ faults' = faults + 1
    /\ UNCHANGED <<today, folders, lock, staging, deps, job, summary, commands, torn>>

Midnight ==
    /\ today < Cardinality(Dates) /\ today' = today + 1
    /\ UNCHANGED <<folders, lock, final, staging, deps, job, summary, commands, faults, torn>>

Next ==
    \/ \E p \in Procs :
         \/ Start(p) \/ LockFolder(p) \/ LoadResult(p) \/ RefuseRun(p) \/ Discard(p) \/ Begin(p)
         \/ Materialize(p) \/ CommitDependencies(p) \/ RunAgent(p) \/ CaptureSubmission(p)
         \/ Grade(p) \/ ControllerFails(p) \/ CommitResult(p) \/ Summarize(p) \/ Crash(p)
    \/ \E d \in Dates, a \in Attempts : Damage(d, a)
    \/ Midnight

Spec == Init /\ [][Next]_vars

-----------------------------------------------------------------------------
(* No command removes the staging directory of an attempt another command is running, whatever
   processes come, die and come back. *)
StagingKept ==
    \A p \in Procs : job[p].pc \in {"fetching", "fetched", "ready", "ran", "grading", "decided"}
        => p \in staging[job[p].dir]

(* An attempt is saved as passed only if the agent succeeded and every grader did, on a fresh copy
   of the base with the submission and the hidden tests and nothing else the agent left. *)
GradesTrue ==
    \A d \in Dates, a \in Attempts :
        LET f == final[d][a] IN
        /\ f.status = "passed" => Len(f.grades) = Graders /\ \A i \in 1..Graders : f.grades[i]
        /\ f.status \in {"passed", "failed"} => "hidden" \in f.tree /\ "left" \notin f.tree
        /\ f.status = "failed" => \E i \in 1..Len(f.grades) : ~f.grades[i]

(* The summary lists every requested attempt, and lists it once; only an attempt that was refused
   although its result was saved by an earlier command appears twice. *)
SummaryComplete ==
    \A d \in Dates : summary[d] # NoSummary =>
        /\ summary[d].requested = Last + Cardinality(summary[d].wasSaved)
        /\ summary[d].evaluated + summary[d].controller + summary[d].launch = summary[d].requested

(* A rerun resumes: a command that ran to its summary without a fault of its own leaves every
   attempt evaluated, unless one of its files was damaged or an earlier process died while it
   discarded a controller failure. *)
RerunResumes ==
    \A d \in Dates : summary[d].clean /\ ~torn /\ WithStatus(d, {"damaged"}) = {}
        => summary[d].evaluated = Last

(* The README's promise without that exception: rerunning a command resumes it. *)
RerunAlwaysResumes ==
    \A d \in Dates : summary[d].clean /\ WithStatus(d, {"damaged"}) = {} /\ lock[d] = "free"
        => summary[d].evaluated = Last

(* No later command changes or repeats an attempt that was evaluated. *)
EvaluatedKept ==
    \A d \in Dates, a \in Attempts :
        final[d][a].status \in Evaluated => final'[d][a] \in {final[d][a], [NoFolder EXCEPT !.status = "damaged"]}
AttemptsKept == [][EvaluatedKept]_vars
=============================================================================
