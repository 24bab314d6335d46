---------------------------- MODULE Permissions ----------------------------
(***************************************************************************)
(* What a script may do.  Profiles are resolved from three layers (built   *)
(* in, the user's agents.toml, the workspace's .kraai/agents.toml); a turn *)
(* takes the selected one when it starts and keeps it, together with its   *)
(* workspace, until it ends; each script asks for capabilities, which the  *)
(* profile's rules grant, refuse or put to the user; and the sandbox turns *)
(* the outcome into mounts (Linux) or Seatbelt rules (macOS).  Meanwhile   *)
(* the user edits the files, changes the session's profile or workspace,   *)
(* and the process may be restarted.                                       *)
(*                                                                         *)
(* A profile keeps the fields permissions depend on; its names, prompt,    *)
(* environment and PATH policy are the one field `rest'.  An optional      *)
(* field of a file is <<>> or <<value>>.                                   *)
(***************************************************************************)
EXTENDS Naturals, Sequences

CONSTANTS
    Files,       \* contents an agents.toml may have: sequences of entries
    Requests,    \* sets of capabilities a script's header may name
    Workspaces,  \* directories the session may be moved to
    MaxChanges,  \* bound: edits of a file, moves, profile changes, restarts
    MaxScripts   \* bound: scripts of one behaviour

VARIABLES
    files,    \* the contents of each layer's file
    row,      \* the stored session: its workspace and profile id
    state,    \* SessionRuntimeState: active and pending workspace, profile
    prep,     \* the preparation of a turn between its awaits
    script,   \* the script the turn is at
    changes,  \* ghost: bounded changes so far
    scripts   \* ghost: bounded scripts so far

vars == <<files, row, state, prep, script, changes, scripts>>

Capability == {"WorkspaceRead", "HostRead", "WorkspaceWrite", "HostWrite",
               "Network", "NoSandbox"}
Policy == {"Deny", "Prompt", "Allow"}
Layers == {"global"} \cup Workspaces

----------------------------------------------------------------------------
\* Capabilities.

(* SandboxCapabilities::new: what a set of capabilities implies. *)
Closure(c) ==
    IF "NoSandbox" \in c THEN {"NoSandbox"}
    ELSE c \cup (IF "HostWrite" \in c
                 THEN {"HostRead", "WorkspaceWrite", "WorkspaceRead"} ELSE {})
           \cup (IF c \cap {"WorkspaceWrite", "HostRead"} # {}
                 THEN {"WorkspaceRead"} ELSE {})

(* SandboxCapabilities::contains. *)
Contains(c, k) == "NoSandbox" \in c \/ k \in c

(* parse_permissions: a header's list is closed before anyone compares it.  *)
RequestedUnclosed(names) == names

Requested(names) == Closure(names)

(* requested_additions. *)
Additions(defaults, requested) ==
    IF "NoSandbox" \in requested /\ "NoSandbox" \notin defaults
    THEN {"NoSandbox"}
    ELSE {k \in requested : ~Contains(defaults, k)}

(* What a profile's rules say of one capability. *)
Ruled(p, k) ==
    IF \E r \in p.rules : r[1] = k
    THEN (CHOOSE r \in p.rules : r[1] = k)[2] ELSE p.fallback

(* Mutant: one allowed capability carries the others. *)
VerdictByAny(p, additions) ==
    IF \E k \in additions : Ruled(p, k) = "Allow" THEN "Allow"
    ELSE IF \E k \in additions : Ruled(p, k) = "Prompt" THEN "Prompt"
    ELSE IF additions = {} THEN "Allow" ELSE "Deny"

(* SandboxPermissionSet::resolve. *)
Verdict(p, additions) ==
    IF \E k \in additions : Ruled(p, k) = "Deny" THEN "Deny"
    ELSE IF \E k \in additions : Ruled(p, k) = "Prompt" THEN "Prompt"
    ELSE "Allow"

(* What the script would run with: the defaults alone when it adds nothing *)
(* or is refused.                                                          *)
Effective(p, requested) ==
    LET additions == Additions(p.caps, requested)
    IN IF additions = {} \/ Verdict(p, additions) = "Deny" THEN p.caps
       ELSE Closure(p.caps \cup requested)

----------------------------------------------------------------------------
\* Profiles.

(* built_in_profiles, on the systems other than Windows. *)
BuiltIn ==
    {[id |-> "coding", caps |-> Closure({"HostRead", "WorkspaceWrite", "Network"}),
      rules |-> {}, fallback |-> "Prompt", startup |-> "inherit", rest |-> "given"],
     [id |-> "coding-no-sandbox", caps |-> {"NoSandbox"},
      rules |-> {}, fallback |-> "Prompt", startup |-> "inherit", rest |-> "given"]}

Named(id, profiles) == {p \in profiles : p.id = id}

(* resolve_external_profile: a field of the entry, else of the profile it  *)
(* extends, which only an earlier layer can hold.                          *)
Field(x, f, inherited) ==
    LET bases == IF x.extends = <<>> THEN {}
                 ELSE Named(x.extends[1], inherited)
    IN IF x[f] # <<>> THEN x[f]
       ELSE IF bases = {} THEN <<>> ELSE <<(CHOOSE b \in bases : TRUE)[f]>>

Resolvable(x, inherited) ==
    /\ x.extends # <<>> => Named(x.extends[1], inherited) # {}
    /\ \A f \in {"caps", "fallback", "startup", "rest"} :
           Field(x, f, inherited) # <<>>

ResolveExternal(x, inherited) ==
    [id |-> x.id,
     caps |-> Closure(Field(x, "caps", inherited)[1]),
     rules |-> LET r == Field(x, "rules", inherited)
               IN IF r = <<>> THEN {} ELSE r[1],
     fallback |-> Field(x, "fallback", inherited)[1],
     startup |-> Field(x, "startup", inherited)[1],
     rest |-> Field(x, "rest", inherited)[1]]

(* Mutant: only an entry that states its startup itself is checked. *)
StartupFitsStated(x, p) ==
    (x.startup # <<>> /\ p.startup = "inherit")
        => Contains(p.caps, "HostRead")

(* Inherited Nushell startup files need the host to be readable. *)
StartupFits(x, p) == p.startup = "inherit" => Contains(p.caps, "HostRead")

(* load_layer: a file with one bad entry is rejected whole, with a warning *)
(* (an entry's bad id or unknown command is `sound = FALSE').              *)
Accepted(file, inherited) ==
    \A i \in DOMAIN file :
        /\ file[i].sound
        /\ \A j \in 1..(i - 1) : file[j].id # file[i].id
        /\ Resolvable(file[i], inherited)
        /\ StartupFits(file[i], ResolveExternal(file[i], inherited))

LoadLayer(file, inherited) ==
    IF Accepted(file, inherited)
    THEN {ResolveExternal(file[i], inherited) : i \in DOMAIN file} ELSE {}

(* upsert_profiles. *)
Upserted(existing, layer) ==
    {p \in existing : Named(p.id, layer) = {}} \cup layer

(* resolve_profiles. *)
Profiles(w) ==
    LET global == Upserted(BuiltIn, LoadLayer(files["global"], BuiltIn))
    IN Upserted(global, LoadLayer(files[w], global))

----------------------------------------------------------------------------
\* The sandbox.  A place stands for the paths under it that no other place
\* covers: the workspace, a runtime root inside it, a root above it, a root
\* elsewhere, the common directory of a linked git worktree, the private
\* temporary directory, and the rest of the host.

Place == {"workspace", "inside", "above", "elsewhere", "git", "temp", "host"}
Roots == {"inside", "above", "elsewhere"}

(* Which places a mount or a filter at `at' covers. *)
Under(at) ==
    CASE at = "host" -> Place
      [] at = "above" -> {"above", "workspace", "inside"}
      [] at = "workspace" -> {"workspace", "inside"}
      [] OTHER -> {at}

(* validate_plan: the workspace must at least be readable. *)
PlanValid(caps) == Contains(caps, "WorkspaceRead")

(* Mutant: every runtime root gets its own read-only mount. *)
MountedRootsAll(roots) == roots

(* A root the workspace mount already exposes is not mounted again. *)
MountedRoots(roots) == roots \ Under("workspace")

(* build_bwrap_args: the mounts, in the order of the arguments. *)
Mounts(caps, roots, linked) ==
    LET On(test, at, mode) == IF test THEN <<[at |-> at, mode |-> mode]>> ELSE <<>>
        Root(r) == On(r \in MountedRoots(roots), r, "read")
        write == "WorkspaceWrite" \in caps
    IN On("HostRead" \in caps, "host",
          IF "HostWrite" \in caps THEN "write" ELSE "read")
       \o Root("above") \o Root("elsewhere") \o Root("inside")
       \o On(TRUE, "workspace", IF write THEN "write" ELSE "read")
       \o On(write /\ linked, "git", "write")
       \o On(TRUE, "temp", "write")

(* What a path's place allows under a list of mounts: the mount nearest to *)
(* the path decides, among equals the later one; bubblewrap's and the      *)
(* kernel's part.                                                          *)
MountAccess(mounts, place) ==
    LET covering == {i \in DOMAIN mounts : place \in Under(mounts[i].at)}
        Nearer(i, j) == \/ Under(mounts[i].at) \subseteq Under(mounts[j].at)
                           /\ Under(mounts[i].at) # Under(mounts[j].at)
                        \/ mounts[i].at = mounts[j].at /\ i >= j
    IN IF covering = {} THEN "none"
       ELSE mounts[CHOOSE i \in covering : \A j \in covering : Nearer(i, j)].mode

(* Mutant: a root's write denial covers the whole root. *)
WritableExclusionsNone(caps, linked) == {}

(* build_args: the places a root's write denial leaves out. *)
WritableExclusions(caps, linked) ==
    Under("workspace") \cup {"temp"}
        \cup (IF "WorkspaceWrite" \in caps /\ linked THEN {"git"} ELSE {})

(* build_args of the Seatbelt profile: rules in order, on reading and on   *)
(* writing; the last rule that matches decides, nothing is allowed by      *)
(* default.                                                                *)
SeatbeltRules(caps, roots, linked) ==
    LET On(test, op, places, allow) ==
            IF test THEN <<[op |-> op, on |-> places, allow |-> allow]>> ELSE <<>>
        write == "WorkspaceWrite" \in caps
        Root(r) == On(r \in roots, "read", Under(r), TRUE)
            \o On(r \in roots \ Under("workspace"), "write",
                  Under(r) \ WritableExclusions(caps, linked), FALSE)
    IN On(TRUE, "read", IF "HostRead" \in caps THEN Place ELSE Under("workspace"), TRUE)
       \o On(TRUE, "read", {"temp"}, TRUE) \o On(TRUE, "write", {"temp"}, TRUE)
       \o On("HostWrite" \in caps, "write", Place, TRUE)
       \o On("HostWrite" \notin caps /\ write, "write", Under("workspace"), TRUE)
       \o On(write /\ linked, "read", {"git"}, TRUE)
       \o On(write /\ linked, "write", {"git"}, TRUE)
       \o Root("above") \o Root("elsewhere") \o Root("inside")

SeatbeltAllows(rules, op, place) ==
    LET matching == {i \in DOMAIN rules : rules[i].op = op /\ place \in rules[i].on}
    IN /\ matching # {}
       /\ rules[CHOOSE i \in matching : \A j \in matching : j <= i].allow

SeatbeltAccess(rules, place) ==
    IF SeatbeltAllows(rules, "write", place) THEN "write"
    ELSE IF SeatbeltAllows(rules, "read", place) THEN "read" ELSE "none"

----------------------------------------------------------------------------
\* The session.

NoProfile == {}
NoPrep == [step |-> "none", workspace |-> "none", taken |-> {}, previous |-> <<>>]
NoScript == [step |-> "none", asked |-> {}, shown |-> {}, effective |-> {},
             by |-> {}, workspace |-> "none", approved |-> FALSE]

Init ==
    /\ files = [l \in Layers |-> <<>>]
    /\ \E w \in Workspaces : row = [workspace |-> w, profile |-> "coding"]
    /\ state = [active |-> row.workspace, pending |-> <<>>, profile |-> NoProfile]
    /\ prep = NoPrep /\ script = NoScript
    /\ changes = 0 /\ scripts = 0

TurnActive == state.profile # NoProfile

(* Mutant: the runtime state follows the row during a turn too. *)
RuntimeStateFollowing(s, w) == [s EXCEPT !.active = w]

(* with_runtime_state: outside a turn the state follows the stored row. *)
RuntimeState(s, w) ==
    IF s.profile # NoProfile THEN s
    ELSE [s EXCEPT !.active = w,
                   !.pending = IF s.pending \in {<<>>, <<w>>} THEN s.pending ELSE <<>>]

(* resolve_selected_profile: the selected profile, tagged with the         *)
(* workspace it was resolved for; empty when it is not to be had.          *)
Selected(r) ==
    {[of |-> r.workspace, profile |-> p] : p \in Named(r.profile, Profiles(r.workspace))}

Change == changes < MaxChanges /\ changes' = changes + 1

(* The user edits one of the files, at any time. *)
EditFile(l, f) ==
    /\ Change
    /\ files[l] # f /\ files' = [files EXCEPT ![l] = f]
    /\ UNCHANGED <<row, state, prep, script, scripts>>

(* set_workspace_dir: stored at once, taken over by the next turn. *)
SetWorkspaceDir(w) ==
    /\ Change
    /\ row' = [row EXCEPT !.workspace = w]
    /\ state' = [RuntimeState(state, w) EXCEPT !.pending = <<w>>]
    /\ UNCHANGED <<files, prep, script, scripts>>

(* set_session_profile: refused during a turn and for an unknown profile. *)
SetSessionProfile(id) ==
    /\ Change
    /\ ~TurnActive
    /\ Named(id, Profiles(row.workspace)) # {}
    /\ row' = [row EXCEPT !.profile = id]
    /\ UNCHANGED <<files, state, prep, script, scripts>>

(* prepare_claimed_messages_stream up to its await: the row is read and    *)
(* the profile resolved.                                                   *)
ReadSession ==
    /\ prep.step = "none" /\ ~TurnActive /\ script.step = "none"
    /\ scripts < MaxScripts
    /\ Selected(row) # {}
    /\ prep' = [NoPrep EXCEPT !.step = "read", !.workspace = row.workspace,
                              !.taken = Selected(row)]
    /\ UNCHANGED <<files, row, state, script, changes, scripts>>

(* After it: the turn takes the profile and the workspace it was read with. *)
Activate ==
    /\ prep.step = "read"
    /\ LET s == RuntimeState(state, prep.workspace)
       IN /\ prep' = [prep EXCEPT !.step = "active", !.previous = <<s>>]
          /\ state' = [s EXCEPT !.active = IF s.pending # <<>> THEN s.pending[1] ELSE @,
                                !.pending = <<>>, !.profile = prep.taken]
    /\ UNCHANGED <<files, row, script, changes, scripts>>

(* The request is built, or the preparation fails and puts the state back. *)
Prepared ==
    /\ prep.step = "active" /\ prep' = NoPrep
    /\ UNCHANGED <<files, row, state, script, changes, scripts>>

PrepareFails ==
    /\ prep.step = "active"
    /\ prep' = NoPrep /\ state' = prep.previous[1]
    /\ UNCHANGED <<files, row, script, changes, scripts>>

(* prepare_or_execute_script: the response's script, resolved against the  *)
(* turn's profile; refused, put to the user, or started.                   *)
PrepareScript(names) ==
    /\ TurnActive /\ prep.step = "none" /\ script.step = "none"
    /\ scripts < MaxScripts /\ scripts' = scripts + 1
    /\ LET taken == CHOOSE t \in state.profile : TRUE
           asked == Requested(names)
           added == Additions(taken.profile.caps, asked)
           verdict == Verdict(taken.profile, added)
       IN script' = [step |-> CASE verdict = "Deny" -> "denied"
                                [] verdict = "Prompt" -> "waiting"
                                [] OTHER -> "started",
                     asked |-> names, shown |-> added,
                     effective |-> Effective(taken.profile, asked),
                     by |-> state.profile, workspace |-> state.active,
                     approved |-> FALSE]
    /\ UNCHANGED <<files, row, state, prep, changes>>

(* Mutant: approving resolves the request again, with today's files. *)
ApprovedResolvedAgain(s) ==
    LET now == Selected(row)
    IN [s EXCEPT !.step = "started", !.approved = TRUE,
          !.effective = IF now = {} THEN @
                        ELSE Closure((CHOOSE t \in now : TRUE).profile.caps
                                        \cup Requested(s.asked))]

(* The request as it was prepared and shown. *)
Approved(s) == [s EXCEPT !.step = "started", !.approved = TRUE]

(* approve, deny: of the script that is waiting. *)
Approve ==
    /\ script.step = "waiting"
    /\ script' = Approved(script)
    /\ UNCHANGED <<files, row, state, prep, changes, scripts>>

Deny ==
    /\ script.step = "waiting"
    /\ script' = [script EXCEPT !.step = "denied"]
    /\ UNCHANGED <<files, row, state, prep, changes, scripts>>

(* execute_prepared_script: the plan runs with the recorded capabilities,  *)
(* or prepare_command refuses it.                                          *)
Launch ==
    /\ script.step = "started"
    /\ script' = [script EXCEPT !.step =
                     IF PlanValid(script.effective) THEN "running" ELSE "refused"]
    /\ UNCHANGED <<files, row, state, prep, changes, scripts>>

(* finalize_script_turn and continue_turn: the next response of the turn,  *)
(* if the selected profile can still be resolved.                          *)
ScriptOver ==
    /\ script.step \in {"running", "denied", "refused"}
    /\ script' = NoScript
    /\ state' = IF Selected(row) = {} THEN [state EXCEPT !.profile = NoProfile]
                ELSE RuntimeState(state, row.workspace)
    /\ UNCHANGED <<files, row, prep, changes, scripts>>

(* clear_active_turn. *)
EndTurn ==
    /\ TurnActive /\ prep.step = "none" /\ script.step = "none"
    /\ state' = [state EXCEPT !.profile = NoProfile]
    /\ UNCHANGED <<files, row, prep, script, changes, scripts>>

(* The process is restarted; a script it was at is given up, and           *)
(* prepare_script_recovery lets the turn go on with the profile as it now is. *)
Restart ==
    /\ Change
    /\ prep' = NoPrep /\ script' = NoScript
    /\ state' = [active |-> row.workspace, pending |-> <<>>,
                 profile |-> IF script.step = "none" THEN NoProfile ELSE Selected(row)]
    /\ UNCHANGED <<files, row, scripts>>

Next ==
    \/ \E l \in Layers, f \in Files : EditFile(l, f)
    \/ \E w \in Workspaces : SetWorkspaceDir(w)
    \/ \E id \in {"coding", "coding-no-sandbox", "own"} : SetSessionProfile(id)
    \/ ReadSession \/ Activate \/ Prepared \/ PrepareFails
    \/ \E names \in Requests : PrepareScript(names)
    \/ Approve \/ Deny \/ Launch \/ ScriptOver \/ EndTurn \/ Restart

Spec == Init /\ [][Next]_vars

----------------------------------------------------------------------------
\* Properties.

(* Every variable holds what its comment says. *)
PermissionsTypeOK ==
    /\ files \in [Layers -> Files \cup {<<>>}]
    /\ row.workspace \in Workspaces
    /\ state.active \in Workspaces
    /\ prep.step \in {"none", "read", "active"}
    /\ script.step \in {"none", "waiting", "denied", "started", "running", "refused"}
    /\ script.effective \subseteq Capability
    /\ changes \in 0..MaxChanges /\ scripts \in 0..MaxScripts

(* A script never runs with a capability that neither its turn's profile   *)
(* grants, nor its rules allow, nor the user approved having been shown    *)
(* it, whatever was edited, moved or restarted in between; and leaving the *)
(* sandbox is always decided as such (policy.rs, scripts.rs).              *)
NothingUngranted ==
    script.step \in {"started", "running"} =>
        \A t \in script.by :
            LET gained == IF "NoSandbox" \in script.effective \ t.profile.caps
                          THEN {"NoSandbox"} ELSE script.effective \ t.profile.caps
            IN \A k \in gained :
                /\ Ruled(t.profile, k) # "Deny"
                /\ Ruled(t.profile, k) = "Prompt"
                       => script.approved /\ k \in script.shown

(* A turn's profile is the one of the workspace its scripts run in, though *)
(* the session may be moved while it is prepared or running (sessions.rs,  *)
(* intercepted.rs, stream_requests.rs).                                    *)
ProfileOfItsWorkspace ==
    \A t \in state.profile : t.of = state.active

(* A profile that starts Nushell with the user's files can read them, by   *)
(* whatever chain of layers it came about (profiles/mod.rs).               *)
StartupReadable ==
    \A w \in Workspaces : \A p \in Profiles(w) :
        p.startup = "inherit" => Contains(p.caps, "HostRead")

(* The sandbox gives a script the access its capabilities name, no more    *)
(* and no less, with every arrangement of runtime roots, and bubblewrap    *)
(* and Seatbelt agree on it (bubblewrap.rs, macos/profile.rs).             *)
AccessAsGranted ==
    (script.step = "running" /\ "NoSandbox" \notin script.effective) =>
        \A roots \in SUBSET Roots, linked \in BOOLEAN :
            LET caps == script.effective
                mounts == Mounts(caps, roots, linked)
                rules == SeatbeltRules(caps, roots, linked)
            IN /\ \A place \in Place :
                    MountAccess(mounts, place) = SeatbeltAccess(rules, place)
               /\ \A place \in {"workspace", "inside"} :
                    MountAccess(mounts, place)
                        = IF "WorkspaceWrite" \in caps THEN "write" ELSE "read"
               /\ MountAccess(mounts, "host")
                    = (CASE "HostWrite" \in caps -> "write"
                         [] "HostWrite" \notin caps /\ "HostRead" \in caps -> "read"
                         [] OTHER -> "none")
               /\ linked => (MountAccess(mounts, "git") = "write"
                                <=> "WorkspaceWrite" \in caps)
               /\ \A r \in roots \ {"inside"} : MountAccess(mounts, r) = "read"
=============================================================================
