------------------------------ MODULE MCScripts -----------------------------
(***************************************************************************)
(* The turn of a session and what it sends and may do, in one run: its     *)
(* scripts, their records and their recovery across processes (ScriptTurn) *)
(* and the turn lease on which the writes of all of it rest (TurnLease),   *)
(* both of which this module extends, the history as a request             *)
(* (RequestHistory), the warming of a provider's cache (CacheWarming), and *)
(* the permissions of a script (Permissions).                              *)
(*                                                                         *)
(* A behaviour runs the component that `part` names: ScriptTurn and        *)
(* TurnLease in variables of their own, which stay in their initial state  *)
(* while another one runs, the rest in the variables x1, x2, ...           *)
(***************************************************************************)
EXTENDS ScriptTurn, TurnLease, TLC

(* One set of processes stands for both modules', which are interchangeable. *)
Symmetry == Permutations(Runtimes \cup Processes)

(* Permissions: workspace profile files that extend a built-in profile, replace it, extend each
   other, or leave a field to what they extend, and the capabilities a script asks for. *)
Profile(id, extends, caps, rules, fallback, startup, rest) ==
    [id |-> id, extends |-> extends, caps |-> caps, rules |-> rules, fallback |-> fallback,
     startup |-> startup, rest |-> rest, sound |-> TRUE]
ProfileFiles == {
    <<Profile("own", <<"coding">>, <<{"WorkspaceWrite"}>>,
              <<{<<"HostWrite", "Deny">>, <<"HostRead", "Allow">>}>>, <<>>, <<"clean">>, <<>>)>>,
    <<Profile("coding", <<"coding">>, <<{"WorkspaceRead"}>>,
              <<{<<"Network", "Allow">>, <<"NoSandbox", "Deny">>}>>, <<>>, <<"clean">>, <<>>)>>,
    <<Profile("own", <<"coding">>, <<{"Network"}>>, <<>>, <<"Allow">>, <<>>, <<>>)>>,
    <<Profile("own", <<>>, <<{"HostWrite"}>>, <<>>, <<"Prompt">>, <<"inherit">>, <<"given">>),
      Profile("coding", <<"own">>, <<{"WorkspaceRead"}>>, <<>>, <<"Allow">>, <<"clean">>,
              <<"given">>)>>,
    <<Profile("own", <<>>, <<{"Network"}>>, <<{<<"WorkspaceWrite", "Deny">>}>>, <<"Allow">>,
              <<"clean">>, <<"given">>)>>}
ScriptRequests == {{}, {"Network"}, {"HostRead"}, {"HostWrite"}, {"Network", "WorkspaceWrite"},
                   {"NoSandbox"}, {"NoSandbox", "Network"}}

VARIABLE part \* the component that runs in this behaviour
VARIABLES
    x1, x2, x3, x4, x5, x6, x7

Warm == INSTANCE CacheWarming WITH
    MinBetween <- 2, Fallback <- 2, Samples <- 1, Refresh <- 2, KeepFor <- 2, MaxTime <- 3,
    MaxRequests <- 3, MaxMessages <- 3,
    clock <- x1, talk <- x2, table <- x3, old <- x4, work <- x5, since <- x6, hasty <- x7

Wire == INSTANCE RequestHistory WITH
    Window <- 8, MaxOutput <- 3, MaxImages <- 1, MaxItems <- 4, MaxParts <- 2,
    conv <- x1, details <- x2, pieces <- x3, request <- x4

Rights == INSTANCE Permissions WITH
    Files <- ProfileFiles, Requests <- ScriptRequests, Workspaces <- {"w1", "w2"},
    MaxChanges <- 2, MaxScripts <- 2,
    files <- x1, row <- x2, state <- x3, prep <- x4, script <- x5, changes <- x6,
    scripts <- x7

shared ==
    <<x1, x2, x3, x4, x5, x6, x7>>
allVars == <<part, vars, leaseVars, shared>>

(* A component with k variables leaves the others alone. *)
Zero7 == x7 = 0
Zero6 == x6 = 0 /\ Zero7
Zero5 == x5 = 0 /\ Zero6
Zero4 == x4 = 0 /\ Zero5
Zero3 == x3 = 0 /\ Zero4
Zero2 == x2 = 0 /\ Zero3
Zero1 == x1 = 0 /\ Zero2

Same7 == UNCHANGED x7
Same6 == UNCHANGED x6 /\ Same7
Same5 == UNCHANGED x5 /\ Same6

SuiteInit ==
    /\ Init /\ LeaseInit
    /\ \/ part \in {"script", "lease"} /\ Zero1
       \/ part = "warming" /\ Warm!Init
       \/ part = "wire" /\ Wire!Init /\ Zero5
       \/ part = "permissions" /\ Rights!Init

ScriptStep == part = "script" /\ Next /\ UNCHANGED <<part, leaseVars, shared>>
LeaseStep == part = "lease" /\ LeaseNext /\ UNCHANGED <<part, vars, shared>>

WarmStep == part = "warming" /\ Warm!Next /\ UNCHANGED <<part, vars, leaseVars>>
WireStep == part = "wire" /\ Wire!Next /\ UNCHANGED <<part, vars, leaseVars>> /\ Same5
RightsStep == part = "permissions" /\ Rights!Next /\ UNCHANGED <<part, vars, leaseVars>>

SuiteNext ==
    \/ ScriptStep \/ LeaseStep \/ WarmStep \/ WireStep \/ RightsStep

SuiteSpec == SuiteInit /\ [][SuiteNext]_allVars

-----------------------------------------------------------------------------
(* The state of every component is well typed. *)
SuiteTypeOK ==
    /\ part = "script" => TypeOK
    /\ part = "lease" => LeaseTypeOK
    /\ part = "wire" => Wire!RequestTypeOK
    /\ part = "warming" => Warm!WarmTypeOK
    /\ part = "permissions" => Rights!PermissionsTypeOK

(* What is sent: a request loses nothing of the history, answers every call and fits the model;
   a cache warm-up is in flight only for a live conversation, spaced, and its usage is kept. *)
RequestsSound ==
    /\ part = "wire" => Wire!NothingLost /\ Wire!CallsAnswered /\ Wire!FitsTheModel
    /\ part = "warming" =>
          /\ Warm!FlightIsReal /\ Warm!GrowthOfThisConversation
          /\ Warm!UsageReachesTable /\ Warm!WarmupsSpaced

(* A script is never run with more than the profile of its workspace grants or the user approved,
   reads the startup files it was promised, and the sandbox opens what was granted. *)
PermissionsSound ==
    part = "permissions" =>
        /\ Rights!NothingUngranted /\ Rights!ProfileOfItsWorkspace
        /\ Rights!StartupReadable /\ Rights!AccessAsGranted
=============================================================================
