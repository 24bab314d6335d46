------------------------------ MODULE MCClients -----------------------------
(***************************************************************************)
(* The actor of a session and what is around it, in one run: the actor     *)
(* without failures (SessionActor) and the sign-in to an MCP server        *)
(* (McpSignIn), which this module extends; and instances of the clients    *)
(* (ModelsShown, ChatView, Composer, SettingsEditor, AcpPrompt,            *)
(* AcpTransport, AcpSessions), what is stored (StoredRecords,              *)
(* WorkspaceFiles) and the evaluation harness (EvalRuns, EvalProxy).       *)
(*                                                                         *)
(* A behaviour runs the component that `part` names, in the variables x1,  *)
(* x2, ... that stand for the component's own.                             *)
(***************************************************************************)
EXTENDS SessionActor, McpSignIn, TLC

VARIABLE part \* the component that runs in this behaviour
VARIABLES
    x1, x2, x3, x4, x5, x6, x7, x8, x9, x10, x11, x12, x13, x14, x15

Shown == INSTANCE ModelsShown WITH
    MaxReloads <- 1, MaxChanges <- 3,
    manager <- x1, catalog <- x2, native <- x3, cache <- x4, reload <- x5, source <- x6,
    forwarder <- x7, unsaid <- x8, terminal <- x9, agent <- x10, session <- x11,
    handler <- x12, client <- x13, changes <- x14, watched <- x15

Acp == INSTANCE AcpPrompt WITH
    Cap <- 3, MaxChunks <- 2, MaxRestarts <- 1, MaxPrompts <- 1, MaxUpdates <- 1,
    live <- x1, spent <- x2, hub <- x3, prompt <- x4, out <- x5, client <- x6, ghost <- x7

Transport == INSTANCE AcpTransport WITH
    Loads <- {1, 2}, Limit <- 2, MaxReplay <- 2, MaxLive <- 1,
    bytes <- x1, frames <- x2, load <- x3, lives <- x4, line <- x5

Agent == INSTANCE AcpSessions WITH
    Models <- {1, 2}, Override <- {1}, Page <- 1, MaxRequests <- 3, MaxLoads <- 2,
    MaxPrompts <- 2, MaxAppends <- 3, MaxFaults <- 1,
    row <- x1, parents <- x2, stored <- x3, offered <- x4, overlays <- x5, alive <- x6,
    turn <- x7, server <- x8, create <- x9, load <- x10, config <- x11, prompt <- x12,
    counts <- x13, ghost <- x14

Eval == INSTANCE EvalRuns WITH
    Procs <- {"a", "b"}, Attempts <- {1}, Dates <- {1, 2}, Graders <- 2, MaxCommands <- 3,
    MaxFaults <- 2,
    today <- x1, folders <- x2, lock <- x3, final <- x4, staging <- x5, deps <- x6,
    job <- x7, summary <- x8, commands <- x9, faults <- x10, torn <- x11

Proxy == INSTANCE EvalProxy WITH
    Conns <- {1, 2}, MaxChunks <- 1, MaxUsage <- 1, MaxRequests <- 2, MaxFaults <- 1,
    phase <- x1, conn <- x2, count <- x3, started <- x4, metrics <- x5, log <- x6,
    report <- x7, faults <- x8

Disk == INSTANCE WorkspaceFiles WITH
    Writers <- {"a", "b"}, MaxEdits <- 2, MaxWrites <- 3,
    place <- x1, depth <- x2, kept <- x3, file <- x4, older <- x5, op <- x6, ready <- x7,
    acked <- x8, started <- x9

Editor == INSTANCE SettingsEditor WITH
    Ids <- {"p", "q"}, MaxEdits <- 2, MaxOpens <- 1, MaxReplies <- 1,
    draft <- x1, ui <- x2, lane <- x3, replies <- x4, file <- x5, auth <- x6, ghost <- x7,
    edits <- x8, opens <- x9

Chat == INSTANCE ChatView WITH
    Page <- 1, Widths <- {1, 2}, Height <- 2, MaxSize <- 1, MaxIds <- 3, MaxSends <- 2,
    MaxKeys <- 2, MaxFaults <- 1,
    talk <- x1, nextId <- x2, client <- x3, ui <- x4, cache <- x5, done <- x6, ghost <- x7

Records == INSTANCE StoredRecords WITH
    Procs <- {"a", "b"}, MaxMsgs <- 3, MaxWork <- 3,
    rows <- x1, records <- x2, extras <- x3, tokens <- x4, used <- x5, work <- x6,
    read <- x7, walk <- x8

Draft == INSTANCE Composer WITH
    Widths <- {1, 3}, MaxItems <- 4, MaxImages <- 2, MaxKeys <- 4,
    draft <- x1, browse <- x2, worker <- x3, editor <- x4, request <- x5, keys <- x6,
    doc <- x7

shared ==
    <<x1, x2, x3, x4, x5, x6, x7, x8, x9, x10, x11, x12, x13, x14, x15>>
extended == <<vars, signInVars>>
allVars == <<part, extended, shared>>

(* A component with k variables leaves the others alone. *)
Zero15 == x15 = 0
Zero14 == x14 = 0 /\ Zero15
Zero13 == x13 = 0 /\ Zero14
Zero12 == x12 = 0 /\ Zero13
Zero11 == x11 = 0 /\ Zero12
Zero10 == x10 = 0 /\ Zero11
Zero9 == x9 = 0 /\ Zero10
Zero8 == x8 = 0 /\ Zero9
Zero7 == x7 = 0 /\ Zero8
Zero6 == x6 = 0 /\ Zero7
Zero5 == x5 = 0 /\ Zero6
Zero4 == x4 = 0 /\ Zero5
Zero3 == x3 = 0 /\ Zero4
Zero2 == x2 = 0 /\ Zero3
Zero1 == x1 = 0 /\ Zero2

Same15 == UNCHANGED x15
Same14 == UNCHANGED x14 /\ Same15
Same13 == UNCHANGED x13 /\ Same14
Same12 == UNCHANGED x12 /\ Same13
Same11 == UNCHANGED x11 /\ Same12
Same10 == UNCHANGED x10 /\ Same11
Same9 == UNCHANGED x9 /\ Same10
Same8 == UNCHANGED x8 /\ Same9
Same7 == UNCHANGED x7 /\ Same8
Same6 == UNCHANGED x6 /\ Same7

(* The components that are extended keep their own variables; they stay in an initial state
   while another component runs. *)
Asleep == Init /\ SignInInit

SuiteInit ==
    \/ part \in {"actor", "signIn"} /\ Asleep /\ Zero1
    \/ part = "models" /\ Asleep /\ Shown!Init
    \/ part = "acpPrompt" /\ Asleep /\ Acp!Init /\ Zero8
    \/ part = "acpTransport" /\ Asleep /\ Transport!Init /\ Zero6
    \/ part = "acpSessions" /\ Asleep /\ Agent!Init /\ Zero15
    \/ part = "evalRuns" /\ Asleep /\ Eval!Init /\ Zero12
    \/ part = "evalProxy" /\ Asleep /\ Proxy!Init /\ Zero9
    \/ part = "files" /\ Asleep /\ Disk!Init /\ Zero10
    \/ part = "editor" /\ Asleep /\ Editor!Init /\ Zero10
    \/ part = "chat" /\ Asleep /\ Chat!Init /\ Zero8
    \/ part = "stored" /\ Asleep /\ Records!Init /\ Zero9
    \/ part = "composer" /\ Asleep /\ Draft!Init /\ Zero8

ActorStep ==
    /\ part = "actor" /\ Next
    /\ UNCHANGED <<part, signInVars, shared>>
SignInStep ==
    /\ part = "signIn" /\ SignInNext
    /\ UNCHANGED <<part, vars, shared>>

ShownStep == part = "models" /\ Shown!Next /\ UNCHANGED <<part, extended>>
AcpStep == part = "acpPrompt" /\ Acp!Next /\ UNCHANGED <<part, extended>> /\ Same8
TransportStep == part = "acpTransport" /\ Transport!Next /\ UNCHANGED <<part, extended>> /\ Same6
AgentStep == part = "acpSessions" /\ Agent!Next /\ UNCHANGED <<part, extended>> /\ Same15
EvalStep == part = "evalRuns" /\ Eval!Next /\ UNCHANGED <<part, extended>> /\ Same12
ProxyStep == part = "evalProxy" /\ Proxy!Next /\ UNCHANGED <<part, extended>> /\ Same9
DiskStep == part = "files" /\ Disk!Next /\ UNCHANGED <<part, extended>> /\ Same10
EditorStep == part = "editor" /\ Editor!Next /\ UNCHANGED <<part, extended>> /\ Same10
ChatStep == part = "chat" /\ Chat!Next /\ UNCHANGED <<part, extended>> /\ Same8
RecordsStep == part = "stored" /\ Records!Next /\ UNCHANGED <<part, extended>> /\ Same9
DraftStep == part = "composer" /\ Draft!Next /\ UNCHANGED <<part, extended>> /\ Same8

SuiteNext ==
    \/ ActorStep \/ SignInStep \/ ShownStep \/ AcpStep \/ TransportStep
    \/ AgentStep \/ EvalStep \/ ProxyStep \/ DiskStep \/ EditorStep
    \/ ChatStep \/ RecordsStep \/ DraftStep

SuiteSpec == SuiteInit /\ [][SuiteNext]_allVars

-----------------------------------------------------------------------------
(* The state of every component is well typed; that of the actor is checked with its faults. *)
SuiteTypeOK ==
    /\ SignInTypeOK
    /\ part = "models" => Shown!ShownTypeOK
    /\ part = "acpPrompt" => Acp!AcpTypeOK
    /\ part = "acpTransport" => Transport!TransportTypeOK
    /\ part = "acpSessions" => Agent!AcpSessionsTypeOK
    /\ part = "evalRuns" => Eval!EvalTypeOK
    /\ part = "evalProxy" => Proxy!ProxyTypeOK
    /\ part = "files" => Disk!FilesTypeOK
    /\ part = "editor" => Editor!EditorTypeOK
    /\ part = "chat" => Chat!ChatTypeOK
    /\ part = "stored" => Records!RecordsTypeOK
    /\ part = "composer" => Draft!ComposerTypeOK

(* The ACP agent: text is sent once and completely, calls are paired with their results and
   nothing is left running behind an answered prompt; a replay that waits for room is woken and
   holds its room until it is sent; a loaded session is replayed whole with its own servers and
   chosen model, and a cancellation reaches the prompt it was sent for. *)
AcpSound ==
    /\ part = "acpPrompt" =>
          /\ Acp!TextOnce /\ Acp!AnswerComplete
          /\ Acp!CallsPaired /\ Acp!NothingLeft
    /\ part = "acpTransport" => Transport!ReplayWoken /\ Transport!ReservedIsQueued
    /\ part = "acpSessions" =>
          /\ Agent!ReplayWhole /\ Agent!ServersSound /\ Agent!ChosenModelKept
          /\ Agent!NoHalfSession /\ Agent!CancelReaches

(* The terminal: lists of models settle on the runtime's; what is on the screen is the current
   transcript, whole, with a sent message echoed until it is stored; the draft is what was
   written; settings that were saved are shown, and a deletion hits what was armed. *)
TerminalSound ==
    /\ part = "models" => Shown!TerminalSettles /\ Shown!ClientSettles
    /\ part = "chat" => Chat!ScreenIsCurrent /\ Chat!TranscriptWhole /\ Chat!EchoUntilStored
    /\ part = "composer" =>
          Draft!DraftIsWhatWasWritten /\ Draft!LoadingImageFinishes /\ Draft!EveryCursorOnALine
    /\ part = "editor" =>
          /\ Editor!NoOrphans /\ Editor!SavedIsShown
          /\ Editor!DeletesWhatWasArmed /\ Editor!StatusSettles

(* The evaluation harness: a staged attempt is kept, grades are of what the agent left, the
   summary counts every attempt once and a rerun resumes; the proxy records every request with
   its usage and never claims a context it did not see. *)
EvaluationSound ==
    /\ part = "evalRuns" =>
          /\ Eval!StagingKept /\ Eval!GradesTrue /\ Eval!SummaryComplete /\ Eval!RerunResumes
    /\ part = "evalProxy" =>
          Proxy!EveryRequestRecorded /\ Proxy!UsageComplete /\ Proxy!ContextHonest

(* What is kept: a file is never torn and a durable one survives a power loss, edits change the
   lines they name; a conversation that is read is that of one commit and a walk over many
   sessions misses none. *)
StorageSound ==
    /\ part = "files" => Disk!DurableSurvives /\ Disk!NeverTorn /\ Disk!EditsExact
    /\ part = "stored" => Records!ConversationOfOneCommit /\ Records!WalkIsWhole

(* Steps that may never be taken: a creation that replaces a file, an evaluated attempt that
   changes, a stored change that no reader's revision shows or that an owner holding an older
   history does not refuse. *)
NothingOverwritten ==
    [][/\ part = "files" => Disk!NothingReplaced
       /\ part = "evalRuns" => Eval!EvaluatedKept
       /\ part = "stored" => Records!ChangeMovesRevision /\ Records!HeldHistoryFenced]_allVars
=============================================================================
