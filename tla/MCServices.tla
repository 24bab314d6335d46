----------------------------- MODULE MCServices -----------------------------
(***************************************************************************)
(* The services a turn depends on, in one run: the Codex credentials       *)
(* (CodexAuth), the sending of requests (ProviderSend), MCP credentials    *)
(* and connections (McpCredentials, McpServer), which this module extends; *)
(* the reader of a response (ResponseReader), the decoder of a provider's  *)
(* frames (ProviderStream), the script host (ScriptHost) and its output    *)
(* (HostOutput), which are instances.                                      *)
(*                                                                         *)
(* A behaviour runs the component that `part` names, in the variables x1,  *)
(* x2, ... that stand for the component's own.                             *)
(***************************************************************************)
EXTENDS CodexAuth, McpCredentials, McpServer, ProviderSend, TLC

(* Processes, runtimes, tasks and call ids are each interchangeable, and no behaviour has two of
   these: one set of model values stands for them all. *)
Symmetry == Permutations(Procs)

VARIABLE part \* the component that runs in this behaviour
VARIABLES
    x1, x2, x3, x4, x5, x6, x7, x8, x9, x10, x11, x12, x13, x14, x15, x16

Reader == INSTANCE ResponseReader WITH
    MaxReissues <- 1, MaxTries <- 2, MaxPieces <- 2,
    reader <- x1, http <- x2, mailbox <- x3, message <- x4, usage <- x5, job <- x6,
    owned <- x7, charged <- x8

Frames == INSTANCE ProviderStream WITH
    Ids <- Procs, MaxFrames <- 4, Capacity <- 1,
    kind <- x1, sent <- x2, wire <- x3, line <- x4, event <- x5, queue <- x6, body <- x7,
    pending <- x8, failure <- x9, finished <- x10, calls <- x11, reason <- x12,
    called <- x13, out <- x14

Host == INSTANCE ScriptHost WITH
    MaxChunks <- 2, MaxCalls <- 2,
    leader <- x1, helpers <- x2, started <- x3, written <- x4, captured <- x5, waiter <- x6,
    termination <- x7, channel <- x8, calls <- x9, commit <- x10, clock <- x11,
    cancelled <- x12, hostStop <- x13, exec <- x14, outcome <- x15, settled <- x16

Output == INSTANCE HostOutput WITH
    MaxUnits <- 5, MaxBatch <- 2,
    produced <- x1, host <- x2, list <- x3, batch <- x4, flusher <- x5, frames <- x6,
    pipe <- x7, alive <- x8, ready <- x9, open <- x10, shown <- x11, parent <- x12,
    late <- x13

shared ==
    <<x1, x2, x3, x4, x5, x6, x7, x8, x9, x10, x11, x12, x13, x14, x15, x16>>
extended == <<vars, credentialsVars, serverVars, sendVars>>
allVars == <<part, extended, shared>>

(* A component with k variables leaves the others alone. *)
Zero16 == x16 = 0
Zero15 == x15 = 0 /\ Zero16
Zero14 == x14 = 0 /\ Zero15
Zero13 == x13 = 0 /\ Zero14
Zero12 == x12 = 0 /\ Zero13
Zero11 == x11 = 0 /\ Zero12
Zero10 == x10 = 0 /\ Zero11
Zero9 == x9 = 0 /\ Zero10
Zero8 == x8 = 0 /\ Zero9
Zero7 == x7 = 0 /\ Zero8
Zero6 == x6 = 0 /\ Zero7
Zero5 == x5 = 0 /\ Zero6
Zero4 == x4 = 0 /\ Zero5
Zero3 == x3 = 0 /\ Zero4
Zero2 == x2 = 0 /\ Zero3
Zero1 == x1 = 0 /\ Zero2

Same16 == UNCHANGED x16
Same15 == UNCHANGED x15 /\ Same16
Same14 == UNCHANGED x14 /\ Same15
Same13 == UNCHANGED x13 /\ Same14
Same12 == UNCHANGED x12 /\ Same13
Same11 == UNCHANGED x11 /\ Same12
Same10 == UNCHANGED x10 /\ Same11
Same9 == UNCHANGED x9 /\ Same10

(* The components that are extended keep their own variables; they stay in an initial state
   while another component runs. *)
Asleep == Init /\ file = NoAuth /\ McpInit /\ ServerInit /\ SendInit

SuiteInit ==
    \/ part = "codex" /\ Init /\ McpInit /\ ServerInit /\ SendInit /\ Zero1
    \/ part \in {"credentials", "server", "send"} /\ Asleep /\ Zero1
    \/ part = "reader" /\ Asleep /\ Reader!Init /\ Zero9
    \/ part = "stream" /\ Asleep /\ Frames!Init /\ Zero15
    \/ part = "host" /\ Asleep /\ Host!Init
    \/ part = "output" /\ Asleep /\ Output!Init /\ Zero14

CodexStep ==
    /\ part = "codex" /\ Next
    /\ UNCHANGED <<part, credentialsVars, serverVars, sendVars, shared>>
CredentialsStep ==
    /\ part = "credentials" /\ McpNext
    /\ UNCHANGED <<part, vars, serverVars, sendVars, shared>>
ServerStep ==
    /\ part = "server" /\ ServerNext
    /\ UNCHANGED <<part, vars, credentialsVars, sendVars, shared>>
SendStep ==
    /\ part = "send" /\ SendNext
    /\ UNCHANGED <<part, vars, credentialsVars, serverVars, shared>>

ReaderStep == part = "reader" /\ Reader!Next /\ UNCHANGED <<part, extended>> /\ Same9
FramesStep == part = "stream" /\ Frames!Next /\ UNCHANGED <<part, extended>> /\ Same15
HostStep == part = "host" /\ Host!Next /\ UNCHANGED <<part, extended>>
OutputStep == part = "output" /\ Output!Next /\ UNCHANGED <<part, extended>> /\ Same14

SuiteNext ==
    \/ CodexStep \/ CredentialsStep \/ ServerStep \/ SendStep \/ ReaderStep
    \/ FramesStep \/ HostStep \/ OutputStep

SuiteSpec == SuiteInit /\ [][SuiteNext]_allVars

-----------------------------------------------------------------------------
(* The state of every component is well typed. *)
SuiteTypeOK ==
    /\ part = "reader" => Reader!ReaderTypeOK
    /\ part = "stream" => Frames!StreamTypeOK
    /\ part = "host" => Host!HostTypeOK
    /\ part = "output" => Output!OutputTypeOK
    /\ CodexTypeOK /\ CredentialsTypeOK /\ ServerTypeOK /\ SendTypeOK

(* A response the reader hands on is that of one attempt, with every complete call kept and
   every attempt charged, whenever a stream breaks, is reissued or is stopped behind a call.
   The frames it is decoded from end in exactly one event and no call leaves the decoder in
   pieces, however the frames of several calls alternate and wherever the connection breaks.
   An execution of a script that returns leaves nothing running, reports what really happened
   with its effects settled, and always can return; what a killed host had written is shown in
   order, as far as the parent waited for its frames. *)
OutputIntact ==
    /\ part = "reader" => Reader!OneAttemptShown /\ Reader!CallsKept /\ Reader!AttemptsCounted
    /\ part = "stream" => Frames!EndsOnce /\ Frames!CallsWhole
    /\ part = "host" =>
          /\ Host!NothingLeftRunning /\ Host!OutcomeTrue
          /\ Host!EffectsSettled /\ Host!NeverStuck
    /\ part = "output" => Output!ShownInOrder /\ Output!KilledKeepsItems
=============================================================================
