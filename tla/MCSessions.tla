----------------------------- MODULE MCSessions -----------------------------
(***************************************************************************)
(* The state of a conversation and what its clients see of it, in one run: *)
(* the shared model list (ModelLists), the stored history (Conversation)   *)
(* and the durable deltas of a response (StreamDeltas), which this module  *)
(* extends; the view of a client (ClientView), the session observer        *)
(* (SessionObserver), the sending of messages (Submission), the choice of  *)
(* a model (ModelChoice), the context of a request (ModelContext), the     *)
(* runtime's handle (RuntimeHost) and the headless client (HeadlessRun),   *)
(* which are instances.                                                    *)
(*                                                                         *)
(* The components share nothing here: a behaviour runs the one that `part` *)
(* names, in the variables x1, x2, ... that stand for the component's own, *)
(* and leaves the rest alone.  Every component is checked on its whole     *)
(* state space; that they run beside each other would add nothing.         *)
(***************************************************************************)
EXTENDS ModelLists, Conversation, StreamDeltas, TLC

(* The processes that share a model list, and the sources of one, are interchangeable; no other
   component has either. *)
Symmetry == Permutations(Runtimes) \cup Permutations(Sources)

VARIABLE part \* the component that runs in this behaviour
VARIABLES
    x1, x2, x3, x4, x5, x6, x7, x8, x9, x10, x11, x12, x13, x14, x15

View == INSTANCE ClientView WITH
    Msgs <- {1}, Cap <- 3, MaxChunks <- 2, MaxUsage <- 1, MaxAsks <- 1,
    live <- x1, stage <- x2, chunks <- x3, usages <- x4, hub <- x5, asks <- x6,
    replies <- x7, view <- x8, cursor <- x9, missed <- x10

Observer == INSTANCE SessionObserver WITH
    MaxRevision <- 4, MaxEvents <- 4,
    row <- x1, watch <- x2, observed <- x3, feed <- x4, capture <- x5, shown <- x6

Submit == INSTANCE Submission WITH
    Texts <- {"a", "b"}, MaxSessions <- 2, MaxNumbers <- 2, MaxQueue <- 2,
    draft <- x1, current <- x2, submit <- x3, sent <- x4, failed <- x5, load <- x6,
    outbox <- x7, inbox <- x8, sessions <- x9, accepted <- x10, wire <- x11, unseen <- x12,
    dropped <- x13

Choice == INSTANCE ModelChoice WITH
    Models <- {"x", "y"}, NoModel <- "none", MaxChoices <- 1, MaxSends <- 1,
    MaxElsewhere <- 1, MaxLeaves <- 1,
    save <- x1, picker <- x2, active <- x3, posted <- x4, calls <- x5, answers <- x6,
    events <- x7, seen <- x8, saver <- x9, store <- x10, spent <- x11, choice <- x12

Context == INSTANCE ModelContext WITH
    Files <- {"f", "g"}, Models <- {"x", "y"}, Native <- {"x"}, Budget <- 1,
    MaxMessages <- 4, MaxEvents <- 2, MaxEdits <- 1,
    history <- x1, nextId <- x2, model <- x3, disk <- x4, section <- x5, edits <- x6,
    pins <- x7, events <- x8, snapshots <- x9, instruction <- x10, checkpoints <- x11,
    turn <- x12, covered <- x13, request <- x14, steady <- x15

Runtime == INSTANCE RuntimeHost WITH
    Callers <- {"a", "b"}, Capacity <- 1, MaxVersions <- 2, MaxCalls <- 2,
    host <- x1, queue <- x2, call <- x3, stop <- x4, dropped <- x5, tasks <- x6, conf <- x7,
    work <- x8, calls <- x9

Headless == INSTANCE HeadlessRun WITH
    Capacity <- 2, MaxReplies <- 2, MaxPieces <- 1, MaxFaults <- 1, MaxTime <- 1,
    activity <- x1, history <- x2, channel <- x3, timer <- x4, now <- x5, runner <- x6,
    faults <- x7, worked <- x8, said <- x9

shared ==
    <<x1, x2, x3, x4, x5, x6, x7, x8, x9, x10, x11, x12, x13, x14, x15>>
extended == <<vars, conversationVars, deltasVars>>
allVars == <<part, extended, shared>>

(* A component with k variables leaves the others alone. *)
Zero15 == x15 = 0
Zero14 == x14 = 0 /\ Zero15
Zero13 == x13 = 0 /\ Zero14
Zero12 == x12 = 0 /\ Zero13
Zero11 == x11 = 0 /\ Zero12
Zero10 == x10 = 0 /\ Zero11
Zero9 == x9 = 0 /\ Zero10
Zero8 == x8 = 0 /\ Zero9
Zero7 == x7 = 0 /\ Zero8
Zero6 == x6 = 0 /\ Zero7
Zero5 == x5 = 0 /\ Zero6
Zero4 == x4 = 0 /\ Zero5
Zero3 == x3 = 0 /\ Zero4
Zero2 == x2 = 0 /\ Zero3
Zero1 == x1 = 0 /\ Zero2

Same15 == UNCHANGED x15
Same14 == UNCHANGED x14 /\ Same15
Same13 == UNCHANGED x13 /\ Same14
Same12 == UNCHANGED x12 /\ Same13
Same11 == UNCHANGED x11 /\ Same12
Same10 == UNCHANGED x10 /\ Same11
Same9 == UNCHANGED x9 /\ Same10
Same8 == UNCHANGED x8 /\ Same9
Same7 == UNCHANGED x7 /\ Same8

(* The components that are extended keep their own variables; they stay in an initial state
   while another component runs. *)
Asleep ==
    /\ Init /\ \E s \in Sources : source = [r \in Runtimes |-> s]
    /\ TalkInit /\ DeltasInit

SuiteInit ==
    \/ part = "lists" /\ Init /\ TalkInit /\ DeltasInit /\ Zero1
    \/ part \in {"conversation", "deltas"} /\ Asleep /\ Zero1
    \/ part = "view" /\ Asleep /\ View!Init /\ Zero11
    \/ part = "observer" /\ Asleep /\ Observer!Init /\ Zero7
    \/ part = "submission" /\ Asleep /\ Submit!Init /\ Zero14
    \/ part = "choice" /\ Asleep /\ Choice!Init /\ Zero13
    \/ part = "context" /\ Asleep /\ Context!Init
    \/ part = "runtime" /\ Asleep /\ Runtime!Init /\ Zero10
    \/ part = "headless" /\ Asleep /\ Headless!Init /\ Zero10

ListsStep ==
    /\ part = "lists" /\ Next
    /\ UNCHANGED <<part, conversationVars, deltasVars, shared>>
ConversationStep ==
    /\ part = "conversation" /\ TalkNext
    /\ UNCHANGED <<part, vars, deltasVars, shared>>
DeltasStep ==
    /\ part = "deltas" /\ DeltasNext
    /\ UNCHANGED <<part, vars, conversationVars, shared>>

ViewStep == part = "view" /\ View!Next /\ UNCHANGED <<part, extended>> /\ Same11
ObserverStep == part = "observer" /\ Observer!Next /\ UNCHANGED <<part, extended>> /\ Same7
SubmitStep == part = "submission" /\ Submit!Next /\ UNCHANGED <<part, extended>> /\ Same14
ChoiceStep == part = "choice" /\ Choice!Next /\ UNCHANGED <<part, extended>> /\ Same13
ContextStep == part = "context" /\ Context!Next /\ UNCHANGED <<part, extended>>
RuntimeStep == part = "runtime" /\ Runtime!Next /\ UNCHANGED <<part, extended>> /\ Same10
HeadlessStep == part = "headless" /\ Headless!Next /\ UNCHANGED <<part, extended>> /\ Same10

SuiteNext ==
    \/ ListsStep \/ ConversationStep \/ DeltasStep \/ ViewStep \/ ObserverStep
    \/ SubmitStep \/ ChoiceStep \/ ContextStep \/ RuntimeStep \/ HeadlessStep

SuiteSpec == SuiteInit /\ [][SuiteNext]_allVars

-----------------------------------------------------------------------------
(* The state of every component is well typed. *)
SuiteTypeOK ==
    /\ TypeOK /\ ConversationTypeOK /\ DeltasTypeOK
    /\ part = "view" => View!TypeOK
    /\ part = "observer" => Observer!TypeOK
    /\ part = "submission" => Submit!SubmissionTypeOK
    /\ part = "choice" => Choice!ChoiceTypeOK
    /\ part = "context" => Context!ContextTypeOK
    /\ part = "runtime" => Runtime!HostTypeOK
    /\ part = "headless" => Headless!HeadlessTypeOK

(* What a client shows of a session becomes what the runtime holds, although events overtake
   snapshots and a slow receiver loses some: the text of a turn in order and once, the last
   revision of the session row, and the model the user chose last.  A message a user sent is
   accepted once, or is back where the user can send it again.

   Two cases are left out, because the terminal drops the snapshot it waits for and nothing asks
   for another: a snapshot overtaken by an event that asks for none (shown.dropped), and a loss
   of events followed by the straggling usage report of an auxiliary request (missed.late).  Of
   a session another process runs, only the revision is compared: its timer may be stale, which
   the run snapshot_timer shows. *)
ClientsFollow ==
    /\ part = "submission" => Submit!MessagesKept /\ Submit!MessagesOnce
    /\ part = "view" => View!SettledViewAgrees /\ View!TextInOrder
    /\ part = "observer" => Observer!LastRevisionShown
    /\ part = "choice" => Choice!OpenChoiceShown /\ Choice!ChoiceSettles

(* Every request holds the latest user message and each open file's content once, whatever
   was compacted, undone or edited between the turns. *)
RequestComplete == part = "context" => Context!FilesSentOnce /\ Context!LatestUserSent

(* Between ordinary turns a request repeats what it shares with the one before as its prefix,
   which is what a provider's prompt cache can reuse. *)
PrefixStable == [][part = "context" => Context!PrefixKept]_allVars

(* The runtime's handle and the headless client: every caller returns, a shutdown waits for what
   it started and tries to release what it holds, a failed start is reported and the last
   configuration is installed; a headless
   run loses no output silently, is never stranded, and its timer counts work only. *)
RuntimeSound ==
    /\ part = "runtime" =>
          /\ Runtime!CallersReturn /\ Runtime!ShutdownComplete
          /\ Runtime!StartupErrorReported /\ Runtime!ConfigurationInstalled
    /\ part = "headless" =>
          Headless!NoSilentLoss /\ Headless!NeverStranded /\ Headless!TimerCountsWork
=============================================================================
