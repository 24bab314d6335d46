# A TLA+ model of Kraai

Kraai is a coding agent. Any number of *processes* (terminals, ACP editors, headless runs)
open the same sessions through one SQLite database. A process that runs a session's *turn*
streams a model's response, runs the Nushell scripts the response calls, feeds their results
back and starts the next response, until the model answers without a script. This directory
models what of that is hard to test: who may run a turn, what of a response is durable at any
moment, what becomes of a script when processes die or are displaced, how the session actor
interleaves clients' requests with its tasks, how credentials, model lists and files are shared
between processes, and whether a client's view agrees with what is stored.

`PROJECT.json` maps the definitions to their source lines (a helper, or a step, that translates
lines which another entry of the map names has none of its own) and lists the components, the runs, the
mutants that show that each property can fail, the findings, the hazards and the theorems.

## 1. Inventory

### Persistence (`crates/kraai-persistence`)
*State*: SQLite tables for sessions (tip, title, lease columns, revision, timer), messages,
`stream_deltas`, `queued_messages`, script executions, context state, model lists, usage; an
in-memory `LeaseTokens` map per process; image files. *Operations*: `claim_turn_for`,
`renew_turn`, `release`, `owns_turn`; `append_stream_deltas`, `save`, `read_message`;
`append_message_idempotent`, `link_message_if_tip_matches`, `save_if_tip_matches`;
`enqueue_message`, `queued_messages`, `remove_queued_messages`; `create`,
`mark_awaiting_approval`, `mark_running`, `finish` of an execution; `claim`, `release`, `save`
of a model list. *Interaction*: every change of a session goes through `Database::transaction`,
which calls `assert_owner` with the token the process remembers. *Hard*: a lease is committed
before its token is remembered, tokens are read before the writer is waited for, a commit may be
reported as failed, processes die between any two transactions, a history is read in pages while
others change it. *Correct when*: at most one process can change a running session, what a
reader sees is a state that was really stored, a queued message is neither lost nor run twice.

### Agent (`crates/kraai-agent`)
*State*: `streaming_messages` (the response under construction with its pending deltas), the
set of active turns, provider manager, per-session MCP servers, context state, profiles.
*Operations*: the three `prepare_*_stream`, `append_text_chunk`, `append_item`,
`reset_streaming_message`, `complete_message`, `abort_streaming_message`,
`cancel_streaming_message`, `publish_streaming_snapshots`, `add_script_result_to_history`,
`answer_skipped_calls`, `recover_interrupted_session`, `undo_last_user_message`, compaction.
*Hard*: chunks arrive during a publication; a cancellation is several transactions; undo and
activation meet. *Correct when*: durable and live copies agree, every script call has one answer
in place, requests carry everything once and in order.

### Runtime (`crates/kraai-runtime`)
*State*: a registry of session actors; per actor a mailbox, a `TurnState` with a generation,
deferred requests and a stop flag; task trackers; an event hub with sequence numbers and timers;
observed sessions; settings; warm prefixes. *Operations*: the commands of `RuntimeHandle`, the
actor's handlers (`send`, `cancel`, `approve`, `deny`, `delete`, `undo`, `stop`, `prepared`,
`stream_event`, `stream_ended`, `script_ended`), the heartbeat, the 250 ms publisher and
observer, the recovery sweep, configuration reload, model list synchronisation. *Interaction*:
clients post to the actor's mailbox; the actor spawns tasks that report back with the generation
they were given; handlers call the agent, the agent the stores. *Hard*: reports that arrive
late, requests during exit, handlers that wait for tasks while the mailbox fills, two claims of
the same process, failures between two steps of a handler. *Correct when*: every request is
answered, no work runs that no actor knows of, an idle actor holds nothing, stop terminates.

### Scripts (`kraai-nushell-runtime`, `kraai-script-protocol`, `kraai-commands`, `kraai-sandbox`, `kraai-workspace-fs`, `kraai-io`)
*State*: the child process and its pipes, host calls in flight, state effects, capabilities
granted to an execution, files of the workspace. *Hard*: exit racing cancellation and timeout,
pipes kept open by descendants, a host killed between two frames, power loss between write and
rename. *Correct when*: an execution ends once with one true outcome, effects apply, no
capability appears that policy did not grant, a file is never torn.

### Providers (`crates/llm-providers`), MCP (`kraai-mcp`)
*State*: attempts and pauses, decoders, model catalogs, OAuth credentials in locked files, MCP
connections with generations. *Hard*: processes that refresh the same token, sign-out during a
refresh, reissued requests, a catalog listed over a replaced connection. *Correct when*: a
refresh token is spent once, a sign-out is final, a response is that of one attempt.

### Clients (`kraai-tui`, `kraai-acp`, `kraai-headless`, `kraai-runtime-node`)
*State*: a view of each session, built from a snapshot and the events behind it; text being
composed; settings being edited. *Hard*: a receiver that lags and resynchronises, answers that
arrive after the user moved on. *Correct when*: the view converges to the history, nothing
written is lost or sent twice.

### Evaluation (`kraai-eval`)
*State*: run directories with attempts, a proxy that counts requests. *Hard*: a command that
stops midway and is run again. *Correct when*: grades and summaries are those of the attempts.

## 2. The models

An action is one transaction, one access to shared memory or one handler without a wait in it,
so that everything the code permits in between can happen in between. Failures are actions of
their own, bounded by constants such as `MaxFaults`. Histories (ghost variables) are marked
where they are declared; they never guard an action of the system.

### Turns: leases, responses, scripts, the actor

| module | state and actions |
|---|---|
| `TurnOwnership` | abstract: a turn has one owner, in numbered epochs, and only the owner changes the session |
| `TurnLease` | one session row, the token table, and what each process has under way: a claim committed but not remembered, a renewal that has read its token, a cancellation the heartbeat has sent; `Suspend`, `Crash`, `Restart` and `Tick` come anywhere. `beat` and `prompt` tell a process on schedule from one that was suspended. Implements `TurnOwnership` with `owner <- Owner`, `epoch <- row.token` |
| `StreamDeltas` | one streaming response in memory and as durable deltas. A chunk of text is the number of the change it came with. Publishing is three actions, a cancellation four; provider events come between any two. `PublishFail` may follow a commit: the acknowledgement is lost |
| `ScriptTurn` | the shared history, the execution records and the actors of several processes; every transaction is an action, so a crash, an expiry and a claim by another process come between a saved response and its record, between a record and its outcome, between the outcome and its result |
| `SessionActor` | one process and one session: registry, mailbox, `TurnState`, tasks, queue. A handler is one action except where it waits for tasks (`wait.for = "join"`) or claims the lease (`"claim"`) |
| `ResponseReader` | opening, retries, reissues, compaction on overflow, the script boundary and its drain, usage, against the actor that applies the events |
| `CacheWarming` | the table of warm prefixes, a warm-up's flight, observed usage, eviction |
| `RuntimeHost` | start, the command channel, shutdown by any number of callers, startup errors, configuration reloads |

### Stored state

| module | state and actions |
|---|---|
| `Conversation` | messages with parents and references, linking against a tip, undo, deletion and clean-up, revisions of the settings |
| `StoredRecords` | read transactions and paged walks of the history against writers of other processes |
| `ModelContext` | instructions and files of a conversation, their anchors, what a compaction keeps, what a request is assembled from |
| `RequestHistory` | operators: the history as each provider receives it, trimmed to the model's context |
| `ModelLists` | one provider's row, shared by processes through claims: poll, read, claim, fetch, save, failed claims, crash |
| `ModelChoice`, `ModelsShown` | the model of a session as chosen, saved and shown; how new lists reach the clients |

### Services

| module | state and actions |
|---|---|
| `CodexAuth` | the credential file with its lock, refreshes, sign-ins by browser and device code, sign-out, over several processes |
| `McpCredentials`, `McpSignIn` | the credential file with its generations, sign-in, refresh, shutdown; a sign-in from the terminal |
| `McpServer` | a connection with its generations, its catalog and its calls |
| `ProviderSend`, `ProviderStream` | attempts, delays and shared pauses, refused reasoning; frames, events, tool calls |
| `ScriptHost`, `HostOutput` | the end of an execution by exit, timeout or cancellation with its descendants; what a killed host leaves of its output |
| `Permissions` | operators and one check per call: what it asks for, what its profile grants, what the sandbox then permits |
| `WorkspaceFiles` | creation, atomic replacement and exact edits by two writers, with power loss |

### Clients and evaluation

| module | state and actions |
|---|---|
| `ClientView`, `SessionObserver` | events numbered by the hub against snapshots, lagging receivers; sessions another process runs |
| `Submission`, `ChatView`, `Composer`, `SettingsEditor` | the terminal: sending and queueing, transcript and render cache, the text and images being composed, provider settings |
| `AcpPrompt`, `AcpTransport`, `AcpSessions` | the ACP agent: a prompt turn, the bounded output queue, creating and loading sessions |
| `HeadlessRun` | one run: events, lags, snapshots, time limit |
| `EvalRuns`, `EvalProxy` | attempts with staging, commit, grading and resumption; the accounting proxy |

## 3. The runs

A component that is small by itself is checked in a *suite*: an `MC` module whose variable
`part` names the component a behaviour runs, in the variables `x1`, `x2`, ... that stand for the
component's own (`INSTANCE ... WITH file <- x1`). No step changes `part`, so a suite is the
disjoint union of its components; the modules that a suite extends keep their own variables, and
their properties are checked under their own names (an idle component stays in its initial
state). The other properties of a suite are conjunctions of `part = ... => Component!Property`.

| run | instance | what it shows |
|---|---|---|
| `lease_safety` | `TurnLease`: 2 processes, 3 claims, lease of 3 ticks, heartbeat 1, 5 ticks | one owner; no late write, renewal or release hurts the next owner; a process on schedule is not displaced; refinement of `TurnOwnership` |
| `turns_liveness` | `MCTurns`: `StreamDeltas` and `TurnLease`, fair | every change is published or the stream ends, resent deltas agree with stored ones, a displaced process drops its token |
| `actor_faults` | `SessionActor`: 3 requests of any kind, 1 script call, 1 failing operation, fair | responders, jobs and tasks are never orphaned; what was answered as started is recorded; requests are answered, stop ends |
| `scripts` | `MCScripts`: `ScriptTurn` with 2 processes, 2 responses, 2 messages, 1 crash; `RequestHistory`, `CacheWarming`, `Permissions` | a script starts at most once and never after its answer; recorded calls are answered once and in place; requests fit the model; nothing ungranted |
| `sessions` | `MCSessions`: `ModelLists` with 2 processes, `Conversation`, `StreamDeltas`, and 7 more components | one fetcher; lists never go back; views follow; the conversation stays readable; requests carry everything once; a stored response is one it has been |
| `services` | `MCServices`: `CodexAuth` with 2 processes, `McpCredentials`, `McpServer`, `ProviderSend`, and 4 more | credentials are used once and sign-out is final; responses are those of one attempt; pauses are kept; nothing is left running |
| `clients` | `MCClients`: `SessionActor` with 4 requests and no failures, `McpSignIn`, and 11 more | queued messages are neither lost, doubled nor overtaken; a sign-in that is begun opens its page once, and the latest one; the ACP agent, the terminal, evaluation and files |
| `deltas_failed_cancel` | `StreamDeltas` with a failing cancellation | finding 1 |
| `script_unrecorded`, `script_buried` | `ScriptTurn` | findings 2 and 3 |
| `actor_lost_message` | `SessionActor`, 4 sends and cancellations | finding 4 |
| `eval_rerun` | `EvalRuns` | finding 5 |

*Bounds.* Every hazard listed needs at most two processes and one change of hands; three
claims let a lease be taken and returned, so stale renewals and releases meet a third turn.
Five ticks exceed a lease plus a heartbeat. Two responses suffice for a script, its recovery and
the response that follows it; the buried response needs three. Three requests are a turn,
something that ends it and something that arrives meanwhile; four let the queue be emptied and
filled again. Two ticks of `ModelLists` are a claim that runs out and a list that gets too old.
Queue numbers, generations and epochs are compared for equality and order only. The bounds of a
suite's components are the arguments of their INSTANCE; each is the smallest at which every
disjunct of the component's next-state relation is taken and every mutant is caught. The suites
do not check deadlock: their components rest once their bounds are spent. `TurnLease`,
`SessionActor` and `MCTurns` are checked for it.

*Fairness.* `TurnLease`: the heartbeat of a running process and the cancellation it sends are
scheduled (a tokio interval and an unbounded mailbox); claims, writes and time are not assumed.
`StreamDeltas`: the publisher runs every 250 ms (weak fairness of its steps), a database that is
asked again and again does not refuse forever (strong fairness of the commit), and a
cancellation goes on. `SessionActor`: the actor and its tasks are scheduled; a stream or a
script ends, which HTTP idle timeouts, script timeouts and cancellation enforce. Clients and
failures are never fair.

## 4. Findings

1. `deltas_failed_cancel`: a cancellation that fails after its first save leaves the pending
   deltas in memory although the saved message already contains them; the next publication
   stores them behind it and every reader applies them twice.
2. `script_unrecorded`: the response is complete before its execution record exists. A failure
   or crash in between leaves a call that nothing answers, and the next message follows it.
3. `script_buried`: a displaced process claims the session again for a message it queues, and
   its old stream then links a result behind the other process's unfinished response.
4. `actor_lost_message`: queue numbers restart after the queue is emptied, so a preparation
   deletes a message that was queued after it read the queue.
5. `eval_rerun`: removing a damaged attempt is not atomic; a command that stops while it removes
   one leaves a directory that later commands can neither resume nor replace.

The passing runs state next to each what does hold: the replayed response without the failing
cancellation, answers of the calls that have a record, the order of the conversation without a
displaced process, the queue as long as no number is used again, resumption otherwise.

### Smaller observations
The passing properties leave these cases out, each by a guard, a history or its wording where
the property is defined; none of them contradicts a statement of the repository.

- *Settings*: a model saved while a queued message is prepared is overwritten by the
  preparation's copy (`ModelChoice`); saving provider settings clears an editor opened meanwhile,
  and an edit made while a save is under way is shown as saved (`SettingsEditor`).
- *Conversation*: an undo that races the activation of a turn removes the response that
  streams (`Conversation`); a file anchored at a failed message moves to the front after a
  compaction (`ModelContext`); images between tool messages, a cut that leaves one oversized
  message and a text-only model are refused by the provider, not by the code (`RequestHistory`).
- *Usage*: attempts that break before their first event, and usage of an attempt whose retry is
  refused, are not counted (`ResponseReader`); the evaluation proxy does not count what was
  processed upstream behind a 502 (`EvalProxy`).
- *MCP*: a sign-in cancelled while its reset fails stays pending, a sign-out elsewhere is not
  shown, a failed new sign-in shows "signed out" although older credentials are valid
  (`McpCredentials`); a list read over a replaced connection is cached under the new
  generation, and an old failure hides a server for up to ten seconds (`McpServer`); a lagging
  terminal loses MCP statuses (`McpSignIn`).
- *Codex*: a page of an earlier attempt that calls a reused port fails the new attempt
  (`CodexAuth`).
- *Scripts*: a host killed between the end of a list and its marker loses the list
  (`HostOutput`); with the sandbox off only the no-sandbox rule is consulted, and the runtime's
  root stays read-only even where host writes are granted (`Permissions`).
- *Clients*: a lagging terminal misses a new model list until the next (`ModelsShown`); a
  missed restart splices the texts of two attempts in an ACP client (`AcpPrompt`); a failed
  session load leaves its new MCP servers installed, and `session/new` failing late leaves a
  stored session (`AcpSessions`); a headless run that lags during its first preparation ends
  early (`HeadlessRun`); a draft put aside for an image is discarded when the image fails
  (`Composer`); a message echoed but refused can stay on screen (`ChatView`).
- *Runtime*: a configuration changed between its first read and the start of the watcher is not
  seen; an unwatched responder dropped by a failing command leaves the caller with a generic
  error (`RuntimeHost`).
- *Files and evaluation*: another writer's change between read and rename is lost
  (`WorkspaceFiles`); an attempt refused at midnight is listed in two folders, a commit made by
  the agent leaves an empty diff (`EvalRuns`).

## 5. Proofs

The theorems hold for every set of processes, every bound and every number of changes. Each
specification assumes of its constants only what its `ASSUME` says. Every inductive invariant
was checked by TLC on the instance of its run before it was proved.

*TurnLease* (proofs in the module) assumes `NoOne \notin Runtimes` and `3 * Heartbeat <= LeaseDuration` (the
code has 5 s and 30 s). Three, because a renewal with an older token may be in flight when the
lease is claimed, the pass it cost is skipped, and the renewal of the lease itself takes up to
another heartbeat. `SingleOwner` is not inductive: it needs that the row carries the latest
claim and that whatever a process remembers, reads or is about to insert is a claim of its own
(`TokenInv`, over the history of claims). `ProcessInv` says that a process that is down
remembers nothing and that no renewal is in flight while a cancellation is pending.
`PromptOwnerKeepsLease` needs `TimingInv`, which bounds how far the clock may run ahead of the
last renewal of a lease its owner keeps, in each stage a renewal can be in. From their
conjunction with `TypeOK` follow `SingleOwner`, `WritesFenced`, `PromptOwnerKeepsLease`, the
action properties `OwnershipEndsByOwner` and `RenewedByOwner`, and the refinement
`ImplementsOwnership`, in which each action of `TurnLease` is shown to be a step of
`TurnOwnership` or a stutter.

*ModelListsProofs* assumes only that the lengths of time are natural numbers. `OneFetcher`
needs `ClaimInv`: a claim that has not run out is the one in the row, and at most one process
remembers one, be it in a fetch under way or in `failed_claims`; without the second half a
release could drop the claim of another process. The proof reduces every action to one of five
things a step may do to a claim. `FetchNeeded` and `InstalledMovesOn` need `FreshInv`: from the
decision to claim until the save, neither the list in use nor, before the claim, the stored
list that was seen is fresh at the time of the request. `StoredMovesOn` needs only the types.

*StreamDeltas* (proofs in the module) proves `TypeOK` and `ResendAgrees`. The inductive
invariant adds `BatchInv` (a batch in flight is the sealed prefix of the pending deltas) and
`SealInv` (no stored delta lies beyond the sealed ones, and those from `first` on equal the
pending ones): without them a chunk could be merged into a delta that has been stored.
It also proves `DeltasReplayed` (`ReplayIsRecorded` and `CompleteKeepsAll`) and the action
property `DurableMovesOn`, for a cancellation that fails before anything else was recorded
(`~CancelFaults`; finding 1 is what happens otherwise) and where `Unreadable` is no message.
`ReplayInv` describes what a reader will apply as a *walk* through the versions of the message:
for each number of a delta, how many changes are applied before it. The stored deltas are
such a walk from the record's content (`StoredWalk`), and stored and pending deltas together are
one that ends at the last version (`LiveWalk`). The steps are: a recorded change prolongs the
walk by one delta or, when its delta is merged into the last one, lengthens the last stride,
since applying two merged deltas is applying both (`MergeApplies`, `RecordWalks`); a commit
stores a longer part of the same walk, whether or not it was acknowledged (`CommitWalks`); a
drain only renames its pending end (`DrainWalks`); a save of the whole message is a walk of
length nothing (`StoredWhole`). That reading in the order of the numbers follows the walk is
`ReplayedIs`, proved from the least position at which it would not. `DurableMovesOn` is the
monotony of the walk. `DurableMovesOn` is no property of a run; TLC checked it, with `ReplayInv`,
on the instance of `MCSessions` before it was proved.

*CodexAuth* (proofs in the module) proves `CredentialsSafe` - a refresh token is presented once,
except where the answer was lost, a sign-out is final, a sign-in is completed by its own page -
and `OneRefreshAtATime`. The invariant is `LockInv` (who refreshes holds the file's lock),
`AskingInv` (what a refresh presents is what the file holds until the server has answered),
`TokenInv` (a token that was replaced is in the file only behind an answer that is being stored
or was lost), `EpochInv` (neither the file nor an answer is older than the last sign-in or
sign-out) and `ConsentInv` (the page that ended an attempt is its own, from the moment it
called). That the least of the waiting sign-ins exists needs the well-ordering of the numbers
(`LeastOne`).

*ScriptTurnProofs* proves that a script is started at most once and never after its answer
(`StartedUnanswered`, an action property) and that the record's outcome and the result the model
reads agree (`DeliveredAgrees`). The difficulty is that several processes write one history
and that a process acts on what it read before. The proof turns on *settled* responses: a
response is settled once its execution is finished, or when it has none and no process will
create one; no step unsettles a response or changes its record (`SettledKept`). `ResultsInv`
says that every result in the history stems from a settled response, `AgreesInv` that the first
one says what the record says, `StageInv` and `RecInv` what a process in each stage of a turn or
a recovery may assume although others write meanwhile, `OneHolder` that a response is in the
hands of one process, `StartInv` that what has not begun was not started, `OrderInv` that the
history is in order, and `ShapeInv` gives the types.

Its second half proves the whole of `ScriptsAnswered`: no call is answered twice (`OneAnswer`),
the calls of a response with a record are answered in their place before the next message
(`RecordedCallsAnswered`), and only its own results follow a streaming response
(`StreamingAtTip`), each as long as no process went on under a lease it had lost or claimed one
without recovering (`overtaken`; without that condition the code does not promise them). The
invariant is `AnswerInv`. `Tidy` describes the history: results stand in a block behind their
response, in the order of its calls, the later ones cancelled; responses are in the order of
their numbers; one that has begun to be answered is answered completely or is the tip. One lemma
per operation on the history shows that it stays tidy, provided that the response it answers is
the tip (`AppendedTidy`, `RecordTidy`), its first result is in place (`CompletedTidy`), or
nothing is open (`PreparedTidy`, after `RecoveredTidy`). That they are called in such states is
`HeldOK`: for the owner of the session, the response in hand is the tip until its result is
linked, an actor at rest has missed no result, and a recovery still has on its list every result
that is missing. `TokenOK` adds that work is only under way where a token is remembered, so a
write that is accepted is the owner's. TLC checked `AnswerInv` up to three responses of three
calls and two crashes before it was proved.

*SessionActorProofs* is about one session's actor with any number of requests, scripts and
failures. `Core` is inductive by itself: `TypeOK`, what each state of the actor implies about
its tasks (`StateInv`, `PhaseInv`, `TaskInv`), what a handler that waits implies (`WaitInv`),
that each job still open reports or is about to (`JobInv`), and who is charged with the lease
(`LeaseInv`). From it follow
- `NoRequestDropped`: an accepted request is answered or its responder is held in exactly
  described places (mailbox, deferred list, waiting handler, state, job). The proof shows for
  each step which place a responder moves to, and that no step overwrites an occupied one;
- `JobWillReport`: a job that has not been finished has a task that reports, a report in the
  mailbox, or an actor on the way to finish it;
- `NoStrayWork`: nothing streams, runs or prepares of which the actor does not know;
- `StartedIsRecorded`: who was told that a message was started finds it in the history. It
  needs a second invariant, `Book`, about the queue and what preparations have read of it;
- `QueueOrdered` and `ConsumesTheRead` (`ConsumptionCorrect`): the queue is ordered by its
  numbers, and what a preparation removes at its commit is a prefix. This justifies `Consumed`,
  which the model states as that prefix and the code as a comparison of numbers;
- `QueueServed`: a queued message is kept until it is in the history (`QueuedKept`, as long as
  no number of the queue is given twice), messages enter the history in the order of their
  arrival, and an actor at rest has no turn, no lease and nothing left in the queue. It needs
  two more invariants over `Core` and `Book`. `QueueInv` follows a message on its way: the queue,
  what a preparation took of it and the history form one line in the order of arrival
  (`LineInv`, `ArrivalInv`, `MailInv`), and a queued message is in the queue or in the history
  and never in both (`KeptInv`). `RestInv` says what the actor has already done when it goes
  idle: a handler that has claimed the lease has checked the queue (`ClaimInv`), a deleted or
  stopped session is empty (`GoneInv`), a failure report in the mailbox is accounted for
  (`ErrorInv`), and an idle actor without a handler has drained the queue or seen a failure
  (`CalmInv`), as long as no database operation failed;
- `ActorSound`, the conjunction of the first five.

*ServicesProofs* is about four components that run beside the sessions.
- `McpCredentials` (nothing is assumed of the constants) satisfies `McpCredentialsSound`, that is
  `CredentialsCurrent`, `SignInShown` and `QuietAfterShutdown`. The first follows from what is
  remembered of a generation being of one the file has had (`LoginsBehind`,
  `ConnectionsBehind`): a write names its generation and is dropped when the file has moved on.
  `SignInShown` is not inductive: it needs that a runtime forgets its completed sign-in when it
  begins another attempt (`AttemptsForget`), that a completed one of the present generation has
  left a token in the file (`CompletedHasToken`), and that a token task that heard of a refusal
  heard it of its own generation, or that generation is over (`RefusalsOwn`), so a late refusal
  never signs out a newer sign-in.
- `McpServer` (assumed: `NoTask` is no task) satisfies `ServersSound`: the cached catalog
  is what the connected server has, unless a notice is on its way or it was listed over a replaced
  connection (the case under *Smaller observations*), and a call that no task waits for is not left
  running on a live connection. The invariant says who
  holds the state across an await (`OneHolder`), that a catalog or a listing is of a generation
  the counter has reached (`GenerationsBehind`), that a listing is up to date until a notice or a
  new connection overtakes it (`ListedFresh`), and how connections and calls are numbered
  (`Numbered`, `CallersKnown`).
- `ProviderSend` (assumed: the memory of refused reasoning has room for one item) satisfies
  `SendAccounted` - what is recorded before an attempt is all that its series may have cost so far,
  a conversation fails over refused reasoning only when it has none left, and the memory of refused
  items stays a bounded set - and the action property `PauseKept`: no request is sent inside a
  pause that had been asked for when it last looked. The
  invariant is `CostKnown`, `ReasoningLeftOut`, `MemoryBounded` and `PauseHeard`.
- `McpSignIn` (assumed: the event channel has room for one event) satisfies the action property
  `BrowserOpens`: a page is opened only for the sign-in asked for last, at most once, and what was
  delivered to a terminal that missed nothing is shown and its page opened. The terminal learns of its
  sign-in in two ways that race, the answer of the bridge and the events, so the invariant
  has to relate them: no status on its way is newer than the runtime's (`NoneNewer`), requests
  and answers are in order (`InOrder`), from the number in the answer on every status is of the
  last sign-in (`LastBegun`), and a wish is waiting for its answer, or open, or settled, and then
  the page was opened (`WishAlive`, `WishOpen`, `Once`, `OnItsWay`, `Settled`).

*Conversation* (proofs in the module) assumes that the bound on messages is at least the two of
the first state and that the runtime `Here` has a name. It proves
`ConversationIntact`, that is `HistoryReadable`, `StreamAtTip` and `SettingsKept`. `RowsRead` says that a row that was read is the present one as
long as its revision is, which is what every write compares. `StreamAtTip` needs that a turn
owns the session and is active from its profile on, so that an undo the runtime lets through
began before (`TurnOwns`, `UndoneEarly`). For `HistoryReadable` the invariant is `Rooted`: some
set of messages that holds the parents of its members holds the tip; that is easier to carry
through a step than the chain itself, and an undo moves the tip only within what it read
(`UndoneTo`). The chain is a recursive function over the ids (`Chains`). That the function
exists, and that the chain of a rooted message is not empty, ends at a root and holds only
messages that are there, is proved from the least id of which it would not be true (`LeastOne`,
`ChainExists`, `ChainStep`, `ChainWhole`); that a link or a clean-up leaves the other chains as
they are is `ChainKept`.

*Only model-checked*, with the reason:
- liveness (`PublishedEventually`, `StaleTokenDropped`, `RequestsAnswered`, `StopCompletes`):
  fairness is out of the prover's reach;
- what folding a sequence computes (`RequestsSound`, `RequestComplete`): it needs induction over
  data, which is beyond the prover for the folds of the community modules; for a recursive
  function the equation has to be proved first, as `ReplayedIs` does for `Replayed` and
  `ChainExists` for `Chains`;
- `ScriptTurn`'s `TypeOK`, whose bound on queued messages only keeps the instance finite;
- the components of the suites other than `CodexAuth`, `StreamDeltas`, `ModelLists`,
  `Conversation`, `McpCredentials`, `McpServer`, `ProviderSend`, `McpSignIn`, `ScriptTurn` and
  `SessionActor`.

## 6. Not modelled, and plan

*Not modelled*: the provider registry (a table of factories filled at start), web search (one
HTTP request without state), the Node binding (forwards calls to the runtime handle), wording,
prompts, layout, price tables and usage limits, the packing of files for the performance
workloads and test support. *Modelled in part*: `SessionActor` leaves out the settings commands
that only post to other components, and undo is in `Conversation`; image files appear as
references; of a script's output files only what a killed host leaves; seccomp and AppContainer
are the set of accesses they permit. One hazard has no property: a preparation that panics
never reports, and its session stays in `Preparing` (`turn.rs:250`); the model has no panics.

*Plan*, in order of what it would add:
1. proofs about `AcpTransport` (the bounded queue never drops a reply), `RuntimeHost` and `WorkspaceFiles`;
2. panics of tasks in `SessionActor`.
